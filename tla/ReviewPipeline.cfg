SPECIFICATION BothFairSpec
CONSTANTS
    NoRisk = NoRisk
    r1 = r1
    r2 = r2
    MaxExchanges = 2
    MaxQueue = 1
    Deltas <- LastOnly
    Risks = {r1}
    Reveals <- InSecond
    Faults = {"disk", "transcript", "extraction", "exception", "scheduler", "abort", "slow"}
    ProbeExchanges = 3
    ProbeQueue = 2
    ProbeDeltas <- SecondAndThird
    ProbeRisks = {r1, r2}
    ProbeReveals <- FirstAndSecond
    ProbeFaults = {"snapshot", "unsafe"}
INVARIANTS
    JournalInOrder
    CleanStopMeansReviewed
    EveryRiskProbedOnce
    EveryRiskSettled
PROPERTIES
    Reviewed
    Stops
