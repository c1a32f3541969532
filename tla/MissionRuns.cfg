SPECIFICATION Spec
CONSTANTS
    Runs = {m1, m2}
    Kinds = {"mission", "baseline"}
    Nobody = Nobody
    Preflights <- Approved
    Flags = {"terminal", "blocked"}
    Faults <- AllFaults
    MaxFaults = 1
    Names = {n1}
    Foreign = Foreign
SYMMETRY Swap
INVARIANTS
    MissionsCountedOnce
    OneMissionAtATime
    TerminalStatusStays
    DeletedMeansGone
    WholeSuccess
CHECK_DEADLOCK FALSE
