SPECIFICATION Spec
CONSTANTS
    Main = "main"
    Workers = {"w1", "w2"}
    Shadow = "shadow"
    Decoy = "decoy"
    Features = {"f1", "f2"}
    Order <- InOrder
    Plan <- TwoPlan
    Validators = {"f2"}
    Run = Run
    Free = Free
    Nothing = Nothing
    Excluded = Excluded
    Events = {"start"}
    MaxHooks = 2
    Faults = {"torn", "removed", "front", "dropped", "decoy", "elsewhere", "root", "second", "remade", "workspace", "mission"}
    MaxFaults = 1
    Aliases = {a, b}
    Lines <- FourLines
    Gone = Gone
    MaxInodes = 2
    MaxLines = 3
    MaxMishaps = 1
    Mischief = {"replace", "remove", "link", "cut"}
    MAX_TRANSCRIPT_READ_BYTES = 3
    MAX_TRANSCRIPT_LINE_BYTES = 1
    MAX_RECORDS_PER_READ = 2
    MAX_PENDING_FACTORY_TOOL_USES = 1
SYMMETRY Alike
INVARIANTS
    AcceptedMeansNamed
    AdmittedStay
    ContradictionClosesIntake
    LinesReadOnce
    CorrectionsPaired
CHECK_DEADLOCK FALSE
