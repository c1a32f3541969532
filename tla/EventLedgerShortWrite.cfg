\* A file system that may run full in the middle of a line.
CONSTANTS
    Clients = {c1, c2}
    Events = {e1, e2}
    Digests = {d1,d2}
    Bodies = {allow,deny}
    MaxItems = 1
    MaxPendings = 2
    NoDigest = none
    ShortWrites = TRUE
SPECIFICATION Spec
INVARIANT AckedSurvives
CHECK_DEADLOCK FALSE
