SPECIFICATION Spec
CONSTANTS
    Connections = {c1, c2, c3}
    NoConnection = NoConnection
    Requests <- Mixed
    NoRequest = NoRequest
    Malformed <- Bad
    MaxHandlers = 3
    MaxContexts = 2
    MaxItems = 1
SYMMETRY AnyOrder
INVARIANTS
    RetryGetsFirstExchange
    NothingIsLost
PROPERTY
    IntakeStopsFirst
CHECK_DEADLOCK FALSE
