SPECIFICATION RouteSpec
CONSTANTS
    Peers = {"h"}
    Publications = {"g"}
    NoUp = none
    MaxRevision = 4
    MaxLosses = 1
    MaxPauses = 1
    MaxMedia = 2
INVARIANTS
    CommittedFailureIsReported
CHECK_DEADLOCK FALSE
