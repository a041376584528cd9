SPECIFICATION RouteSpec
CONSTANTS
    Peers = {"h", "p"}
    Publications = {"g"}
    NoUp = none
    MaxRevision = 5
    MaxLosses = 2
    MaxPauses = 2
    MaxMedia = 2
INVARIANTS
    RouteSafety
    NothingStalls
PROPERTIES
    MediaSurvivesCandidates
CHECK_DEADLOCK FALSE
