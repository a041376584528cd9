SPECIFICATION WatchedSpec
CONSTANTS
    Viewers = {v1, v2, v3}
    Host = host
    EndpointCapacity = 3
    SfuEnabled = TRUE
    Generations = {1, 2, 3}
    MaxChurn = 2
INVARIANTS
    CopyBudget
    PreparedIsNewest
    RestingRoomServes
PROPERTIES
    GapStartsCandidate
    HandoverKeepsMedia
SYMMETRY Symmetry
CHECK_DEADLOCK FALSE
