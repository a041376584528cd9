SPECIFICATION FairSpec
CONSTANTS
    Viewers = {v1, v2}
    Host = host
    EndpointCapacity = 1
    SfuEnabled = TRUE
    Generations = {1, 2, 3}
    MaxChurn = 1
INVARIANTS
    GraphOK
    ResourcesBalance
PROPERTIES
    CommitDelivers
    RoomSettles
CHECK_DEADLOCK FALSE
