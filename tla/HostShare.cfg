SPECIFICATION ShareSpec
CONSTANTS
    MaxShares = 2
    MaxConnections = 3
    MaxPauses = 2
    MaxRefusals = 1
INVARIANTS
    ShareTruth
PROPERTIES
    NoResurrection
    ShareSettles
CHECK_DEADLOCK FALSE
