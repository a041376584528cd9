SPECIFICATION ShareSpec
CONSTANTS
    MaxShares = 2
    MaxConnections = 3
    MaxPauses = 2
    MaxRefusals = 1
INVARIANT
    PausesAgree
CHECK_DEADLOCK FALSE
