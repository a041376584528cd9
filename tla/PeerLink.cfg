SPECIFICATION FairSpec
CONSTANTS
    Parents = {"host", "relay"}
    MaxNames = 7
    MaxTroubles = 3
INVARIANT NegotiationSafety
PROPERTY LinkSettles
CHECK_DEADLOCK FALSE
