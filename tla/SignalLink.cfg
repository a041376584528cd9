SPECIFICATION Spec
CONSTANTS
    MaxSockets = 3
    MaxChallenges = 4
    MaxRebaselines = 1
INVARIANTS
    LinkSafety
PROPERTIES
    HealthySocketKept
    LinkRecovers
CHECK_DEADLOCK FALSE
