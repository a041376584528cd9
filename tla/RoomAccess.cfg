SPECIFICATION Spec
CONSTANTS
    Clients = {c1, c2}
    Codes = {k1, k2}
    MaxRooms = 1
    MaxViewers = 1
    GateLimit = 1
    GatePending = 1
    MaxIds = 2
    MaxSessions = 2
    MaxJobs = 2
    MaxGrants = 2
    MaxChanges = 2
    MaxFaults = 1
INVARIANTS
    AccessSafety
    MembershipAgrees
PROPERTIES
    DerivedIsCurrent
    GraceIsItsOwn
SYMMETRY Sym
CHECK_DEADLOCK FALSE
