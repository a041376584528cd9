SPECIFICATION FairSpec
CONSTANTS
  Rooms = {r1}
  Generations = {g1, g2}
  Connections = {c1, c2}
  IngressCapacity = 2
  EgressCapacity = 2
INVARIANTS
    DrainsMatchLedger
    HoldersAreCharged
PROPERTIES
    RetirementEnds
CHECK_DEADLOCK FALSE
