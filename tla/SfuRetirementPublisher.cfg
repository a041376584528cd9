SPECIFICATION RetirementSpec
CONSTANTS
  Rooms = {r1}
  Generations = {g1, g2}
  Connections = {c1}
  IngressCapacity = 1
  EgressCapacity = 1
INVARIANT
  PublisherStaysCharged
CHECK_DEADLOCK FALSE
