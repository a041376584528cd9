SPECIFICATION Spec
CONSTANTS
  Rooms = {r1, r2}
  Generations = {g1, g2, g3}
  Connections = {c1, c2}
  IngressCapacity = 2
  EgressCapacity = 1
  MaxOrphans = 1
INVARIANT NoRoomWaitsForFreeCapacity
