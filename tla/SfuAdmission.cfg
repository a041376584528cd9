SPECIFICATION AdmissionSpec
CONSTANTS
  Rooms = {r1, r2}
  Generations = {g1, g2}
  Connections = {c1, c2}
  IngressCapacity = 3
  EgressCapacity = 3
INVARIANTS
    LedgerSafety
PROPERTIES
    RetireBeforeFree
    EgressPool
SYMMETRY Symmetry
