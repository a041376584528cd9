SPECIFICATION DuelSpec
CONSTANTS
  Rooms = {r1, r2}
  Generations = {g1, g2, g3}
  Connections = {c1, c2}
  IngressCapacity = 2
  EgressCapacity = 2
  MaxOrphans = 1
INVARIANTS
    LedgerSafety
    EveryUnitHasOneHolder
    ValidCandidateCommits
PROPERTIES
    EgressPool
    WaitingEnds
