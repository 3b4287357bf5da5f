CONSTANTS
  Node = {n1, n2}
  MaxWall = 2
  MaxPings = 1
  MaxLogical = 1
SPECIFICATION Spec
INVARIANTS TypeOK CausalOrder
PROPERTY BackwardsOnlyAtLimit
