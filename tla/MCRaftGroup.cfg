CONSTANTS
  Server = {s1, s2, s3}
  none = none
  preVote = TRUE
  checkQuorum = TRUE
  snapshotCatchupGap = 1
  Value = {v}
  onDemand = FALSE
  snapshotThreshold = 2
  MaxTerm = 1
  MaxIndex = 2
  MaxNet = 1
  MaxCrash = 1
SPECIFICATION Spec
SYMMETRY ServerSymmetry
INVARIANTS TypeOK AppliedIsCommitted AcksAreDurable
VIEW NoElections
