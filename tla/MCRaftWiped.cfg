CONSTANTS
  Server = {s1, s2, s3}
  none = none
  preVote = TRUE
  checkQuorum = TRUE
  snapshotCatchupGap = 1
  Value = {v, w}
  onDemand = FALSE
  snapshotThreshold = 3
  MaxTerm = 1
  MaxIndex = 3
  MaxNet = 1
  MaxCrash = 1
SPECIFICATION Spec
SYMMETRY Symmetry
INVARIANT AppliedIsReflected
VIEW NoElections
