CONSTANTS
  Server = {s1, s2, s3}
  none = none
  preVote = TRUE
  checkQuorum = TRUE
  snapshotCatchupGap = 8
  Value = {}
  onDemand = FALSE
  snapshotThreshold = 8
  MaxTerm = 2
  MaxIndex = 1
  MaxNet = 2
  MaxCrash = 0
SPECIFICATION Spec
SYMMETRY ServerSymmetry
INVARIANT ElectionSafety
