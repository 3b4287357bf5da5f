CONSTANTS
  Server = {s1, s2, s3}
  none = none
  preVote = TRUE
  checkQuorum = TRUE
  snapshotCatchupGap = 8
  Value = {v}
  onDemand = FALSE
  snapshotThreshold = 8
  MaxTerm = 2
  MaxIndex = 2
  MaxNet = 1
  MaxCrash = 0
SPECIFICATION Spec
SYMMETRY ServerSymmetry
INVARIANT StateMachineSafety
VIEW NoElections
