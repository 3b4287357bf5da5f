CONSTANTS
  Server = {s1, s2}
  none = none
  preVote = TRUE
  checkQuorum = TRUE
  snapshotCatchupGap = 1
  Value = {v}
  onDemand = FALSE
  snapshotThreshold = 2
  MaxTerm = 2
  MaxIndex = 2
  MaxNet = 2
  MaxCrash = 1
SPECIFICATION Spec
SYMMETRY ServerSymmetry
INVARIANTS TermsAreCampaigned
PROPERTIES DurableProgress LeaderAppendOnly
