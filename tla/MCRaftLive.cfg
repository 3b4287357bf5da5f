CONSTANTS
  Server = {s1}
  none = none
  preVote = TRUE
  checkQuorum = TRUE
  snapshotCatchupGap = 8
  Value = {v, w, x}
  onDemand = TRUE
  snapshotThreshold = 3
  MaxTerm = 1
  MaxIndex = 4
  MaxNet = 1
  MaxCrash = 0
SPECIFICATION FairSpec
PROPERTY EveryProposalAnswered
