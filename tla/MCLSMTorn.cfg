SPECIFICATION Spec
CONSTANTS
  Key = {k}
  Value = {v, w}
  Absent = Absent
  Tombstone = Tombstone
  None = None
  L0Threshold = 2
  GrowthFactor = 3
  GrowthUnit = 2
  MaxLevel = 3
  tornWrites = TRUE
  MaxBatch = 1
  MaxOps = 2
  MaxStray = 1
  MaxCrash = 2
SYMMETRY symmetry
CHECK_DEADLOCK FALSE
INVARIANT ReadsAreDurable
