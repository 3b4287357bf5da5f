SPECIFICATION Spec
CONSTANTS
  Key = {k1, k2}
  Value = {v}
  Absent = Absent
  Tombstone = Tombstone
  None = None
  L0Threshold = 2
  GrowthFactor = 3
  GrowthUnit = 2
  MaxLevel = 3
  tornWrites = FALSE
  MaxBatch = 2
  MaxOps = 3
  MaxStray = 1
  MaxCrash = 1
SYMMETRY symmetry
CHECK_DEADLOCK FALSE
INVARIANT TypeOK
INVARIANT MetaRefsExist
INVARIANT ReadsAreDurable
PROPERTY ImplementsKVStore
