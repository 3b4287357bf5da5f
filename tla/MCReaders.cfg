CONSTANTS
  Key = {k1, k2}
  Value = {v}
  Absent = Absent
  Tombstone = Tombstone
  Iter = {i1, i2}
  MaxOps = 3
  MaxFail = 1
SPECIFICATION Spec
SYMMETRY Symmetry
CHECK_DEADLOCK FALSE
INVARIANT TypeOK
INVARIANT IteratorIsStable
INVARIANT HandlesAreHeld
