CONSTANTS
  Key = {a, b, c, d}
  MaxTS = 3
  maxSize = 2
SPECIFICATION Spec
INVARIANT NeverUnderPushes
