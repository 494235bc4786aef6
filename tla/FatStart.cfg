SPECIFICATION Spec
CONSTANTS
  NFatent = 4
  PerSect = 1
  SS = 2
  a = a
  b = b
  Names = {a, b}
  Nobody = Nobody
  Bounds <- MCBounds
INVARIANT StartIfNotEmpty
CHECK_DEADLOCK FALSE
