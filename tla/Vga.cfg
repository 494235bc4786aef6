SPECIFICATION Spec
CONSTANTS
  H_SYNC = 2 H_BACKP = 2 H_ACTIVE = 4 H_TOTAL = 9
  V_SYNC = 1 V_BACKP = 1 V_ACTIVE = 2 V_TOTAL = 5
  Counts = {0, 1, 2, 3} Weights = {1, 2}
  Pages = {0, 1}
  Ratio = 2
INVARIANT FarReported WholePages
PROPERTY RightLine
