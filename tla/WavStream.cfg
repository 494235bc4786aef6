SPECIFICATION FairSpec
CONSTANTS
  Frac = 4
  Ring = 16
  Block = 4
  Length = 22
  Speeds = {1, 4, 7}
  MaxPlays = 2
INVARIANT NoTear InStep
PROPERTY InOrder Ends
CHECK_DEADLOCK FALSE
