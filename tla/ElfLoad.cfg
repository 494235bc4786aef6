SPECIFICATION FairSpec
CONSTANTS
  SU = 2
  Indices = 12
  Path <- MCPath
  Cards <- MCCards
  Faults = 2
  Chunk = 3
  Section = 0
  Memory = {0, 1, 2, 3, 4, 5, 6, 7, 8}
INVARIANT PlaceTrue ProgramLoaded
PROPERTY Boots
CHECK_DEADLOCK FALSE
