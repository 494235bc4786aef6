SPECIFICATION FairCoreSpec
CONSTANTS
  SlotMax = 2
  SlotNums = {1, 2}
  RestMax = 8
  Configs <- MCConfigs
  Requests <- MCRequests
  InitWords <- MCInitWords
INVARIANT ReadFresh WritesKept KeysPlayed
PROPERTY AccessEnds
