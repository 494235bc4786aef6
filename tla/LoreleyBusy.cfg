SPECIFICATION CoreSpec
CONSTANTS
  SlotMax = 2
  SlotNums = {1, 2}
  RestMax = 0
  Configs <- MCConfigs
  Requests <- MCRequests
  InitWords <- MCInitWords
PROPERTY HwBitsProtected
