SPECIFICATION FairDriverSpec
CONSTANTS
  LastBit = 0
  DivMax = 1
  FrcMax = 8
  MemMax = 11
  WordCounts = {4}
  DmaTime = 8
  WaitTime = 2
  IdentDiv = 1
  TransDiv = 0
  Block <- SomeBlock
  Answers <- SomeAnswers
  Accesses <- DriverWrites
  RxBytes <- SomeRx
INVARIANT RecvAnswer BlockDelivered ErrorReported
PROPERTY KeepsRules FunctionReturns ImplementsReader
