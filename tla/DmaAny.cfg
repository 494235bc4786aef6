SPECIFICATION Spec
CONSTANTS
  LastBit = 1
  DivMax = 1
  FrcMax = 9
  MemMax = 1
  Short = 3
  Accesses <- SomeAccesses
  RxBytes <- SomeBytes
INVARIANT Ownership
PROPERTY TimeoutUndisturbed
