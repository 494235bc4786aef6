SPECIFICATION Spec
CONSTANTS
  MaxFd = 2
  Std = 0
  Names = {n1}
  Cards = {a, b}
  Nil = nil
  Protected = {b}
  MaxSize = 1
  MaxMounts = 3
INVARIANT SlotsDisjoint NoForeignCard PointerInside
PROPERTY ClosedIsStored
