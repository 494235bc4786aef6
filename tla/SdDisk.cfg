SPECIFICATION FairSdSpec
CONSTANTS
  Cards = {a, b, c, m}
  Mmc = {m}
  Sd1 = {b}
  Sdhc = {a}
  Protected = {b}
  Nil = nil
  Sectors = 2
  Values = {x, y}
  Blank = x
  Junk = junk
  MaxCount = 2
  Tries = 2
  Unit = 2
INVARIANT ReadTrue WriteDone SyncDurable CardKnown
PROPERTY WritesAsked CallsReturn
