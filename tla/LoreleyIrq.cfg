SPECIFICATION FairSpec
CONSTANT SlotNums = {0, 14, 29, 127}
INVARIANT EncoderShows
PROPERTY ScanEnds
