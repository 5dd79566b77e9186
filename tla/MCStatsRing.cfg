SPECIFICATION FairSpec
CONSTANTS
  Writers = {1, 2}
  Samples <- MCSamples
  Capacity = 2
  MaxRecords <- MCMaxRecords
INVARIANTS
  TypeOK
  NoSlotRace
  StatsInv
  CountersMatchSamples
PROPERTIES
  ImplementsLedger
  EveryRingIsDrained
