CONSTANTS
  r1 = r1
  r2 = r2
  NO_OF_BUFFERS = 2
  Readers <- TwoReaders
  MaxFrames = 2
  MaxResets = 1
SPECIFICATION FairSpec
INVARIANTS
  TypeOK
  ReadersExclude
  SemaphoreLostOnlyAtIp
  DpcOwnsChip
PROPERTIES
  DmaInterruptServed
  InterruptsComeBack
  SleepersAreWoken
