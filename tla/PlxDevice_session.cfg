CHECK_DEADLOCK FALSE
CONSTANTS
  r1 = r1
  r2 = r2
  r3 = r3
  NO_OF_BUFFERS = 2
  Readers <- TwoReaders
  MaxFrames = 2
  MaxResets = 1
  OpenModulus = 3
  MaxOpens = 3
SPECIFICATION FairDeviceSpec
INVARIANTS
  DeviceTypeOK
  BuffersOutliveDma
  ChipBackInSession
PROPERTIES
  LastUserUninstalls
  SessionDmaServed
