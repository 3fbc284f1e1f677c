CHECK_DEADLOCK FALSE
CONSTANTS
  r1 = r1
  r2 = r2
  r3 = r3
  NO_OF_BUFFERS = 3
  Readers <- OneReader
  MaxFrames = 1
  MaxResets = 0
  OpenModulus = 256
  MaxOpens = 3
SPECIFICATION DeviceSpec
INVARIANT SignalledSlotIsFilled
