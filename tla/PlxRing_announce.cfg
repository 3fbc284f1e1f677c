CONSTANTS
  r1 = r1
  r2 = r2
  NO_OF_BUFFERS = 3
  Readers <- OneReader
  MaxFrames = 4
  MaxResets = 0
SPECIFICATION Spec
INVARIANT CompletedFramesAreAnnounced
