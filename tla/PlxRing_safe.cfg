CONSTANTS
  r1 = r1
  r2 = r2
  NO_OF_BUFFERS = 3
  Readers <- TwoReaders
  MaxFrames = 5
  MaxResets = 0
SPECIFICATION Spec
INVARIANTS
  DeliversInOrder
  GapsAreCounted
  PointersMeetOnlyAfterTrouble
  PointersInOrder
  FramesInOrder
SYMMETRY ReaderSymmetry
PROPERTIES
  ImplementsQueue
