\* Equal priorities; threads leave tracing alone once dumps are armed.
SPECIFICATION FairSpec
CONSTANTS
  ChunkBytes = 2
  Sizes = {0, 1, 2, 3, 4, 5, 6, 7, 8, 9}
  Modulus = 16
  HigherPriority = "none"
  CallsAfterArming = {}
INVARIANTS
  NotTracedWhileDumped
PROPERTIES
  DumpsBuffer
  DumpsComplete
