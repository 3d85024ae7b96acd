\* The completion interrupt preempts the dump request.
SPECIFICATION Spec
CONSTANTS
  ChunkBytes = 2
  Sizes = {3, 5}
  Modulus = 8
  HigherPriority = "complete"
  CallsAfterArming = {}
INVARIANTS
  ChunkInBuffer
