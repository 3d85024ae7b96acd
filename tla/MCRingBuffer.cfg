\* Three slots, so that seven insertions wrap the indices twice; insertions
\* in the interrupt and reads in the thread, or the other way round.
SPECIFICATION Spec
CONSTANTS
  Size = 3
  MaxInserts = 7
INVARIANTS
  HoldsLastInsertions
  ReadSound
  PointerStable
PROPERTIES
  KeepsLastN
