\* A unit of the longest length the header allows.
SPECIFICATION Spec
CONSTANTS
  Threads = {net, app}
  NetThread = net
  MaxFaults = 0
  MaxDrops = 0
  UnitLengths = {15}
  UnitSize = 15
INVARIANTS
  InitializedCanBeSent
