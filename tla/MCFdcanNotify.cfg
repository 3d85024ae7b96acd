\* The application recovers from the bus-off interrupt; no HAL call fails.
SPECIFICATION FdcanSpec
CONSTANTS
  Senders = {s1}
  FifoDepth = 1
  IdPairs = {a}
  MaxFilters = 1
  MayFail = {}
  MaxFailures = 0
  Discovery = "interrupt"
INVARIANTS
  NotificationsRestored
