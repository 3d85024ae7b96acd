\* Two senders, an application that polls for bus-off, HAL calls that fail.
SPECIFICATION FdcanFairSpec
CONSTANTS
  Senders = {s1, s2}
  FifoDepth = 2
  IdPairs = {a, b}
  MaxFilters = 3
  MayFail = {"lines", "notify", "global", "init_start", "stop", "filter",
             "startup_filter"}
  MaxFailures = 2
  Discovery = "poll"
INVARIANTS
  FiltersKept
  ReceivesWhenHealthy
PROPERTIES
  RefusedOnlyIfOvertaken
  StartupSettles
  BusOffRecovered
