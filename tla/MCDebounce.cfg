\* Sampling at any time, twelve milliseconds, a period of three.
SPECIFICATION DebounceSpec
CONSTANTS
  Modulus = 16
  Durations = {3}
  Period = 3
  MaxUptime = 12
INVARIANTS
  CallbackMeansHeld
  AnswersTruthfully
PROPERTIES
  CallbackEachPeriod
