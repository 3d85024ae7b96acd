\* Queues: two threads with four calls each, on a pool of two blocks; messages
\* of five bytes, that is two words, and a queue of two that fills up.
\* Notify: two producers with three calls each on a queue of two: it fills
\* up, and the producers interleave between the put and the flag.
\* Timers: two calls of each thread and five ticks of a timer of two.
\* Bounded calls end every behaviour.
SPECIFICATION ThreadXSpec
CONSTANTS
  Threads = {t1, t2}
  Objects = {q1, invalid}
  Invalid = {invalid}
  PoolSize = 2
  MaxCalls = 4
  TheQueue = q1
  message_size = 5
  capacity = 2
  MaxWords = 16
  Duration = 2
  MaxTicks = 5
  TimerCalls = 2
  Producers = {p1, p2}
  NotifyCapacity = 2
  NotifyCalls = 3
INVARIANTS
  NothingStranded
  PoolAccounted
  MessagesIntact
PROPERTIES
  Delivered
  CallbackOnTime
  ResetAloneTakesEffect
CHECK_DEADLOCK FALSE
