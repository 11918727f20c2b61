CONSTANTS
  idle = idle
  clockd = clockd
  tickd = tickd
  kt = kt
  user = user
  clock = clock
  tick = tick
  io = io
  mutex = mutex
  NoTask = NoTask
  Tasks <- MCTasks
  Idle = idle
  Prio <- MCPrio
  Queues <- MCQueues
  TimeMod = 2
  MaxSeconds = 0
  MaxPreempt = 2
  Sems <- MCSems
  Mutexes <- MCMutexes
  KThreads <- MCKThreads
  ClockDaemon = clockd
  TickDaemon = tickd
  ClockSem = clock
  TickSem = tick
  IoSem = io
  ITFREQ = 2
  TickMod = 2
  Spawns <- MCSpawns
  Delays = {0}
  MaxCount = 1
SPECIFICATION SyncSpec
CHECK_DEADLOCK TRUE
INVARIANTS SpinlocksAreFree QueuesMatchCounts
PROPERTIES ImplementsPrimitives ImplementsScheduler
