CONSTANTS
  idle = idle
  clockd = clockd
  tickd = tickd
  u1 = u1
  u2 = u2
  clock = clock
  tick = tick
  io = io
  mutex = mutex
  NoTask = NoTask
  Tasks <- MCTasks
  Idle = idle
  Prio <- MCPrio
  Queues <- MCQueues
  TimeMod = 4
  MaxSeconds = 0
  MaxPreempt = 2
  Sems <- MCSems
  Mutexes <- MCMutexes
  KThreads <- MCKThreads
  ClockDaemon = clockd
  TickDaemon = tickd
  ClockSem = clock
  TickSem = tick
  IoSem = io
  ITFREQ = 1
  TickMod = 1
  Spawns <- MCSpawns
  Delays = {0}
  MaxCount = 1
SPECIFICATION KernelSpec
CHECK_DEADLOCK TRUE
PROPERTY ReadyTasksRun
