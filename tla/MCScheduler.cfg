CONSTANTS
  idle = idle
  tickd = tickd
  u1 = u1
  u2 = u2
  none = none
  q1 = q1
  q2 = q2
  Tasks <- MCTasks
  Idle = idle
  NoTask = none
  Prio <- MCPrio
  Queues <- MCQueues
  TimeMod = 3
  MaxSeconds = 1
  MaxPreempt = 2
SPECIFICATION Spec
SYMMETRY MCSymmetry
INVARIANTS
  TypeOK
  ReadyQueuesMatchStates
  BlockingQueuesMatchStates
  HeadRuns
  HighestPriorityRuns
  OwedSwitchIsToSelf
  SleepersInOrder
PROPERTIES
  NoSwitchWhenPreemptDisabled
  FifoWakeUp
