CONSTANTS
  idle = idle
  init = init
  a = a
  b = b
  c = c
  d = d
  Slots <- MCSlots
  Idle = idle
  InitTask = init
  NoTask = NoTask
  MAX_TASK = 5
  PidMod = 16
  MaxPid = 6
  Orderly = TRUE
SPECIFICATION LeavingSpec
SYMMETRY MCSymmetry
CHECK_DEADLOCK FALSE
INVARIANT ZombiesAreTerminated
