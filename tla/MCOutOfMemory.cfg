CONSTANTS
  t1 = t1
  t2 = t2
  t3 = t3
  Tasks <- MCTasks
  RamPages <- MCPages
  RamSizes <- MCSizes
  NoPage = NoPage
  Kernel = Kernel
  LEVELS = 3
  RcMod = 4
  TRAPFRAME <- MCTrapframe
  TRAMPOLINE <- MCTrampoline
  USTACK_TOP <- MCStack
  THREAD_TRAPFRAME <- MCThreadTrapframe
  KernelMap <- MCKernelMap
  IoVas <- MCIoVas
  Segments <- MCSegments
  Values <- MCValues
  Zero = 0
  MaxFaults = 1
  ThreadedCalls = {}
  Straddling = FALSE
SPECIFICATION Spec
VIEW View
CHECK_DEADLOCK FALSE
INVARIANT FailedCallsReturn
