CONSTANTS
  t1 = t1
  t2 = t2
  t3 = t3
  Tasks <- MCTasks
  RamPages <- MCPages
  RamSizes <- MCSizes
  NoPage = NoPage
  Kernel = Kernel
  LEVELS = 3
  RcMod = 4
  TRAPFRAME <- MCTrapframe
  TRAMPOLINE <- MCTrampoline
  USTACK_TOP <- MCStack
  THREAD_TRAPFRAME <- MCThreadTrapframe
  KernelMap <- MCKernelMap
  IoVas <- MCIoVas
  Segments <- MCSegments
  Values <- MCValues
  Zero = 0
  MaxFaults = 1
  ThreadedCalls = {}
  Straddling = FALSE
  n1 = n1
  n2 = n2
  n3 = n3
  Heads = {h1, h2}
  Nodes = {n1, n2, n3}
  Rank <- MCRank
  NULL = NULL
  heap_limit = 12
  heap_max_blocks = 5
  heap_split_thresh = 4
  heap_alignment = 2
  Requests = {1, 2, 3, 6}
  glyph = glyph
  MAX_ROWS = 3
  MAX_COLS = 4
  FbSizes = {16, 24}
  TabStop = 2
  Glyphs = {glyph}
  Descenders = {glyph}
  Blank = Blank
  Line = Line
  Banners <- MCBanners
  RegMod = 64
  BAR_COUNT = 3
  FbBase = 20
  CfgBase = 16
  VirtioBase = 24
  Hardware <- MCHardware
  QueueSizes = {0, 1, 2, 4, 16, 128}
  VIRTIO_MAX_QUEUE_SIZE = 16
  PageSize = 4096
  NoAddr = NoAddr
SPECIFICATION StructuresSpec
VIEW PartView
CHECK_DEADLOCK FALSE
INVARIANTS PagesAreCounted TrapframesAreMapped LinksAreLists HeapIsTiled ScreenShowsText DriversReachTheirDevices
PROPERTY ImplementsMemory
