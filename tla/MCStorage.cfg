CONSTANTS
  idle = idle
  init = init
  ta = ta
  tb = tb
  tc = tc
  td = td
  Slots <- MCSlots
  Idle = idle
  InitTask = init
  NoTask = NoTask
  MAX_TASK = 5
  PidMod = 16
  MaxPid = 6
  Orderly = TRUE
  t1 = t1
  t2 = t2
  na = na
  nc = nc
  nd = nd
  long = long
  Tasks <- MCTasks
  Nobody = Nobody
  Careful = TRUE
  ISlots <- MCISlots
  NoSlot = NoSlot
  Inos <- MCInos
  NoIno = NoIno
  FS_ROOT_INODE_ID = 1
  Names <- MCNames
  LongNames <- MCLong
  NoName = NoName
  Paths <- MCPaths
  FSlots <- MCFSlots
  NoFile = NoFile
  NOFILE = 1
  RefMod = 8
  MaxSize = 1
  MaxEntries = 3
  Builtin = na
  Console <- MCConsole
  MaxFaults = 1
  Callers = {u1, u2}
  Bufs = {b1, b2}
  Blks = {k1, k2, k3}
  Vals = {0, 1}
  NoCaller = NoCaller
  NoBlk = NoBlk
  f1 = f1
  f2 = f2
  zero = zero
  one = one
  Files = {f1, f2}
  BlkVals = {zero, one}
  ZeroBlk = zero
  FS_INODE_DIR_DBLKNO = 2
  FS_INODE_INDIR_DBLKNO = 2
  DataBlks <- MCData
  Indir <- MCIndir
  MaxLen <- MCLens
SPECIFICATION StorageSpec
VIEW View
CHECK_DEADLOCK FALSE
INVARIANTS
  TableIsLiving
  ZombiesAwaitTheirParent
  WaitersHaveNoZombie
  ReferencesAreHeld
  OpensTheNamedFile
  NamesAreInodes
  HoldersShareOneCopy
  CleanIsOnDisk
  AllocationIsExact
PROPERTIES
  ContentsAreStable
  ImplementsFiles
