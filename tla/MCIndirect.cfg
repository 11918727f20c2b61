CONSTANTS
  f1 = f1
  f2 = f2
  zero = zero
  one = one
  Files <- MCFiles
  BlkVals <- MCVals
  ZeroBlk = zero
  FS_INODE_DIR_DBLKNO = 2
  FS_INODE_INDIR_DBLKNO = 2
  DataBlks <- MCData
  Indir <- MCNoIndir
  MaxLen <- MCLongLens
SPECIFICATION InodesSpec
PROPERTY ImplementsFiles
