------------------------------- MODULE Inodes -------------------------------
(***************************************************************************)
(* The data blocks of files (core/fs/inode.c, core/fs/balloc.c): how a     *)
(* block of a file is found or allocated, directly or through the indirect *)
(* block, and written; and what of an inode outlives its slot of the inode *)
(* cache.                                                                  *)
(*                                                                         *)
(* Contents are in blocks.  A call holds the mutex of its inode; calls on  *)
(* different inodes meet in the bitmap and in an indirect block, which the *)
(* mutex of their buffers protects for the whole of an iteration of the    *)
(* loop of inode_write, so an iteration is one action, the last of a call  *)
(* with the inode_mark_dirty that follows it.  No file is truncated:       *)
(* inode_truncate has no caller, and nothing takes the link away that      *)
(* keeps inode_put from it.                                                *)
(***************************************************************************)
EXTENDS Integers, Sequences, FiniteSets

CONSTANTS
  Files,
  FS_INODE_DIR_DBLKNO,
  FS_INODE_INDIR_DBLKNO,
  DataBlks,  \* the block numbers from sb.data_start on
  Indir,     \* content.indir of each file, as mkfs wrote it: 0 for none.  The
             \* kernel never changes it.
  MaxLen,    \* bound: the length of each file in blocks
  BlkVals, ZeroBlk

\* Block 0 is no data block: 0 stands for no block.
ASSUME InodesAssumption ==
  /\ FS_INODE_DIR_DBLKNO \in Nat /\ FS_INODE_INDIR_DBLKNO \in Nat
  /\ DataBlks \subseteq Nat \ {0} /\ IsFiniteSet(DataBlks)
  /\ Indir \in [Files -> DataBlks \cup {0}]
  /\ MaxLen \in [Files -> Nat]
  /\ ZeroBlk \in BlkVals

ENOSPC == -28
EFAULT == -14

VARIABLES
  bitmap,    \* the data bitmap
  dirblkno,  \* content.dirblkno of each file, in its slot of the cache
  filesize,  \* content.size
  dinode,    \* the inode table, as the block cache has it
  indirtab,  \* the entries of each block that is used as an indirect block
  blkdata,   \* of each data block
  res,       \* the result of the last call
  lost       \* history: the blocks that no inode names any more

inodevars == <<bitmap, dirblkno, filesize, dinode, indirtab, blkdata, res, lost>>

Direct == 0..(FS_INODE_DIR_DBLKNO - 1)
Indirect == 0..(FS_INODE_INDIR_DBLKNO - 1)
Reserved == {Indir[f] : f \in Files} \ {0}
-----------------------------------------------------------------------------
\* Faulty bbm_alloc: the bit is not set
bbm_alloc_unset(b) == bitmap' = bitmap

\* bbm_alloc: the first zero bit
bbm_alloc(b) == bitmap' = bitmap \cup {b}

FreeBlks == DataBlks \ bitmap
FirstZero == CHOOSE b \in FreeBlks : \A c \in FreeBlks : b <= c

\* The number that dirblkno or the indirect block has for the nth block
Entry(f, n) ==
  IF n < FS_INODE_DIR_DBLKNO THEN dirblkno[f][n]
  ELSE indirtab[Indir[f]][n - FS_INODE_DIR_DBLKNO]

\* Faulty get_indir_blk: the index is not rescaled
SetBlknoUnscaled(f, n, b) ==
  IF n < FS_INODE_DIR_DBLKNO
  THEN dirblkno' = [dirblkno EXCEPT ![f][n] = b] /\ UNCHANGED indirtab
  ELSE indirtab' = [indirtab EXCEPT ![Indir[f]][0] = b] /\ UNCHANGED dirblkno

SetBlkno(f, n, b) ==
  IF n < FS_INODE_DIR_DBLKNO
  THEN dirblkno' = [dirblkno EXCEPT ![f][n] = b] /\ UNCHANGED indirtab
  ELSE indirtab' = [indirtab EXCEPT ![Indir[f]][n - FS_INODE_DIR_DBLKNO] = b] /\ UNCHANGED dirblkno

\* Faulty mark_dirty_locked: the table is not written
MarkNothing(f) == UNCHANGED dinode

\* mark_dirty_locked, at the end of a step that gave the slot its contents
MarkDirty(f) ==
  dinode' = [dinode EXCEPT ![f] = [dirblkno |-> dirblkno'[f], size |-> filesize'[f]]]

\* inode_write(f) may work on block n
At(f, n) == n \in 0..filesize[f] /\ n < MaxLen[f]

\* The block is written and the file may grow; file_writer marks the inode.
Stored(f, n, b, v) ==
  /\ blkdata' = [blkdata EXCEPT ![b] = v]
  /\ filesize' = [filesize EXCEPT ![f] = IF n + 1 > @ THEN n + 1 ELSE @]
  /\ MarkDirty(f)
  /\ res' = 1
  /\ UNCHANGED lost

\* An iteration fails.  A call that has written the block before reports that,
\* and its inode is marked; else file_writer returns before inode_mark_dirty.
Stops(f, n, err) ==
  /\ UNCHANGED <<filesize, lost>>
  /\ \/ res' = err /\ UNCHANGED dinode
     \/ n > 0 /\ res' = 1 /\ MarkDirty(f)

\* inode_write on a block the file has
Overwrite(f, n, v) ==
  /\ At(f, n) /\ Entry(f, n) > 0
  /\ UNCHANGED <<bitmap, dirblkno, indirtab>>
  /\ Stored(f, n, Entry(f, n), v)

\* inode_write with balloc
Extend(f, n, v) ==
  /\ At(f, n) /\ Entry(f, n) = 0 /\ FreeBlks # {}
  /\ bbm_alloc(FirstZero)
  /\ SetBlkno(f, n, FirstZero)
  /\ Stored(f, n, FirstZero, v)

\* inode_write when vpage_copyin fails: a block that was allocated for it stays.
CopyinFails(f, n) ==
  /\ At(f, n)
  /\ \/ Entry(f, n) > 0 /\ UNCHANGED <<bitmap, dirblkno, indirtab, blkdata>>
     \/ /\ Entry(f, n) = 0 /\ FreeBlks # {}
        /\ bbm_alloc(FirstZero)
        /\ SetBlkno(f, n, FirstZero)
        /\ blkdata' = [blkdata EXCEPT ![FirstZero] = ZeroBlk]
  /\ Stops(f, n, EFAULT)

\* inode_write when balloc fails.  get_dir_blk and get_indir_blk compare its
\* result as an unsigned number and store it.
DiskFull(f, n) ==
  /\ At(f, n) /\ Entry(f, n) = 0 /\ FreeBlks = {}
  /\ SetBlkno(f, n, ENOSPC)
  /\ UNCHANGED <<bitmap, blkdata>>
  /\ Stops(f, n, ENOSPC)

\* inode_write on an entry that holds the error
StaleError(f, n) ==
  /\ At(f, n) /\ Entry(f, n) < 0
  /\ UNCHANGED <<bitmap, dirblkno, indirtab, blkdata>>
  /\ Stops(f, n, Entry(f, n))

\* inode_get gives the slot of f, to which nothing refers, to another inode; the
\* next inode_lock of f reads the table.
Reuse(f) ==
  /\ dirblkno' = [dirblkno EXCEPT ![f] = dinode[f].dirblkno]
  /\ filesize' = [filesize EXCEPT ![f] = dinode[f].size]
  /\ lost' = lost \cup ({dirblkno[f][i] : i \in Direct} \ ({dinode[f].dirblkno[i] : i \in Direct} \cup {0, ENOSPC}))
  /\ UNCHANGED <<bitmap, dinode, indirtab, blkdata, res>>
-----------------------------------------------------------------------------
\* The image mkfs wrote, with files that have no data yet
InodesInit ==
  /\ bitmap = Reserved
  /\ dirblkno = [f \in Files |-> [i \in Direct |-> 0]]
  /\ filesize = [f \in Files |-> 0]
  /\ dinode = [f \in Files |-> [dirblkno |-> [i \in Direct |-> 0], size |-> 0]]
  /\ indirtab = [b \in Reserved \cup {0} |-> [i \in Indirect |-> 0]]
  /\ blkdata = [b \in DataBlks |-> ZeroBlk]
  /\ res = 0 /\ lost = {}

Write(f) ==
  \E n \in 0..(MaxLen[f] - 1), v \in BlkVals : Overwrite(f, n, v) \/ Extend(f, n, v)

Fail(f) ==
  \E n \in 0..(MaxLen[f] - 1) : CopyinFails(f, n) \/ DiskFull(f, n) \/ StaleError(f, n)

InodesNext == \E f \in Files : Write(f) \/ Fail(f) \/ Reuse(f)

InodesSpec == InodesInit /\ [][InodesNext]_inodevars
-----------------------------------------------------------------------------
(* Properties.                                                             *)

\* The types of inodes and blocks
InodesTypeOK ==
  LET entry == DataBlks \cup {0, ENOSPC}
  IN  /\ bitmap \subseteq DataBlks /\ lost \subseteq DataBlks
      /\ dirblkno \in [Files -> [Direct -> entry]]
      /\ indirtab \in [Reserved \cup {0} -> [Indirect -> entry]]
      /\ filesize \in [Files -> Nat] /\ \A f \in Files : filesize[f] <= MaxLen[f]
      /\ dinode \in [Files -> [dirblkno : [Direct -> entry], size : Nat]]
      /\ blkdata \in [DataBlks -> BlkVals]
      /\ res \in {0, 1, ENOSPC, EFAULT}

\* The pairs of a file and an index that have a block
Places == {p \in UNION {{f} \X (0..(MaxLen[f] - 1)) : f \in Files} : Entry(p[1], p[2]) > 0}

\* No block is in two files or at two places of one, and none is an indirect
\* block.
BlocksAreOwned ==
  /\ \A p, q \in Places : Entry(p[1], p[2]) = Entry(q[1], q[2]) => p = q
  /\ \A p \in Places : Entry(p[1], p[2]) \notin Reserved

\* The bitmap has the blocks in use and those that were lost, and no others: no
\* block is free while a file has it.
BitmapIsUsage ==
  LET used == {Entry(p[1], p[2]) : p \in Places}
  IN  bitmap = used \cup Reserved \cup lost /\ lost \cap (used \cup Reserved) = {}

\* Every block below the size is there: inode_read allocates none.
SizeIsBacked == \A f \in Files : \A n \in 0..(filesize[f] - 1) : Entry(f, n) > 0

\* balloc is exact, also when a write fails half way and when the slot of its
\* inode is reused: the one leak is the block that a failing write left in a
\* slot without marking it dirty.
AllocationIsExact == InodesTypeOK /\ BlocksAreOwned /\ BitmapIsUsage /\ SizeIsBacked

\* What inode_read returns: it would allocate, and balloc zero, a missing block.
Shown(f, n) == IF Entry(f, n) > 0 THEN blkdata[Entry(f, n)] ELSE ZeroBlk

AbsFiles == INSTANCE AbstractFiles WITH
  content <- [f \in Files |-> [i \in 1..filesize[f] |-> Shown(f, i - 1)]],
  ok <- res >= 0,
  Vals <- BlkVals

\* What is written to a file is what is read from it, also after its slot of the
\* inode cache is reused; a write that reports an error has written nothing, and
\* a call on one file leaves the others alone.
ImplementsFiles == AbsFiles!Spec
=============================================================================
