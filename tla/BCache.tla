------------------------------- MODULE BCache -------------------------------
(***************************************************************************)
(* The block cache (core/fs/bcache.c): tasks that read, write and release  *)
(* blocks through a few buffers.  cache_lock is a spinlock that no handler *)
(* takes, so what it protects is one action; a buffer's mutex and the disk *)
(* make a task wait.                                                       *)
(***************************************************************************)
EXTENDS Integers, FiniteSets, Lists

CONSTANTS
  Callers,
  Bufs,     \* buf[0 .. NBUF-1]
  Blks,     \* block numbers
  Vals,     \* contents of a block
  NoCaller,
  NoBlk     \* UINT32_MAX

ASSUME BCacheAssumption ==
  /\ NoCaller \notin Callers /\ NoBlk \notin Blks
  /\ IsFiniteSet(Bufs) /\ IsFiniteSet(Callers)
  /\ Bufs # {} /\ Vals # {}

VARIABLES
  blkno, brefcnt, dirty, bvalid, data,  \* of each buffer
  owner,                                \* of its mutex
  buf_list,                             \* most recently released first
  disk,
  stmt, wanted, blk                     \* of each task: statement, argument, buffer

fields == <<blkno, brefcnt, dirty, bvalid, data>>
bcachevars == <<fields, owner, buf_list, disk, stmt, wanted, blk>>

Continue(t, s) == stmt' = [stmt EXCEPT ![t] = s]
-----------------------------------------------------------------------------
\* cache_request_locked
Cached(k) == {b \in Bufs : blkno[b] = k}

\* Faulty find_by_refcnt_cb_locked: a dirty buffer is reused
buf_find_clean_or_not(b) == brefcnt[b] = 0

\* Faulty find_by_refcnt_cb_locked: a buffer that is not locked is reused
buf_find_by_mutex(b) == owner[b] = NoCaller /\ ~dirty[b]

\* find_by_refcnt_cb_locked of bcache.c
buf_find_by_refcnt(b) == brefcnt[b] = 0 /\ ~dirty[b]

\* find_reusable_locked: the least recently released
ReusableBuf ==
  {b \in Bufs : /\ buf_find_by_refcnt(b)
                /\ \A i, j \in 1..Len(buf_list) :
                     buf_list[i] = b /\ j > i => ~buf_find_by_refcnt(buf_list[j])}

\* bcache_getblk, which panics when there is no buffer
bcache_getblk(t, k) ==
  /\ stmt[t] = "idle"
  /\ \E b \in (IF Cached(k) # {} THEN Cached(k) ELSE ReusableBuf) :
       /\ brefcnt' = [brefcnt EXCEPT ![b] = @ + 1]
       /\ blkno' = [blkno EXCEPT ![b] = k]
       /\ bvalid' = [bvalid EXCEPT ![b] = @ /\ blkno[b] = k]
       /\ blk' = [blk EXCEPT ![t] = b]
  /\ wanted' = [wanted EXCEPT ![t] = k]
  /\ Continue(t, "lock")
  /\ UNCHANGED <<dirty, data, owner, buf_list, disk>>

\* mutex_lock, and bcache_read looks whether the block is valid
mutex_lock(t) ==
  /\ stmt[t] = "lock" /\ owner[blk[t]] = NoCaller
  /\ owner' = [owner EXCEPT ![blk[t]] = t]
  /\ Continue(t, IF bvalid[blk[t]] THEN "held" ELSE "fetch")
  /\ UNCHANGED <<fields, buf_list, disk, wanted, blk>>

\* The read of bcache_read ends.
bcache_read(t) ==
  /\ stmt[t] = "fetch"
  /\ data' = [data EXCEPT ![blk[t]] = disk[wanted[t]]]
  /\ bvalid' = [bvalid EXCEPT ![blk[t]] = TRUE]
  /\ Continue(t, "held")
  /\ UNCHANGED <<blkno, brefcnt, dirty, owner, buf_list, disk, wanted, blk>>

\* Faulty caller: it does not call bcache_mark_dirty
write_unmarked(t, v) ==
  /\ stmt[t] = "held"
  /\ data' = [data EXCEPT ![blk[t]] = v]
  /\ UNCHANGED <<blkno, brefcnt, dirty, bvalid, owner, buf_list, disk, stmt, wanted, blk>>

\* The caller writes to the buffer and calls bcache_mark_dirty.
bcache_mark_dirty(t, v) ==
  /\ stmt[t] = "held"
  /\ data' = [data EXCEPT ![blk[t]] = v]
  /\ dirty' = [dirty EXCEPT ![blk[t]] = TRUE]
  /\ UNCHANGED <<blkno, brefcnt, bvalid, owner, buf_list, disk, stmt, wanted, blk>>

bcache_sync(t) ==
  /\ stmt[t] = "held" /\ dirty[blk[t]]
  /\ disk' = [disk EXCEPT ![blkno[blk[t]]] = data[blk[t]]]
  /\ dirty' = [dirty EXCEPT ![blk[t]] = FALSE]
  /\ UNCHANGED <<blkno, brefcnt, bvalid, data, owner, buf_list, stmt, wanted, blk>>

\* bcache_release: mutex_unlock ...
bcache_release(t) ==
  /\ stmt[t] = "held"
  /\ owner' = [owner EXCEPT ![blk[t]] = NoCaller]
  /\ Continue(t, "put")
  /\ UNCHANGED <<fields, buf_list, disk, wanted, blk>>

\* clist_remove and clist_push_front
BufToFront(b) == <<b>> \o Without(buf_list, b)

\* ... and what cache_lock protects
Put(t) ==
  /\ stmt[t] = "put"
  /\ brefcnt' = [brefcnt EXCEPT ![blk[t]] = @ - 1]
  /\ buf_list' = BufToFront(blk[t])
  /\ Continue(t, "idle")
  /\ UNCHANGED <<blkno, dirty, bvalid, data, owner, disk, wanted, blk>>

\* bcache_invalidate by bfree, whose callers hold the inode the block belongs
\* to: no task uses the block.
bcache_invalidate(k) ==
  \E b \in Cached(k) :
    /\ brefcnt[b] = 0
    /\ dirty' = [dirty EXCEPT ![b] = FALSE]
    /\ bvalid' = [bvalid EXCEPT ![b] = FALSE]
    /\ blkno' = [blkno EXCEPT ![b] = NoBlk]
    /\ UNCHANGED <<brefcnt, data, owner, buf_list, disk, stmt, wanted, blk>>
-----------------------------------------------------------------------------
\* bcache_init
BCacheInit ==
  /\ blkno = [b \in Bufs |-> NoBlk]
  /\ brefcnt = [b \in Bufs |-> 0]
  /\ dirty = [b \in Bufs |-> FALSE] /\ bvalid = [b \in Bufs |-> FALSE]
  /\ data = [b \in Bufs |-> CHOOSE v \in Vals : TRUE]
  /\ owner = [b \in Bufs |-> NoCaller]
  /\ buf_list = CHOOSE q \in [1..Cardinality(Bufs) -> Bufs] : IsInjective(q)
  /\ disk \in [Blks -> Vals]
  /\ stmt = [t \in Callers |-> "idle"]
  /\ wanted = [t \in Callers |-> NoBlk]
  /\ blk = [t \in Callers |-> CHOOSE b \in Bufs : TRUE]

Caller(t) ==
  \/ \E k \in Blks : bcache_getblk(t, k)
  \/ mutex_lock(t) \/ bcache_read(t) \/ bcache_release(t) \/ Put(t)
  \/ \E v \in Vals : bcache_mark_dirty(t, v)

BCacheNext ==
  \/ \E t \in Callers : Caller(t) \/ bcache_sync(t)
  \/ \E k \in Blks : bcache_invalidate(k)

BCacheSpec == BCacheInit /\ [][BCacheNext]_bcachevars
-----------------------------------------------------------------------------
(* Properties.                                                             *)

\* The types of the buffers and of the tasks; the list has every buffer once
BCacheTypeOK ==
  /\ blkno \in [Bufs -> Blks \cup {NoBlk}] /\ brefcnt \in [Bufs -> 0..Cardinality(Callers)]
  /\ dirty \in [Bufs -> BOOLEAN] /\ bvalid \in [Bufs -> BOOLEAN]
  /\ data \in [Bufs -> Vals] /\ disk \in [Blks -> Vals]
  /\ owner \in [Bufs -> Callers \cup {NoCaller}]
  /\ IsInjective(buf_list) /\ Range(buf_list) = Bufs
  /\ stmt \in [Callers -> {"idle", "lock", "fetch", "held", "put"}]
  /\ wanted \in [Callers -> Blks \cup {NoBlk}] /\ blk \in [Callers -> Bufs]

\* A block is in one buffer: two tasks never work on two copies of it.
OneBufferPerBlock ==
  \A b, c \in Bufs : blkno[b] = blkno[c] /\ blkno[b] # NoBlk => b = c

\* The buffer a task got stays the buffer of the block it asked for, across the
\* wait for the mutex and for the disk, until it is released.
BufferKeepsItsBlock == \A t \in Callers : stmt[t] # "idle" => blkno[blk[t]] = wanted[t]

\* Whoever holds a block works on the one copy of it that is in memory.
HoldersShareOneCopy == BCacheTypeOK /\ OneBufferPerBlock /\ BufferKeepsItsBlock

\* A valid buffer that is not marked dirty is what is on the disk, so reusing it
\* without a write loses nothing.
CleanIsOnDisk ==
  \A b \in Bufs : bvalid[b] /\ ~dirty[b] => data[b] = disk[blkno[b]]

\* The contents of block k for who reads it through the cache
Store(k) ==
  IF \E b \in Cached(k) : bvalid[b] THEN data[CHOOSE b \in Cached(k) : TRUE] ELSE disk[k]

\* The contents of a block change only as the holder of its buffer writes or as
\* the block is freed: reuse, fetch and sync of buffers lose and revive nothing.
ContentsAreStable ==
  [][\A k \in Blks : Store(k)' # Store(k) =>
       \/ bcache_invalidate(k)
       \/ \E t \in Callers, v \in Vals : wanted[t] = k /\ bcache_mark_dirty(t, v)]_bcachevars
=============================================================================
