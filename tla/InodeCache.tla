----------------------------- MODULE InodeCache -----------------------------
(***************************************************************************)
(* The inode cache (core/fs/inode.c): the slots inode_get and inode_put    *)
(* count references to, inode_lock and the inode table it reads, and the   *)
(* bitmap of inodes.  cache_lock is a spinlock that no handler takes, so   *)
(* what it protects is one action; a task waits for the mutex of a slot,   *)
(* and for the disk while it holds one.  What a task does to a slot        *)
(* between lock and unlock nobody else sees before the unlock, so the read *)
(* of the table is one action with the lock.  The operators here are parts *)
(* of the actions of module Files.                                         *)
(***************************************************************************)
EXTENDS Integers, FiniteSets, SequencesExt

CONSTANTS
  Tasks, Nobody,
  ISlots,            \* islots
  NoSlot,
  Inos,             \* 0 .. nb_inodes() - 1
  NoIno,            \* UINT32_MAX
  FS_ROOT_INODE_ID

ASSUME InodeCacheAssumption ==
  /\ IsFiniteSet(Tasks) /\ IsFiniteSet(ISlots) /\ IsFiniteSet(Inos)
  /\ Nobody \notin Tasks /\ NoSlot \notin ISlots /\ NoIno \notin Inos
  /\ Inos \subseteq Nat /\ FS_ROOT_INODE_ID \in Inos

VARIABLES
  ino, refcnt, valid, content,  \* of each slot
  m,                            \* the owner of its mutex
  icache,                       \* the list of slots
  itab,                         \* the inode table, as the block cache has it
  ibm                           \* the inodes whose bit is set

slot == <<ino, refcnt, valid, content>>
icacheVars == <<slot, m, icache, itab, ibm>>

Free == [type |-> "free", nblink |-> 0, size |-> 0]
-----------------------------------------------------------------------------
\* cache_request_locked
Hits(id) == {s \in ISlots : ino[s] = id}

find_by_refcnt_cb_locked(s) == refcnt[s] = 0

\* find_reusable_locked: the last of the list
Reusable ==
  {s \in ISlots : /\ find_by_refcnt_cb_locked(s)
                 /\ \A i, j \in 1..Len(icache) :
                      icache[i] = s /\ j > i => ~find_by_refcnt_cb_locked(icache[j])}

ToFront(l, s) == <<s>> \o SelectSeq(l, LAMBDA r : r # s)

\* inode_get, which panics when every slot is referenced.  The contents of a
\* slot that is not valid are not read: here they are Free.
inode_get(id, s) ==
  /\ s \in IF Hits(id) # {} THEN Hits(id) ELSE Reusable
  /\ refcnt' = [refcnt EXCEPT ![s] = IF ino[s] = id THEN @ + 1 ELSE 1]
  /\ ino' = [ino EXCEPT ![s] = id]
  /\ valid' = [valid EXCEPT ![s] = @ /\ ino[s] = id]
  /\ content' = [content EXCEPT ![s] = IF ino[s] = id THEN @ ELSE Free]
  /\ icache' = IF Hits(id) # {} THEN ToFront(icache, s) ELSE icache

\* inode_lock: mutex_lock and, of an inode that is not valid, its table entry
inode_lock(t, s) ==
  /\ m[s] = Nobody
  /\ m' = [m EXCEPT ![s] = t]
  /\ content' = [content EXCEPT ![s] = IF valid[s] THEN @ ELSE itab[ino[s]]]
  /\ valid' = [valid EXCEPT ![s] = TRUE]

\* inode_lock when the table cannot be read
inode_lock_fails(s) == m[s] = Nobody /\ ~valid[s]

inode_unlock(s) == m' = [m EXCEPT ![s] = Nobody]

\* mark_dirty_locked of a slot that is given the contents c
mark_dirty_locked(s, c) ==
  /\ content' = [content EXCEPT ![s] = c]
  /\ itab' = [itab EXCEPT ![ino[s]] = c]

FreeInos == Inos \ ibm

\* Faulty ibm_alloc: the bit is not set
ibm_alloc_unset(id) ==
  /\ id \in FreeInos /\ \A j \in FreeInos : id <= j
  /\ UNCHANGED ibm

\* ibm_alloc: the first zero bit
ibm_alloc(id) ==
  /\ id \in FreeInos /\ \A j \in FreeInos : id <= j
  /\ ibm' = ibm \cup {id}

ibm_free(id) == ibm' = ibm \ {id}

\* The part of inode_put under the mutex: an inode without a link is truncated
\* and freed.  Nothing in the kernel takes a link away.
inode_put_last(s) ==
  /\ m[s] = Nobody
  /\ LET gone == valid[s] /\ content[s].nblink = 0
         freed == [content[s] EXCEPT !.type = "free", !.size = 0]
     IN /\ IF gone THEN mark_dirty_locked(s, freed) /\ ibm_free(ino[s])
           ELSE UNCHANGED <<content, itab, ibm>>
        /\ valid' = [valid EXCEPT ![s] = @ /\ ~gone]

\* The end of inode_put
inode_put_drop(s) == refcnt' = [refcnt EXCEPT ![s] = @ - 1]
-----------------------------------------------------------------------------
\* inode_init, and set_root
InitCache ==
  LET r == CHOOSE s \in ISlots : TRUE IN
    /\ ino = [s \in ISlots |-> IF s = r THEN FS_ROOT_INODE_ID ELSE NoIno]
    /\ refcnt = [s \in ISlots |-> IF s = r THEN 1 ELSE 0]
    /\ valid = [s \in ISlots |-> s = r]
    /\ content = [s \in ISlots |-> IF s = r THEN itab[FS_ROOT_INODE_ID] ELSE Free]
    /\ m = [s \in ISlots |-> Nobody]
    /\ icache = Append(SetToSeq(ISlots \ {r}), r)

Contents == [type : {"free", "dir", "file", "device"}, nblink : 0..1, size : Nat]

\* The types of the slots, of their list and of the table
CacheTypeOK ==
  /\ ino \in [ISlots -> Inos \cup {NoIno}] /\ refcnt \in [ISlots -> Nat]
  /\ valid \in [ISlots -> BOOLEAN] /\ content \in [ISlots -> Contents]
  /\ m \in [ISlots -> Tasks \cup {Nobody}]
  /\ IsInjective(icache) /\ Range(icache) = ISlots
  /\ itab \in [Inos -> Contents] /\ ibm \subseteq Inos
=============================================================================
