--------------------------- MODULE BCacheProofs ----------------------------
(***************************************************************************)
(* The block cache for every number of tasks, of buffers and of blocks:    *)
(* holders of a block share one copy of it, a clean buffer is what is on   *)
(* the disk, and the contents of a block change only by a write.           *)
(***************************************************************************)
EXTENDS BCache, ListProofs, FiniteSetTheorems

\* The leaves that need arithmetic cite SMT.
USE ZenonT(20)

\* The tasks between the count and the discount of a buffer
Users(b) == {t \in Callers : stmt[t] # "idle" /\ blk[t] = b}

BufType ==
  /\ blkno \in [Bufs -> Blks \cup {NoBlk}] /\ brefcnt \in [Bufs -> Nat]
  /\ dirty \in [Bufs -> BOOLEAN] /\ bvalid \in [Bufs -> BOOLEAN]
  /\ data \in [Bufs -> Vals] /\ disk \in [Blks -> Vals]
  /\ owner \in [Bufs -> Callers \cup {NoCaller}]
  /\ stmt \in [Callers -> {"idle", "lock", "fetch", "held", "put"}]
  /\ wanted \in [Callers -> Blks \cup {NoBlk}] /\ blk \in [Callers -> Bufs]

ListOfBufs == buf_list \in Seq(Bufs) /\ IsInjective(buf_list) /\ Range(buf_list) = Bufs

RefcntCounts == \A b \in Bufs : brefcnt[b] = Cardinality(Users(b))

\* The mutex of a buffer orders its fetch before every use of it.
MutexOrders ==
  \A t \in Callers :
    /\ stmt[t] # "idle" => wanted[t] \in Blks
    /\ stmt[t] \in {"fetch", "held"} => owner[blk[t]] = t
    /\ stmt[t] = "fetch" => ~bvalid[blk[t]]
    /\ stmt[t] = "held" => bvalid[blk[t]]

ValidHasBlock == \A b \in Bufs : bvalid[b] => blkno[b] \in Blks

\* Strengthens HoldersShareOneCopy and CleanIsOnDisk: a buffer that is counted
\* by nobody has no user, which is why it can be given to another block.
BCacheInv ==
  /\ BufType /\ ListOfBufs /\ RefcntCounts /\ MutexOrders /\ ValidHasBlock
  /\ OneBufferPerBlock /\ BufferKeepsItsBlock /\ CleanIsOnDisk
-----------------------------------------------------------------------------
\* bcache_init links every buffer once.
LEMMA InitialList ==
  ASSUME NEW S, IsFiniteSet(S)
  PROVE  LET q == CHOOSE q \in [1..Cardinality(S) -> S] : IsInjective(q)
         IN  q \in Seq(S) /\ IsInjective(q) /\ Range(q) = S
  <1> DEFINE n == Cardinality(S)
             q == CHOOSE f \in [1..n -> S] : IsInjective(f)
  <1>1. n \in Nat /\ Bijection(1..n, S) # {}
    BY FS_CardinalityType DEF ExistsBijection
  <1> HIDE DEF n
  <1>2. \E f \in [1..n -> S] : IsInjective(f)
    BY <1>1 DEF Bijection, Injection
  <1>3. q \in [1..n -> S] /\ IsInjective(q)
    BY <1>2
  <1> HIDE DEF q
  <1>4. q \in Injection(1..n, S)
    BY <1>3 DEF Injection
  <1>5. IsFiniteSet(1..n) /\ Cardinality(1..n) = n
    BY <1>1, FS_Interval, SMTT(30)
  <1>6. q \in Surjection(1..n, S)
    BY <1>4, <1>5, FS_Injection DEF n
  <1>7. Range(q) = S
    BY <1>3, <1>6 DEF Surjection, Range
  <1>8. q \in Seq(S)
    BY <1>1, <1>3, SMTT(30)
  <1> QED BY <1>3, <1>7, <1>8 DEF q, n

\* The set of the users of a buffer is finite, and empty when its count is 0.
LEMMA UsersFinite ==
  ASSUME BufType, NEW b \in Bufs
  PROVE  /\ IsFiniteSet(Users(b)) /\ Cardinality(Users(b)) \in Nat
         /\ Cardinality(Users(b)) <= Cardinality(Callers)
         /\ Cardinality(Users(b)) = 0 => Users(b) = {}
  <1>1. Users(b) \in SUBSET Callers
    BY DEF Users
  <1> QED BY <1>1, BCacheAssumption, FS_Subset, FS_CardinalityType, FS_EmptySet

\* A buffer whose count is 0 is the buffer of no task (find_reusable_locked and
\* bcache_invalidate rely on it).
LEMMA NoUser ==
  ASSUME BufType, RefcntCounts, NEW b \in Bufs, brefcnt[b] = 0, NEW t \in Callers,
         stmt[t] # "idle"
  PROVE  blk[t] # b
  BY UsersFinite DEF RefcntCounts, Users

\* bcache_getblk counts the task that calls it.
LEMMA GetCounts ==
  ASSUME BCacheInv, NEW t \in Callers, NEW k \in Blks, bcache_getblk(t, k)
  PROVE  RefcntCounts'
  <1> USE DEF BCacheInv
  <1>1. PICK b \in Bufs :
          /\ brefcnt' = [brefcnt EXCEPT ![b] = @ + 1]
          /\ blk' = [blk EXCEPT ![t] = b]
    BY DEF bcache_getblk, Cached, ReusableBuf
  <1>2. stmt[t] = "idle" /\ stmt' = [stmt EXCEPT ![t] = "lock"]
    BY DEF bcache_getblk, Continue
  <1>3. Users(b)' = Users(b) \cup {t} /\ t \notin Users(b)
    BY <1>1, <1>2 DEF Users, BufType
  <1>4. \A c \in Bufs \ {b} : Users(c)' = Users(c)
    BY <1>1, <1>2 DEF Users, BufType
  <1>5. Cardinality(Users(b)') = Cardinality(Users(b)) + 1
    <2>1. IsFiniteSet(Users(b))
      BY UsersFinite
    <2>2. Cardinality(Users(b) \cup {t}) = Cardinality(Users(b)) + 1
      BY <1>3, <2>1, FS_AddElement
    <2> QED BY <1>3, <2>2
  <1>6. brefcnt'[b] = brefcnt[b] + 1 /\ \A c \in Bufs \ {b} : brefcnt'[c] = brefcnt[c]
    BY <1>1 DEF BufType
  <1>7. ASSUME NEW c \in Bufs PROVE brefcnt'[c] = Cardinality(Users(c)')
    BY <1>4, <1>5, <1>6 DEF RefcntCounts
  <1> QED BY <1>7 DEF RefcntCounts

\* bcache_release discounts it, so a count never goes below 0.
LEMMA PutCounts ==
  ASSUME BCacheInv, NEW t \in Callers, Put(t)
  PROVE  RefcntCounts' /\ brefcnt[blk[t]] >= 1
  <1> USE DEF BCacheInv
  <1>0. PICK b \in Bufs : b = blk[t]
    BY DEF BufType
  <1>1. /\ stmt[t] = "put" /\ stmt' = [stmt EXCEPT ![t] = "idle"]
        /\ brefcnt' = [brefcnt EXCEPT ![b] = @ - 1] /\ blk' = blk
    BY <1>0 DEF Put, Continue
  <1>2. Users(b)' = Users(b) \ {t} /\ t \in Users(b)
    BY <1>0, <1>1 DEF Users, BufType
  <1>3. \A c \in Bufs \ {b} : Users(c)' = Users(c)
    BY <1>0, <1>1 DEF Users, BufType
  <1>4. Cardinality(Users(b)') = Cardinality(Users(b)) - 1 /\ Cardinality(Users(b)) # 0
    BY <1>1, <1>2, UsersFinite, FS_RemoveElement
  <1>5. brefcnt'[b] = brefcnt[b] - 1 /\ \A c \in Bufs \ {b} : brefcnt'[c] = brefcnt[c]
    BY <1>1 DEF BufType
  <1>6. ASSUME NEW c \in Bufs PROVE brefcnt'[c] = Cardinality(Users(c)')
    <2>1. CASE c = b
      BY <1>1, <1>4, <1>5, <2>1 DEF RefcntCounts
    <2>2. CASE c # b
      <3>1. Users(c)' = Users(c) /\ brefcnt'[c] = brefcnt[c]
        BY <1>3, <1>5, <2>2
      <3> QED BY <3>1 DEF RefcntCounts
    <2> QED BY <2>1, <2>2
  <1>7. brefcnt[b] \in Nat /\ brefcnt[b] # 0
    BY <1>1, <1>4 DEF RefcntCounts, BufType
  <1> QED BY <1>0, <1>6, <1>7, SMTT(30) DEF RefcntCounts

\* bcache_release moves the buffer to the front: the list still has each once.
LEMMA PutLists ==
  ASSUME BCacheInv, NEW t \in Callers, Put(t)
  PROVE  ListOfBufs'
  <1> DEFINE b == blk[t]
             w == Without(buf_list, b)
             q == <<b>> \o w
  <1>1. b \in Bufs /\ buf_list' = q
    BY DEF BCacheInv, BufType, Put, BufToFront
  <1>2. w \in Seq(Bufs) /\ Range(w) = Bufs \ {b} /\ IsInjective(w)
    BY WithoutRange DEF BCacheInv, ListOfBufs
  <1>3. <<b>> \in Seq(Bufs) /\ Len(<<b>>) = 1 /\ <<b>>[1] = b
    BY <1>1, SMTT(30)
  <1> HIDE DEF b, w
  <1>4. /\ q \in Seq(Bufs) /\ Len(q) = 1 + Len(w) /\ q[1] = b
        /\ \A i \in 1..Len(w) : q[1 + i] = w[i]
    BY <1>2, <1>3, ConcatIndex, SMTT(30)
  <1>5. Range(w) = {w[i] : i \in 1..Len(w)} /\ Len(w) \in Nat
    BY <1>2, RangeOf, SMTT(30)
  <1> HIDE DEF q
  <1>6. \A i \in 1..Len(q) : i = 1 \/ (i - 1 \in 1..Len(w) /\ q[i] = w[i - 1])
    <2>1. ASSUME NEW i \in 1..Len(q), i # 1 PROVE i - 1 \in 1..Len(w) /\ i = 1 + (i - 1)
      BY <1>4, <1>5, <2>1, SMTT(30)
    <2> QED BY <1>4, <2>1
  <1>7. Range(q) = Bufs
    <2>1. Range(q) = {q[i] : i \in 1..Len(q)}
      BY <1>4, RangeOf
    <2>2. \A i \in 1..Len(w) : 1 + i \in 1..Len(q)
      BY <1>4, <1>5, SMTT(30)
    <2>3. 1 \in 1..Len(q)
      BY <1>4, <1>5, SMTT(30)
    <2> QED BY <1>1, <1>2, <1>4, <1>5, <1>6, <2>1, <2>2, <2>3, SMTT(30)
  <1>8. IsInjective(q)
    <2>1. DOMAIN q = 1..Len(q) /\ DOMAIN w = 1..Len(w)
      BY <1>2, <1>4, SMTT(30)
    <2>2. \A i \in 1..Len(w) : w[i] # b
      BY <1>2, <1>5
    <2>3. \A i, j \in 1..Len(w) : w[i] = w[j] => i = j
      BY <1>2, <2>1 DEF IsInjective
    <2>4. ASSUME NEW i \in 1..Len(q), NEW j \in 1..Len(q), q[i] = q[j] PROVE i = j
      <3>1. CASE i = 1 \/ j = 1
        BY <1>4, <1>6, <2>2, <2>4, <3>1
      <3>2. CASE i # 1 /\ j # 1
        <4>1. /\ i - 1 \in 1..Len(w) /\ j - 1 \in 1..Len(w)
              /\ w[i - 1] = w[j - 1]
          BY <1>6, <2>4, <3>2
        <4>2. i - 1 = j - 1
          BY <2>3, <4>1
        <4> QED BY <4>2, SMTT(30)
      <3> QED BY <3>1, <3>2
    <2> QED BY <2>1, <2>4 DEF IsInjective
  <1> QED BY <1>1, <1>4, <1>7, <1>8 DEF ListOfBufs
-----------------------------------------------------------------------------
\* A step that counts nobody and moves no buffer keeps the counts and the list.
LEMMA SameUsers ==
  ASSUME BCacheInv, stmt' \in [Callers -> {"idle", "lock", "fetch", "held", "put"}],
         UNCHANGED <<brefcnt, buf_list, blk>>,
         \A t \in Callers : stmt'[t] = "idle" <=> stmt[t] = "idle"
  PROVE  RefcntCounts' /\ ListOfBufs'
  <1>1. \A b \in Bufs : Users(b)' = Users(b)
    BY DEF Users, BCacheInv, BufType
  <1>2. ListOfBufs'
    BY DEF BCacheInv, ListOfBufs
  <1>3. ASSUME NEW b \in Bufs PROVE brefcnt'[b] = Cardinality(Users(b)')
    BY <1>1 DEF BCacheInv, RefcntCounts
  <1> QED BY <1>2, <1>3 DEF RefcntCounts

\* bcache_getblk: a buffer of another block is taken only when nobody uses it.
LEMMA GetKeeps ==
  ASSUME BCacheInv, NEW t \in Callers, NEW k \in Blks, bcache_getblk(t, k)
  PROVE  BCacheInv'
  <1> USE DEF BCacheInv
  <1>1. PICK b \in Bufs :
          /\ b \in (IF Cached(k) # {} THEN Cached(k) ELSE ReusableBuf)
          /\ brefcnt' = [brefcnt EXCEPT ![b] = @ + 1]
          /\ blkno' = [blkno EXCEPT ![b] = k]
          /\ bvalid' = [bvalid EXCEPT ![b] = @ /\ blkno[b] = k]
          /\ blk' = [blk EXCEPT ![t] = b]
    BY DEF bcache_getblk, Cached, ReusableBuf
  <1>2. /\ stmt[t] = "idle" /\ stmt' = [stmt EXCEPT ![t] = "lock"]
        /\ wanted' = [wanted EXCEPT ![t] = k]
        /\ UNCHANGED <<dirty, data, owner, buf_list, disk>>
    BY DEF bcache_getblk, Continue
  <1>3. \/ blkno[b] = k
        \/ /\ \A c \in Bufs : blkno[c] # k
           /\ brefcnt[b] = 0 /\ ~dirty[b]
    BY <1>1 DEF Cached, ReusableBuf, buf_find_by_refcnt
  <1>4. ASSUME NEW u \in Callers, stmt[u] # "idle"
        PROVE  blk'[u] = blk[u] /\ blkno'[blk[u]] = blkno[blk[u]]
               /\ bvalid'[blk[u]] = bvalid[blk[u]]
    <2>1. u # t /\ blk[u] \in Bufs
      BY <1>2, <1>4 DEF BufType
    <2>2. blk[u] # b \/ blkno[b] = k
      BY <1>3, <1>4, NoUser
    <2> QED BY <1>1, <2>1, <2>2 DEF BufType
  <1>5. BufType'
    BY <1>1, <1>2, SMTT(30) DEF BufType
  <1>6. ListOfBufs'
    BY <1>2 DEF ListOfBufs
  <1>7. MutexOrders'
    <2>1. ASSUME NEW u \in Callers
          PROVE  /\ stmt'[u] # "idle" => wanted'[u] \in Blks
                 /\ stmt'[u] \in {"fetch", "held"} => owner'[blk'[u]] = u
                 /\ stmt'[u] = "fetch" => ~bvalid'[blk'[u]]
                 /\ stmt'[u] = "held" => bvalid'[blk'[u]]
      <3>1. CASE u = t
        BY <1>2, <3>1 DEF BufType
      <3>2. CASE u # t
        <4>1. stmt'[u] = stmt[u] /\ wanted'[u] = wanted[u] /\ owner' = owner
          BY <1>2, <3>2 DEF BufType
        <4> QED BY <1>4, <4>1 DEF MutexOrders
      <3> QED BY <3>1, <3>2
    <2> QED BY <2>1 DEF MutexOrders
  <1>8. ValidHasBlock'
    BY <1>1 DEF ValidHasBlock, BufType
  <1>9. OneBufferPerBlock'
    <2>1. ASSUME NEW c \in Bufs PROVE blkno'[c] = k => c = b
      BY <1>1, <1>3, BCacheAssumption DEF OneBufferPerBlock, BufType
    <2>2. blkno'[b] = k /\ \A c \in Bufs : c # b => blkno'[c] = blkno[c]
      BY <1>1 DEF BufType
    <2> QED BY <2>1, <2>2 DEF OneBufferPerBlock
  <1>10. BufferKeepsItsBlock'
    <2>1. ASSUME NEW u \in Callers, stmt'[u] # "idle" PROVE blkno'[blk'[u]] = wanted'[u]
      <3>1. CASE u = t
        BY <1>1, <1>2, <3>1 DEF BufType
      <3>2. CASE u # t
        <4>1. stmt'[u] = stmt[u] /\ wanted'[u] = wanted[u]
          BY <1>2, <3>2 DEF BufType
        <4> QED BY <1>4, <2>1, <4>1 DEF BufferKeepsItsBlock
      <3> QED BY <3>1, <3>2
    <2> QED BY <2>1 DEF BufferKeepsItsBlock
  <1>11. CleanIsOnDisk'
    <2>1. ASSUME NEW c \in Bufs, bvalid'[c], ~dirty'[c] PROVE data'[c] = disk'[blkno'[c]]
      <3>1. bvalid[c] /\ blkno'[c] = blkno[c]
        BY <1>1, <2>1 DEF BufType
      <3> QED BY <1>2, <2>1, <3>1 DEF CleanIsOnDisk
    <2> QED BY <2>1 DEF CleanIsOnDisk
  <1>12. RefcntCounts'
    BY GetCounts
  <1> QED BY <1>5, <1>6, <1>7, <1>8, <1>9, <1>10, <1>11, <1>12

\* mutex_lock: the mutex was free, so nobody else fetches or holds the buffer.
LEMMA LockKeeps ==
  ASSUME BCacheInv, NEW t \in Callers, mutex_lock(t)
  PROVE  BCacheInv'
  <1> USE DEF BCacheInv
  <1>1. /\ stmt[t] = "lock" /\ owner[blk[t]] = NoCaller
        /\ owner' = [owner EXCEPT ![blk[t]] = t]
        /\ stmt' = [stmt EXCEPT ![t] = IF bvalid[blk[t]] THEN "held" ELSE "fetch"]
        /\ blkno' = blkno /\ brefcnt' = brefcnt /\ dirty' = dirty /\ bvalid' = bvalid
        /\ data' = data /\ buf_list' = buf_list /\ disk' = disk /\ wanted' = wanted
        /\ blk' = blk
    BY DEF mutex_lock, Continue, fields
  <1>2. BufType'
    BY <1>1 DEF BufType
  <1>3. RefcntCounts' /\ ListOfBufs'
    <2>1. \A u \in Callers : stmt'[u] = "idle" <=> stmt[u] = "idle"
      BY <1>1 DEF BufType
    <2> QED BY <1>1, <1>2, <2>1, SameUsers DEF BufType
  <1>4. MutexOrders'
    <2>1. ASSUME NEW u \in Callers
          PROVE  /\ stmt'[u] # "idle" => wanted'[u] \in Blks
                 /\ stmt'[u] \in {"fetch", "held"} => owner'[blk'[u]] = u
                 /\ stmt'[u] = "fetch" => ~bvalid'[blk'[u]]
                 /\ stmt'[u] = "held" => bvalid'[blk'[u]]
      <3>1. CASE u = t
        BY <1>1, <3>1 DEF BufType, MutexOrders
      <3>2. CASE u # t
        <4>1. stmt'[u] = stmt[u] /\ u # NoCaller
          BY <1>1, <3>2, BCacheAssumption DEF BufType
        <4>2. stmt[u] \in {"fetch", "held"} => blk[u] # blk[t]
          BY <1>1, <4>1 DEF MutexOrders
        <4> QED BY <1>1, <4>1, <4>2 DEF MutexOrders, BufType
      <3> QED BY <3>1, <3>2
    <2> QED BY <2>1 DEF MutexOrders
  <1>5. ValidHasBlock' /\ OneBufferPerBlock' /\ CleanIsOnDisk'
    BY <1>1 DEF ValidHasBlock, OneBufferPerBlock, CleanIsOnDisk
  <1>6. BufferKeepsItsBlock'
    BY <1>1 DEF BufferKeepsItsBlock, BufType
  <1> QED BY <1>2, <1>3, <1>4, <1>5, <1>6

\* bcache_read: the task that fetches owns the mutex, so nobody else uses what is
\* in the buffer yet.
LEMMA ReadKeeps ==
  ASSUME BCacheInv, NEW t \in Callers, bcache_read(t)
  PROVE  BCacheInv'
  <1> USE DEF BCacheInv
  <1>1. /\ stmt[t] = "fetch" /\ stmt' = [stmt EXCEPT ![t] = "held"]
        /\ data' = [data EXCEPT ![blk[t]] = disk[wanted[t]]]
        /\ bvalid' = [bvalid EXCEPT ![blk[t]] = TRUE]
        /\ UNCHANGED <<blkno, brefcnt, dirty, owner, buf_list, disk, wanted, blk>>
    BY DEF bcache_read, Continue
  <1>2. wanted[t] \in Blks /\ blkno[blk[t]] = wanted[t] /\ blk[t] \in Bufs
    BY <1>1 DEF MutexOrders, BufferKeepsItsBlock, BufType
  <1>3. BufType'
    BY <1>1, <1>2 DEF BufType
  <1>4. RefcntCounts' /\ ListOfBufs'
    <2>1. \A u \in Callers : stmt'[u] = "idle" <=> stmt[u] = "idle"
      BY <1>1 DEF BufType
    <2> QED BY <1>1, <1>3, <2>1, SameUsers DEF BufType
  <1>5. MutexOrders'
    <2>1. ASSUME NEW u \in Callers
          PROVE  /\ stmt'[u] # "idle" => wanted'[u] \in Blks
                 /\ stmt'[u] \in {"fetch", "held"} => owner'[blk'[u]] = u
                 /\ stmt'[u] = "fetch" => ~bvalid'[blk'[u]]
                 /\ stmt'[u] = "held" => bvalid'[blk'[u]]
      <3>1. CASE u = t
        BY <1>1, <1>2, <3>1 DEF BufType, MutexOrders
      <3>2. CASE u # t
        <4>1. stmt'[u] = stmt[u]
          BY <1>1, <3>2 DEF BufType
        <4>2. stmt[u] \in {"fetch", "held"} => blk[u] # blk[t]
          BY <1>1, <3>2 DEF MutexOrders
        <4> QED BY <1>1, <4>1, <4>2 DEF MutexOrders, BufType
      <3> QED BY <3>1, <3>2
    <2> QED BY <2>1 DEF MutexOrders
  <1>6. ValidHasBlock'
    BY <1>1, <1>2 DEF ValidHasBlock, BufType
  <1>7. OneBufferPerBlock'
    BY <1>1 DEF OneBufferPerBlock
  <1>8. BufferKeepsItsBlock'
    BY <1>1 DEF BufferKeepsItsBlock, BufType
  <1>9. CleanIsOnDisk'
    BY <1>1, <1>2 DEF CleanIsOnDisk, BufType
  <1> QED BY <1>3, <1>4, <1>5, <1>6, <1>7, <1>8, <1>9

\* bcache_mark_dirty: the written buffer is dirty.
LEMMA MarkKeeps ==
  ASSUME BCacheInv, NEW t \in Callers, NEW v \in Vals, bcache_mark_dirty(t, v)
  PROVE  BCacheInv'
  <1> USE DEF BCacheInv
  <1>1. /\ data' = [data EXCEPT ![blk[t]] = v]
        /\ dirty' = [dirty EXCEPT ![blk[t]] = TRUE]
        /\ UNCHANGED <<blkno, brefcnt, bvalid, owner, buf_list, disk, stmt, wanted, blk>>
    BY DEF bcache_mark_dirty
  <1>2. BufType'
    BY <1>1 DEF BufType
  <1>3. RefcntCounts' /\ ListOfBufs'
    BY <1>1, <1>2, SameUsers DEF BufType
  <1>4. MutexOrders' /\ ValidHasBlock' /\ OneBufferPerBlock' /\ BufferKeepsItsBlock'
    BY <1>1 DEF MutexOrders, ValidHasBlock, OneBufferPerBlock, BufferKeepsItsBlock
  <1>5. CleanIsOnDisk'
    BY <1>1 DEF CleanIsOnDisk, BufType
  <1> QED BY <1>2, <1>3, <1>4, <1>5

\* bcache_sync: no other buffer has the block that is written to the disk.
LEMMA SyncKeeps ==
  ASSUME BCacheInv, NEW t \in Callers, bcache_sync(t)
  PROVE  BCacheInv'
  <1> USE DEF BCacheInv
  <1>1. /\ stmt[t] = "held"
        /\ disk' = [disk EXCEPT ![blkno[blk[t]]] = data[blk[t]]]
        /\ dirty' = [dirty EXCEPT ![blk[t]] = FALSE]
        /\ UNCHANGED <<blkno, brefcnt, bvalid, data, owner, buf_list, stmt, wanted, blk>>
    BY DEF bcache_sync
  <1>2. blkno[blk[t]] \in Blks /\ blk[t] \in Bufs
    BY <1>1 DEF MutexOrders, BufferKeepsItsBlock, BufType
  <1>3. BufType'
    BY <1>1, <1>2 DEF BufType
  <1>4. RefcntCounts' /\ ListOfBufs'
    BY <1>1, <1>3, SameUsers DEF BufType
  <1>5. MutexOrders' /\ ValidHasBlock' /\ OneBufferPerBlock' /\ BufferKeepsItsBlock'
    BY <1>1 DEF MutexOrders, ValidHasBlock, OneBufferPerBlock, BufferKeepsItsBlock
  <1>6. CleanIsOnDisk'
    <2>1. ASSUME NEW c \in Bufs, bvalid'[c], ~dirty'[c] PROVE data'[c] = disk'[blkno'[c]]
      <3>1. CASE c = blk[t]
        BY <1>1, <1>2, <3>1 DEF BufType
      <3>2. CASE c # blk[t]
        <4>1. blkno[c] # blkno[blk[t]] /\ blkno[c] \in Blks
          BY <1>1, <1>2, <2>1, <3>2, BCacheAssumption DEF OneBufferPerBlock, ValidHasBlock
        <4> QED BY <1>1, <1>2, <2>1, <3>2, <4>1 DEF CleanIsOnDisk, BufType
      <3> QED BY <3>1, <3>2
    <2> QED BY <2>1 DEF CleanIsOnDisk
  <1> QED BY <1>3, <1>4, <1>5, <1>6

\* mutex_unlock of bcache_release
LEMMA ReleaseKeeps ==
  ASSUME BCacheInv, NEW t \in Callers, bcache_release(t)
  PROVE  BCacheInv'
  <1> USE DEF BCacheInv
  <1>1. /\ stmt[t] = "held" /\ stmt' = [stmt EXCEPT ![t] = "put"]
        /\ owner' = [owner EXCEPT ![blk[t]] = NoCaller]
        /\ blkno' = blkno /\ brefcnt' = brefcnt /\ dirty' = dirty /\ bvalid' = bvalid
        /\ data' = data /\ buf_list' = buf_list /\ disk' = disk /\ wanted' = wanted
        /\ blk' = blk
    BY DEF bcache_release, Continue, fields
  <1>2. BufType'
    BY <1>1 DEF BufType
  <1>3. RefcntCounts' /\ ListOfBufs'
    <2>1. \A u \in Callers : stmt'[u] = "idle" <=> stmt[u] = "idle"
      BY <1>1 DEF BufType
    <2> QED BY <1>1, <1>2, <2>1, SameUsers DEF BufType
  <1>4. MutexOrders'
    <2>1. ASSUME NEW u \in Callers
          PROVE  /\ stmt'[u] # "idle" => wanted'[u] \in Blks
                 /\ stmt'[u] \in {"fetch", "held"} => owner'[blk'[u]] = u
                 /\ stmt'[u] = "fetch" => ~bvalid'[blk'[u]]
                 /\ stmt'[u] = "held" => bvalid'[blk'[u]]
      <3>1. CASE u = t
        BY <1>1, <3>1 DEF BufType, MutexOrders
      <3>2. CASE u # t
        <4>1. stmt'[u] = stmt[u]
          BY <1>1, <3>2 DEF BufType
        <4>2. stmt[u] \in {"fetch", "held"} => blk[u] # blk[t]
          BY <1>1, <3>2 DEF MutexOrders
        <4> QED BY <1>1, <4>1, <4>2 DEF MutexOrders, BufType
      <3> QED BY <3>1, <3>2
    <2> QED BY <2>1 DEF MutexOrders
  <1>5. ValidHasBlock' /\ OneBufferPerBlock' /\ CleanIsOnDisk'
    BY <1>1 DEF ValidHasBlock, OneBufferPerBlock, CleanIsOnDisk
  <1>6. BufferKeepsItsBlock'
    BY <1>1 DEF BufferKeepsItsBlock, BufType
  <1> QED BY <1>2, <1>3, <1>4, <1>5, <1>6

\* The end of bcache_release
LEMMA PutKeeps ==
  ASSUME BCacheInv, NEW t \in Callers, Put(t)
  PROVE  BCacheInv'
  <1> USE DEF BCacheInv
  <1>1. /\ stmt[t] = "put" /\ stmt' = [stmt EXCEPT ![t] = "idle"]
        /\ brefcnt' = [brefcnt EXCEPT ![blk[t]] = @ - 1]
        /\ UNCHANGED <<blkno, dirty, bvalid, data, owner, disk, wanted, blk>>
    BY DEF Put, Continue
  <1>2. RefcntCounts' /\ brefcnt[blk[t]] >= 1 /\ ListOfBufs'
    BY PutCounts, PutLists
  <1>3. BufType'
    BY <1>1, <1>2, SMTT(30) DEF BufType
  <1>4. MutexOrders' /\ BufferKeepsItsBlock'
    BY <1>1 DEF MutexOrders, BufferKeepsItsBlock, BufType
  <1>5. ValidHasBlock' /\ OneBufferPerBlock' /\ CleanIsOnDisk'
    BY <1>1 DEF ValidHasBlock, OneBufferPerBlock, CleanIsOnDisk
  <1> QED BY <1>2, <1>3, <1>4, <1>5

\* bcache_invalidate: the buffer has no user.
LEMMA InvalidateKeeps ==
  ASSUME BCacheInv, NEW k \in Blks, bcache_invalidate(k)
  PROVE  BCacheInv'
  <1> USE DEF BCacheInv
  <1>1. PICK b \in Bufs :
          /\ brefcnt[b] = 0
          /\ dirty' = [dirty EXCEPT ![b] = FALSE]
          /\ bvalid' = [bvalid EXCEPT ![b] = FALSE]
          /\ blkno' = [blkno EXCEPT ![b] = NoBlk]
          /\ UNCHANGED <<brefcnt, data, owner, buf_list, disk, stmt, wanted, blk>>
    BY DEF bcache_invalidate, Cached
  <1>2. \A u \in Callers : stmt[u] # "idle" => blk[u] # b
    BY <1>1, NoUser
  <1>3. BufType'
    BY <1>1 DEF BufType
  <1>4. RefcntCounts' /\ ListOfBufs'
    BY <1>1, <1>3, SameUsers DEF BufType
  <1>5. MutexOrders'
    BY <1>1, <1>2 DEF MutexOrders, BufType
  <1>6. BufferKeepsItsBlock'
    BY <1>1, <1>2 DEF BufferKeepsItsBlock, BufType
  <1>7. ValidHasBlock' /\ OneBufferPerBlock'
    BY <1>1 DEF ValidHasBlock, OneBufferPerBlock, BufType
  <1>8. CleanIsOnDisk'
    BY <1>1 DEF CleanIsOnDisk, BufType
  <1> QED BY <1>3, <1>4, <1>5, <1>6, <1>7, <1>8
-----------------------------------------------------------------------------
\* bcache_init establishes the invariant.
LEMMA BCacheInitKeeps == BCacheInit => BCacheInv
  <1> SUFFICES ASSUME BCacheInit PROVE BCacheInv
    OBVIOUS
  <1>1. BufType
    BY BCacheAssumption DEF BCacheInit, BufType
  <1>2. ListOfBufs
    BY BCacheAssumption, InitialList DEF BCacheInit, ListOfBufs
  <1>3. RefcntCounts
    <2>1. \A b \in Bufs : Users(b) = {}
      BY DEF BCacheInit, Users
    <2> QED BY <2>1, FS_EmptySet DEF RefcntCounts, BCacheInit
  <1>4. /\ MutexOrders /\ ValidHasBlock /\ OneBufferPerBlock /\ BufferKeepsItsBlock
        /\ CleanIsOnDisk
    BY DEF BCacheInit, MutexOrders, ValidHasBlock, OneBufferPerBlock, BufferKeepsItsBlock,
           CleanIsOnDisk
  <1> QED BY <1>1, <1>2, <1>3, <1>4 DEF BCacheInv

\* Every operation of the cache keeps the invariant.
LEMMA BCacheStep == BCacheInv /\ [BCacheNext]_bcachevars => BCacheInv'
  <1> SUFFICES ASSUME BCacheInv, [BCacheNext]_bcachevars PROVE BCacheInv'
    OBVIOUS
  <1>1. ASSUME NEW t \in Callers, NEW k \in Blks, bcache_getblk(t, k) PROVE BCacheInv'
    BY <1>1, GetKeeps
  <1>2. ASSUME NEW t \in Callers, mutex_lock(t) PROVE BCacheInv'
    BY <1>2, LockKeeps
  <1>3. ASSUME NEW t \in Callers, bcache_read(t) PROVE BCacheInv'
    BY <1>3, ReadKeeps
  <1>4. ASSUME NEW t \in Callers, NEW v \in Vals, bcache_mark_dirty(t, v) PROVE BCacheInv'
    BY <1>4, MarkKeeps
  <1>5. ASSUME NEW t \in Callers, bcache_sync(t) PROVE BCacheInv'
    BY <1>5, SyncKeeps
  <1>6. ASSUME NEW t \in Callers, bcache_release(t) PROVE BCacheInv'
    BY <1>6, ReleaseKeeps
  <1>7. ASSUME NEW t \in Callers, Put(t) PROVE BCacheInv'
    BY <1>7, PutKeeps
  <1>8. ASSUME NEW k \in Blks, bcache_invalidate(k) PROVE BCacheInv'
    BY <1>8, InvalidateKeeps
  <1>9. CASE UNCHANGED bcachevars
    <2> USE DEF BCacheInv
    <2>1. /\ UNCHANGED <<blkno, brefcnt, dirty, bvalid, data>>
          /\ UNCHANGED <<owner, buf_list, disk, stmt, wanted, blk>>
      BY <1>9 DEF bcachevars, fields
    <2>2. BufType'
      BY <2>1 DEF BufType
    <2>3. RefcntCounts' /\ ListOfBufs'
      BY <2>1, <2>2, SameUsers DEF BufType
    <2>4. /\ MutexOrders' /\ ValidHasBlock' /\ OneBufferPerBlock' /\ BufferKeepsItsBlock'
          /\ CleanIsOnDisk'
      BY <2>1 DEF MutexOrders, ValidHasBlock, OneBufferPerBlock, BufferKeepsItsBlock,
                  CleanIsOnDisk
    <2> QED BY <2>2, <2>3, <2>4
  <1> QED
    BY <1>1, <1>2, <1>3, <1>4, <1>5, <1>6, <1>7, <1>8, <1>9 DEF BCacheNext, Caller

\* The invariant holds of every behaviour of the cache.
LEMMA BCacheInvariant == BCacheSpec => []BCacheInv
  BY BCacheInitKeeps, BCacheStep, PTL DEF BCacheSpec

\* Whoever holds a block, in any number of tasks, works on its one copy
\* (bcache_getblk, bcache_read and bcache_release).
THEOREM CopiesCorrect == BCacheSpec => []HoldersShareOneCopy
  <1>1. BCacheInv => HoldersShareOneCopy
    <2> SUFFICES ASSUME BCacheInv PROVE HoldersShareOneCopy
      OBVIOUS
    <2>1. brefcnt \in [Bufs -> 0..Cardinality(Callers)]
      <3>1. Cardinality(Callers) \in Nat
        BY BCacheAssumption, FS_CardinalityType
      <3>2. ASSUME NEW b \in Bufs PROVE brefcnt[b] \in 0..Cardinality(Callers)
        BY <3>1, UsersFinite, SMTT(30) DEF BCacheInv, RefcntCounts
      <3> QED BY <3>2 DEF BCacheInv, BufType
    <2> QED BY <2>1 DEF BCacheInv, BufType, ListOfBufs, HoldersShareOneCopy, BCacheTypeOK
  <1> QED BY <1>1, BCacheInvariant, PTL

\* A buffer that find_reusable_locked may give to another block has nothing that
\* is not on the disk.
THEOREM CleanCorrect == BCacheSpec => []CleanIsOnDisk
  <1>1. BCacheInv => CleanIsOnDisk
    BY DEF BCacheInv
  <1> QED BY <1>1, BCacheInvariant, PTL
-----------------------------------------------------------------------------
\* What a reader of a block gets: from its one buffer if that is valid, else from
\* the disk.
StoreShows ==
  \A k \in Blks :
    /\ \A b \in Bufs : blkno[b] = k => Store(k) = IF bvalid[b] THEN data[b] ELSE disk[k]
    /\ (\A b \in Bufs : blkno[b] # k) => Store(k) = disk[k]

\* That holds when no two buffers have one block.
LEMMA StoreIs == OneBufferPerBlock => StoreShows
  <1> SUFFICES ASSUME OneBufferPerBlock, NEW k \in Blks
               PROVE  /\ \A b \in Bufs : blkno[b] = k =>
                           Store(k) = IF bvalid[b] THEN data[b] ELSE disk[k]
                      /\ (\A b \in Bufs : blkno[b] # k) => Store(k) = disk[k]
    BY DEF StoreShows
  <1>1. ASSUME NEW b \in Bufs, blkno[b] = k
        PROVE  Store(k) = IF bvalid[b] THEN data[b] ELSE disk[k]
    <2>1. Cached(k) = {b}
      BY <1>1, BCacheAssumption DEF Cached, OneBufferPerBlock
    <2> QED BY <2>1, SMTT(30) DEF Store
  <1>2. ASSUME \A b \in Bufs : blkno[b] # k PROVE Store(k) = disk[k]
    BY <1>2 DEF Store, Cached
  <1> QED BY <1>1, <1>2

\* And so after every step.
LEMMA StoreIsNext == OneBufferPerBlock' => StoreShows'
  BY StoreIs, PTL

\* Given to another block, or to its first one, a buffer shows what is on the disk.
LEMMA GetStable ==
  ASSUME BCacheInv, BCacheInv', NEW t \in Callers, NEW j \in Blks, bcache_getblk(t, j),
         NEW k \in Blks
  PROVE  Store(k)' = Store(k)
  <1> USE DEF BCacheInv
  <1>1. PICK b \in Bufs :
          /\ b \in (IF Cached(j) # {} THEN Cached(j) ELSE ReusableBuf)
          /\ blkno' = [blkno EXCEPT ![b] = j]
          /\ bvalid' = [bvalid EXCEPT ![b] = @ /\ blkno[b] = j]
    BY DEF bcache_getblk, Cached, ReusableBuf
  <1>2. data' = data /\ disk' = disk
    BY DEF bcache_getblk
  <1>3. \/ blkno[b] = j
        \/ (\A c \in Bufs : blkno[c] # j) /\ ~dirty[b]
    BY <1>1 DEF Cached, ReusableBuf, buf_find_by_refcnt
  <1>4. /\ \A c \in Bufs : blkno[c] = k => Store(k) = IF bvalid[c] THEN data[c] ELSE disk[k]
        /\ (\A c \in Bufs : blkno[c] # k) => Store(k) = disk[k]
    BY StoreIs DEF StoreShows
  <1>5. /\ \A c \in Bufs : blkno'[c] = k => Store(k)' = IF bvalid'[c] THEN data'[c] ELSE disk'[k]
        /\ (\A c \in Bufs : blkno'[c] # k) => Store(k)' = disk'[k]
    BY StoreIsNext DEF StoreShows
  <1>6. CASE blkno[b] = j
    <2>1. blkno' = blkno /\ bvalid' = bvalid
      BY <1>1, <1>6, SMTT(30) DEF BufType
    <2> QED BY <1>2, <1>4, <1>5, <2>1
  <1>7. CASE (\A c \in Bufs : blkno[c] # j) /\ ~dirty[b]
    <2>1. blkno'[b] = j /\ ~bvalid'[b] /\ \A c \in Bufs \ {b} : blkno'[c] = blkno[c]
                                        /\ bvalid'[c] = bvalid[c]
      BY <1>1, <1>7 DEF BufType
    <2>2. CASE k = j
      <3>1. Store(k)' = disk'[k]
        BY <1>5, <2>1, <2>2
      <3>2. Store(k) = disk[k]
        BY <1>4, <1>7, <2>2
      <3> QED BY <1>2, <3>1, <3>2
    <2>3. CASE k # j /\ blkno[b] = k
      <3>1. \A c \in Bufs : blkno'[c] # k
        BY <2>1, <2>3, BCacheAssumption DEF OneBufferPerBlock
      <3>2. bvalid[b] => data[b] = disk[k]
        BY <1>7, <2>3 DEF CleanIsOnDisk
      <3> QED BY <1>2, <1>4, <1>5, <2>3, <3>1, <3>2
    <2>4. CASE k # j /\ blkno[b] # k
      <3>1. \A c \in Bufs : blkno'[c] = k => c # b /\ blkno[c] = k
        BY <2>1, <2>4
      <3>2. \A c \in Bufs : blkno[c] = k => c # b /\ blkno'[c] = k
        BY <2>1, <2>4
      <3>3. CASE \E c \in Bufs : blkno[c] = k
        <4>1. PICK c \in Bufs : blkno[c] = k
          BY <3>3
        <4>2. blkno'[c] = k /\ bvalid'[c] = bvalid[c]
          BY <2>1, <3>2, <4>1
        <4> QED BY <1>2, <1>4, <1>5, <4>1, <4>2
      <3>4. CASE ~ \E c \in Bufs : blkno[c] = k
        BY <1>2, <1>4, <1>5, <3>1, <3>4
      <3> QED BY <3>3, <3>4
    <2> QED BY <2>2, <2>3, <2>4
  <1> QED BY <1>3, <1>6, <1>7

\* Filling a buffer from the disk and writing it back change no block's contents.
LEMMA TransferStable ==
  ASSUME BCacheInv, BCacheInv', NEW t \in Callers, bcache_read(t) \/ bcache_sync(t),
         NEW k \in Blks
  PROVE  Store(k)' = Store(k)
  <1> USE DEF BCacheInv
  <1> DEFINE b == blk[t]
  <1>1. b \in Bufs /\ blkno' = blkno /\ blkno[b] \in Blks /\ blkno[b] = wanted[t]
    BY DEF bcache_read, bcache_sync, BufType, MutexOrders, BufferKeepsItsBlock
  <1>2. /\ \A c \in Bufs : blkno[c] = k => Store(k) = IF bvalid[c] THEN data[c] ELSE disk[k]
        /\ (\A c \in Bufs : blkno[c] # k) => Store(k) = disk[k]
    BY StoreIs DEF StoreShows
  <1>3. /\ \A c \in Bufs : blkno'[c] = k => Store(k)' = IF bvalid'[c] THEN data'[c] ELSE disk'[k]
        /\ (\A c \in Bufs : blkno'[c] # k) => Store(k)' = disk'[k]
    BY StoreIsNext DEF StoreShows
  <1>4. CASE bcache_read(t)
    <2>1. /\ disk' = disk /\ data' = [data EXCEPT ![b] = disk[wanted[t]]]
          /\ bvalid' = [bvalid EXCEPT ![b] = TRUE] /\ ~bvalid[b]
      BY <1>4 DEF bcache_read, MutexOrders
    <2>2. ASSUME NEW c \in Bufs, blkno[c] = k
          PROVE  (IF bvalid'[c] THEN data'[c] ELSE disk'[k]) = IF bvalid[c] THEN data[c] ELSE disk[k]
      <3>1. CASE c = b
        BY <1>1, <2>1, <2>2, <3>1 DEF BufType
      <3>2. CASE c # b
        BY <2>1, <3>2 DEF BufType
      <3> QED BY <3>1, <3>2
    <2> QED BY <1>1, <1>2, <1>3, <2>1, <2>2, SMTT(30)
  <1>5. CASE bcache_sync(t)
    <2>1. /\ disk' = [disk EXCEPT ![blkno[b]] = data[b]] /\ data' = data /\ bvalid' = bvalid
          /\ bvalid[b]
      BY <1>5 DEF bcache_sync, MutexOrders
    <2>2. ASSUME NEW c \in Bufs, blkno[c] = k
          PROVE  (IF bvalid'[c] THEN data'[c] ELSE disk'[k]) = IF bvalid[c] THEN data[c] ELSE disk[k]
      <3>1. CASE k = blkno[b]
        <4>1. c = b
          BY <1>1, <2>2, <3>1, BCacheAssumption DEF OneBufferPerBlock
        <4> QED BY <2>1, <4>1
      <3>2. CASE k # blkno[b]
        BY <1>1, <2>1, <3>2 DEF BufType
      <3> QED BY <3>1, <3>2
    <2>3. (\A c \in Bufs : blkno[c] # k) => disk'[k] = disk[k]
      BY <1>1, <2>1 DEF BufType
    <2> QED BY <1>1, <1>2, <1>3, <2>2, <2>3, SMTT(30)
  <1> QED BY <1>4, <1>5

\* A task that writes to its buffer changes no other block than its own.
LEMMA MarkStable ==
  ASSUME BCacheInv, BCacheInv', NEW t \in Callers, NEW v \in Vals, bcache_mark_dirty(t, v),
         NEW k \in Blks, wanted[t] # k
  PROVE  Store(k)' = Store(k)
  <1> USE DEF BCacheInv
  <1>1. /\ blk[t] \in Bufs /\ blkno[blk[t]] # k
        /\ blkno' = blkno /\ bvalid' = bvalid /\ disk' = disk
        /\ data' = [data EXCEPT ![blk[t]] = v]
    BY DEF bcache_mark_dirty, BufType, BufferKeepsItsBlock
  <1>2. Cached(k)' = Cached(k) /\ blk[t] \notin Cached(k)
    BY <1>1 DEF Cached
  <1>3. \A c \in Cached(k) : data'[c] = data[c]
    BY <1>1, <1>2 DEF Cached, BufType
  <1>4. CASE \E b \in Cached(k) : bvalid[b]
    <2>1. (CHOOSE b \in Cached(k) : TRUE) \in Cached(k)
      BY <1>4
    <2> QED BY <1>1, <1>2, <1>3, <1>4, <2>1, SMTT(30) DEF Store
  <1>5. CASE ~ \E b \in Cached(k) : bvalid[b]
    BY <1>1, <1>2, <1>5 DEF Store
  <1> QED BY <1>4, <1>5

\* The contents of a block change only as the holder of its buffer writes
\* (bcache_mark_dirty) or as the block is freed (bcache_invalidate).
THEOREM ContentsCorrect == BCacheSpec => ContentsAreStable
  <1> DEFINE Written(k) == \/ bcache_invalidate(k)
                           \/ \E t \in Callers, v \in Vals :
                                wanted[t] = k /\ bcache_mark_dirty(t, v)
             Stable == \A k \in Blks : Store(k)' # Store(k) => Written(k)
  <1>1. BCacheInv /\ BCacheInv' /\ [BCacheNext]_bcachevars => [Stable]_bcachevars
    <2> SUFFICES ASSUME BCacheInv, BCacheInv', BCacheNext, NEW k \in Blks, ~ Written(k)
                 PROVE  Store(k)' = Store(k)
      OBVIOUS
    <2>1. ASSUME NEW t \in Callers, NEW j \in Blks, bcache_getblk(t, j)
          PROVE  Store(k)' = Store(k)
      BY <2>1, GetStable
    <2>2. ASSUME NEW t \in Callers, bcache_read(t) \/ bcache_sync(t)
          PROVE  Store(k)' = Store(k)
      BY <2>2, TransferStable
    <2>3. ASSUME NEW t \in Callers, NEW v \in Vals, bcache_mark_dirty(t, v)
          PROVE  Store(k)' = Store(k)
      BY <2>3, MarkStable
    <2>4. ASSUME NEW t \in Callers, mutex_lock(t) \/ bcache_release(t) \/ Put(t)
          PROVE  Store(k)' = Store(k)
      <3>1. blkno' = blkno /\ bvalid' = bvalid /\ data' = data /\ disk' = disk
        BY <2>4 DEF mutex_lock, bcache_release, Put, fields
      <3> QED BY <3>1, SMTT(30) DEF Store, Cached
    <2>5. ASSUME NEW j \in Blks, j # k, bcache_invalidate(j)
          PROVE  Store(k)' = Store(k)
      <3>1. PICK b \in Bufs :
              /\ blkno[b] = j
              /\ bvalid' = [bvalid EXCEPT ![b] = FALSE] /\ blkno' = [blkno EXCEPT ![b] = NoBlk]
              /\ data' = data /\ disk' = disk
        BY <2>5 DEF bcache_invalidate, Cached
      <3>2. Cached(k)' = Cached(k) /\ b \notin Cached(k)
        BY <2>5, <3>1, BCacheAssumption, SMTT(30) DEF Cached, BCacheInv, BufType
      <3>3. \A c \in Cached(k) : bvalid'[c] = bvalid[c]
        BY <3>1, <3>2 DEF Cached, BCacheInv, BufType
      <3> QED BY <3>1, <3>2, <3>3, SMTT(30) DEF Store
    <2> QED BY <2>1, <2>2, <2>3, <2>4, <2>5 DEF BCacheNext, Caller
  <1>2. BCacheSpec => [][Stable]_bcachevars
    BY <1>1, BCacheInvariant, PTL DEF BCacheSpec
  <1> QED BY <1>2 DEF ContentsAreStable
=============================================================================
