---------------------------- MODULE InodesProofs ----------------------------
(***************************************************************************)
(* The data blocks of any number of files on a disk of any size: bitmap    *)
(* and inodes agree about who has which block, and each file is a sequence *)
(* of blocks of its own, if files that outgrow their direct blocks have an *)
(* indirect block of their own, as mkfs gives them.                        *)
(***************************************************************************)
EXTENDS Inodes, WellFoundedInduction, TLAPS

\* The leaves that need arithmetic cite SMT.
USE ZenonT(20)

\* The condition under which inode_write may use content.indir
IndirectFromMkfs ==
  /\ \A f \in Files : MaxLen[f] <= FS_INODE_DIR_DBLKNO
                                     + (IF Indir[f] = 0 THEN 0 ELSE FS_INODE_INDIR_DBLKNO)
  /\ \A f, g \in Files : Indir[f] = Indir[g] /\ Indir[f] # 0 => f = g

Idx(f) == 0..(MaxLen[f] - 1)
EntryType == DataBlks \cup {0, ENOSPC}

\* BlocksAreOwned and BitmapIsUsage without pairs
Owned ==
  /\ \A f, g \in Files : \A m \in Idx(f), n \in Idx(g) :
       Entry(f, m) > 0 /\ Entry(f, m) = Entry(g, n) => f = g /\ m = n
  /\ \A f \in Files : \A m \in Idx(f) : Entry(f, m) > 0 => Entry(f, m) \notin Reserved

HasBlk(b) == \E f \in Files : \E n \in Idx(f) : Entry(f, n) > 0 /\ b = Entry(f, n)

Usage ==
  \A b \in DataBlks :
    /\ b \in bitmap <=> b \in Reserved \/ HasBlk(b) \/ b \in lost
    /\ b \in lost => b \notin Reserved /\ ~HasBlk(b)

\* SizeIsBacked on the indices a file can have
Backed == \A f \in Files : \A n \in Idx(f) : n < filesize[f] => Entry(f, n) > 0

\* No entry is set past the length a file can have.
Beyond ==
  /\ \A f \in Files : \A i \in Direct : i >= MaxLen[f] => dirblkno[f][i] = 0
  /\ \A f \in Files : \A i \in Indirect :
       FS_INODE_DIR_DBLKNO + i >= MaxLen[f] => indirtab[Indir[f]][i] = 0

\* The table names no block that the slot does not, it has the size, and all the
\* blocks below it: reuse of the slot takes away nothing that can be read.
Durable ==
  \A f \in Files :
    /\ dinode[f].size = filesize[f]
    /\ \A i \in Direct : /\ dinode[f].dirblkno[i] # 0 => dirblkno[f][i] = dinode[f].dirblkno[i]
                         /\ i < filesize[f] => dinode[f].dirblkno[i] > 0

InodesInv == InodesTypeOK /\ Owned /\ Usage /\ Beyond /\ Backed /\ Durable
-----------------------------------------------------------------------------
\* The facts about constants that the steps below use
LEMMA Consts ==
  /\ FS_INODE_DIR_DBLKNO \in Nat /\ FS_INODE_INDIR_DBLKNO \in Nat
  /\ \A b \in DataBlks : b \in Nat /\ b > 0
  /\ \A f \in Files : /\ MaxLen[f] \in Nat /\ Indir[f] \in DataBlks \cup {0}
                      /\ Indir[f] \in Reserved \cup {0}
  /\ Reserved \subseteq DataBlks
  /\ \A e \in EntryType : e \in Int /\ (e > 0 <=> e \in DataBlks)
  BY InodesAssumption, SMTT(30) DEF Reserved, EntryType, ENOSPC

\* A set of block numbers has a first one.
LEMMA FirstExists ==
  ASSUME NEW S, S \subseteq Nat, S # {}
  PROVE  \E b \in S : \A c \in S : b <= c
  <1> DEFINE R == OpToRel(<, Nat)
  <1>1. IsWellFoundedOn(R, Nat)
    BY NatLessThanWellFounded
  <1> HIDE DEF R
  <1>2. PICK b \in S : \A c \in S : ~ (<<c, b>> \in R)
    BY <1>1, WFMin
  <1>3. ASSUME NEW c \in S
        PROVE  b <= c
    <2>1. <<c, b>> \notin R
      BY <1>2
    <2> QED
      BY <2>1, SMTT(30) DEF R, OpToRel
  <1> QED
    BY <1>2, <1>3

\* bbm_alloc finds a block that is free.
LEMMA FirstZeroIsFree ==
  ASSUME FreeBlks # {}
  PROVE  FirstZero \in DataBlks /\ FirstZero \notin bitmap
  <1>1. FreeBlks \subseteq Nat
    BY Consts DEF FreeBlks
  <1>2. \E b \in FreeBlks : \A c \in FreeBlks : b <= c
    BY <1>1, FirstExists
  <1>3. FirstZero \in FreeBlks
    BY <1>2 DEF FirstZero
  <1> QED
    BY <1>3 DEF FreeBlks

\* An entry is a block, no block, or the error of balloc.
LEMMA EntryIs ==
  ASSUME IndirectFromMkfs, InodesTypeOK, NEW f \in Files, NEW n \in Idx(f)
  PROVE  Entry(f, n) \in EntryType
  <1>1. CASE n < FS_INODE_DIR_DBLKNO
    <2>1. n \in Direct
      BY <1>1, Consts, SMTT(30) DEF Idx, Direct
    <2> QED
      BY <1>1, <2>1, SMTT(30) DEF Entry, InodesTypeOK, EntryType
  <1>2. CASE n >= FS_INODE_DIR_DBLKNO
    <2>1. n - FS_INODE_DIR_DBLKNO \in Indirect
      BY <1>2, Consts, SMTT(30) DEF IndirectFromMkfs, Idx, Indirect
    <2>2. Indir[f] \in Reserved \cup {0} /\ ~(n < FS_INODE_DIR_DBLKNO)
      BY <1>2, Consts, SMTT(30) DEF Idx
    <2> QED
      BY <2>1, <2>2, SMTT(30) DEF Entry, InodesTypeOK, EntryType
  <1> QED
    BY <1>1, <1>2, Consts, SMTT(30) DEF Idx

\* The two forms of the invariant are one.
LEMMA Forms ==
  ASSUME IndirectFromMkfs, InodesTypeOK
  PROVE  BlocksAreOwned /\ BitmapIsUsage /\ SizeIsBacked <=> Owned /\ Usage /\ Backed
  <1>1. \A p : p \in Places <=> \E f \in Files : \E n \in Idx(f) : p = <<f, n>> /\ Entry(f, n) > 0
    BY SMTT(30) DEF Places, Idx
  <1>2. BlocksAreOwned <=> Owned
    <2>1. ASSUME Owned
          PROVE  BlocksAreOwned
      BY <1>1, <2>1, SMTT(30) DEF Owned, BlocksAreOwned
    <2>2. ASSUME BlocksAreOwned
          PROVE  Owned
      <3>1. \A f \in Files : \A n \in Idx(f) : Entry(f, n) > 0 => <<f, n>> \in Places
        BY <1>1
      <3>2. ASSUME NEW f \in Files, NEW g \in Files, NEW m \in Idx(f), NEW n \in Idx(g),
                   Entry(f, m) > 0, Entry(f, m) = Entry(g, n)
            PROVE  f = g /\ m = n
        <4>1. <<f, m>> \in Places /\ <<g, n>> \in Places
          BY <3>1, <3>2
        <4>2. <<f, m>> = <<g, n>>
          BY <2>2, <3>2, <4>1 DEF BlocksAreOwned
        <4> QED
          BY <4>2
      <3>3. ASSUME NEW f \in Files, NEW m \in Idx(f), Entry(f, m) > 0
            PROVE  Entry(f, m) \notin Reserved
        BY <2>2, <3>1, <3>3 DEF BlocksAreOwned
      <3> QED
        BY <3>2, <3>3 DEF Owned
    <2> QED
      BY <2>1, <2>2
  <1>3. {Entry(p[1], p[2]) : p \in Places} = {b \in DataBlks : HasBlk(b)}
    <2>1. ASSUME NEW p \in Places
          PROVE  Entry(p[1], p[2]) \in DataBlks /\ HasBlk(Entry(p[1], p[2]))
      <3>0. PICK f \in Files : \E n \in Idx(f) : p = <<f, n>> /\ Entry(f, n) > 0
        BY <1>1
      <3>1. PICK n \in Idx(f) : p = <<f, n>> /\ Entry(f, n) > 0
        BY <3>0
      <3> QED
        BY <3>1, EntryIs, Consts DEF HasBlk
    <2>2. ASSUME NEW b \in DataBlks, HasBlk(b)
          PROVE  \E p \in Places : b = Entry(p[1], p[2])
      <3>0. PICK f \in Files : \E n \in Idx(f) : Entry(f, n) > 0 /\ b = Entry(f, n)
        BY <2>2 DEF HasBlk
      <3>1. PICK n \in Idx(f) : Entry(f, n) > 0 /\ b = Entry(f, n)
        BY <3>0
      <3>2. <<f, n>> \in Places
        BY <1>1, <3>1
      <3> QED
        BY <3>1, <3>2
    <2> QED
      BY <2>1, <2>2
  <1>4. BitmapIsUsage <=> Usage
    <2>1. bitmap \subseteq DataBlks /\ lost \subseteq DataBlks /\ Reserved \subseteq DataBlks
      BY Consts DEF InodesTypeOK
    <2> DEFINE used == {Entry(p[1], p[2]) : p \in Places}
    <2>2. BitmapIsUsage <=> bitmap = used \cup Reserved \cup lost /\ lost \cap (used \cup Reserved) = {}
      BY DEF BitmapIsUsage
    <2>3. used = {b \in DataBlks : HasBlk(b)}
      BY <1>3
    <2> HIDE DEF used
    <2>4. ASSUME BitmapIsUsage
          PROVE  Usage
      BY <2>1, <2>2, <2>3, <2>4 DEF Usage
    <2>5. ASSUME Usage
          PROVE  BitmapIsUsage
      <3>1. bitmap = used \cup Reserved \cup lost
        BY <2>1, <2>3, <2>5 DEF Usage
      <3>2. lost \cap (used \cup Reserved) = {}
        BY <2>1, <2>3, <2>5 DEF Usage
      <3> QED
        BY <2>2, <3>1, <3>2
    <2> QED
      BY <2>4, <2>5
  <1>5. SizeIsBacked <=> Backed
    <2>1. \A f \in Files : filesize[f] \in Nat /\ filesize[f] <= MaxLen[f] /\ MaxLen[f] \in Nat
      BY Consts DEF InodesTypeOK
    <2>2. \A f \in Files : \A n : n \in 0..(filesize[f] - 1) <=> n \in Idx(f) /\ n < filesize[f]
      BY <2>1, SMTT(30) DEF Idx
    <2> QED
      BY <2>2 DEF SizeIsBacked, Backed
  <1> QED
    BY <1>2, <1>4, <1>5
-----------------------------------------------------------------------------
EntriesOK ==
  /\ dirblkno \in [Files -> [Direct -> EntryType]]
  /\ indirtab \in [Reserved \cup {0} -> [Indirect -> EntryType]]

\* get_dir_blk and get_indir_blk change one entry of one file.
OneEntry(f, n, b) ==
  \A g \in Files : \A m \in Idx(g) : Entry(g, m)' = IF g = f /\ m = n THEN b ELSE Entry(g, m)

\* SetBlkno changes one entry: no other file has the same indirect block.
LEMMA SetBlknoStep ==
  ASSUME IndirectFromMkfs, InodesInv, NEW f \in Files, NEW n \in Idx(f), NEW b \in EntryType,
         SetBlkno(f, n, b)
  PROVE  EntriesOK' /\ Beyond' /\ OneEntry(f, n, b)
  <1>0. /\ dirblkno \in [Files -> [Direct -> EntryType]]
        /\ indirtab \in [Reserved \cup {0} -> [Indirect -> EntryType]]
    BY DEF InodesInv, InodesTypeOK, EntryType
  <1>1. CASE n < FS_INODE_DIR_DBLKNO
    <2>1. n \in Direct /\ n < MaxLen[f]
      BY <1>1, Consts, SMTT(30) DEF Idx, Direct
    <2>2. dirblkno' = [dirblkno EXCEPT ![f][n] = b] /\ indirtab' = indirtab
      BY <1>1 DEF SetBlkno
    <2>3. EntriesOK'
      BY <1>0, <2>1, <2>2 DEF EntriesOK
    <2>4. \A g \in Files, i \in Direct :
            dirblkno'[g][i] = IF g = f /\ i = n THEN b ELSE dirblkno[g][i]
      BY <1>0, <2>1, <2>2
    <2>5. OneEntry(f, n, b)
      <3> SUFFICES ASSUME NEW g \in Files, NEW m \in Idx(g)
                   PROVE  Entry(g, m)' = IF g = f /\ m = n THEN b ELSE Entry(g, m)
        BY DEF OneEntry
      <3>1. CASE m < FS_INODE_DIR_DBLKNO
        <4>1. m \in Direct
          BY <3>1, Consts, SMTT(30) DEF Idx, Direct
        <4> QED
          BY <2>4, <3>1, <4>1 DEF Entry
      <3>2. CASE ~(m < FS_INODE_DIR_DBLKNO)
        BY <1>1, <2>2, <3>2 DEF Entry
      <3> QED
        BY <3>1, <3>2
    <2>6. Beyond'
      <3>1. \A g \in Files : \A i \in Direct : i >= MaxLen[g] => dirblkno'[g][i] = 0
        <4> SUFFICES ASSUME NEW g \in Files, NEW i \in Direct, i >= MaxLen[g]
                     PROVE  dirblkno'[g][i] = 0
          OBVIOUS
        <4>1. ~(g = f /\ i = n)
          BY <2>1, Consts, SMTT(30) DEF Direct
        <4> QED
          BY <2>4, <4>1, SMTT(30) DEF InodesInv, Beyond
      <3> QED
        BY <2>2, <3>1 DEF InodesInv, Beyond
    <2> QED
      BY <2>3, <2>5, <2>6
  <1>2. CASE ~(n < FS_INODE_DIR_DBLKNO)
    <2> DEFINE k == n - FS_INODE_DIR_DBLKNO
    <2>1. k \in Indirect /\ Indir[f] # 0 /\ Indir[f] \in Reserved /\ n < MaxLen[f] /\ n \in Nat
      BY <1>2, Consts, SMTT(30) DEF IndirectFromMkfs, Idx, Indirect
    <2>2. indirtab' = [indirtab EXCEPT ![Indir[f]][k] = b] /\ dirblkno' = dirblkno
      BY <1>2 DEF SetBlkno
    <2>3. EntriesOK'
      BY <1>0, <2>1, <2>2 DEF EntriesOK
    <2>4. \A g \in Files, i \in Indirect :
            indirtab'[Indir[g]][i] = IF g = f /\ i = k THEN b ELSE indirtab[Indir[g]][i]
      <3> SUFFICES ASSUME NEW g \in Files, NEW i \in Indirect
                   PROVE  indirtab'[Indir[g]][i] = IF g = f /\ i = k THEN b ELSE indirtab[Indir[g]][i]
        OBVIOUS
      <3>1. Indir[g] \in Reserved \cup {0} /\ (Indir[g] = Indir[f] <=> g = f)
        BY <2>1, Consts DEF IndirectFromMkfs
      <3> QED
        BY <1>0, <2>1, <2>2, <3>1
    <2>5. OneEntry(f, n, b)
      <3> SUFFICES ASSUME NEW g \in Files, NEW m \in Idx(g)
                   PROVE  Entry(g, m)' = IF g = f /\ m = n THEN b ELSE Entry(g, m)
        BY DEF OneEntry
      <3>1. CASE m < FS_INODE_DIR_DBLKNO
        BY <1>2, <2>2, <3>1 DEF Entry
      <3>2. CASE ~(m < FS_INODE_DIR_DBLKNO)
        <4>1. m - FS_INODE_DIR_DBLKNO \in Indirect /\ (m - FS_INODE_DIR_DBLKNO = k <=> m = n)
          BY <2>1, <3>2, Consts, SMTT(30) DEF IndirectFromMkfs, Idx, Indirect
        <4> HIDE DEF k
        <4> QED
          BY <2>4, <3>2, <4>1 DEF Entry
      <3> QED
        BY <3>1, <3>2
    <2>6. Beyond'
      <3>1. \A g \in Files : \A i \in Indirect :
              FS_INODE_DIR_DBLKNO + i >= MaxLen[g] => indirtab'[Indir[g]][i] = 0
        <4> SUFFICES ASSUME NEW g \in Files, NEW i \in Indirect, FS_INODE_DIR_DBLKNO + i >= MaxLen[g]
                     PROVE  indirtab'[Indir[g]][i] = 0
          OBVIOUS
        <4>1. ~(g = f /\ i = k)
          BY <2>1, Consts, SMTT(30) DEF Indirect
        <4> HIDE DEF k
        <4> QED
          BY <2>4, <4>1, SMTT(30) DEF InodesInv, Beyond
      <3> QED
        BY <2>2, <3>1 DEF InodesInv, Beyond
    <2> QED
      BY <2>3, <2>5, <2>6
  <1> QED
    BY <1>1, <1>2

\* An entry that balloc fills with a free block: block and place find each other.
LEMMA AllocStep ==
  ASSUME IndirectFromMkfs, InodesInv, NEW f \in Files, NEW n \in Idx(f), Entry(f, n) = 0,
         FreeBlks # {}, bbm_alloc(FirstZero), SetBlkno(f, n, FirstZero), UNCHANGED lost
  PROVE  /\ EntriesOK' /\ Owned' /\ Usage' /\ Beyond' /\ bitmap' \subseteq DataBlks
         /\ OneEntry(f, n, FirstZero)
         /\ \A g \in Files : \A m \in Idx(g) : Entry(g, m) # FirstZero
  <1> DEFINE b == FirstZero
  <1>1. b \in DataBlks /\ b \notin bitmap /\ b > 0 /\ b \in EntryType
    BY FirstZeroIsFree, Consts DEF EntryType
  <1> HIDE DEF b
  <1>2. bitmap' = bitmap \cup {b} /\ bitmap \subseteq DataBlks
    BY DEF bbm_alloc, InodesInv, InodesTypeOK, b
  <1>3. EntriesOK' /\ Beyond' /\ OneEntry(f, n, b)
    BY <1>1, SetBlknoStep DEF b
  <1>4. b \notin Reserved /\ ~HasBlk(b) /\ b \notin lost
    BY <1>1 DEF InodesInv, Usage
  <1>5. \A g \in Files : \A m \in Idx(g) : Entry(g, m) # b
    BY <1>1, <1>4 DEF HasBlk
  <1>6. Owned'
    <2>1. ASSUME NEW g \in Files, NEW h \in Files, NEW m \in Idx(g), NEW k \in Idx(h),
                 Entry(g, m)' > 0, Entry(g, m)' = Entry(h, k)'
          PROVE  g = h /\ m = k
      BY <1>3, <1>5, <2>1, SMTT(30) DEF OneEntry, InodesInv, Owned
    <2>2. ASSUME NEW g \in Files, NEW m \in Idx(g), Entry(g, m)' > 0
          PROVE  Entry(g, m)' \notin Reserved
      BY <1>3, <1>4, <2>2 DEF OneEntry, InodesInv, Owned
    <2> QED
      BY <2>1, <2>2 DEF Owned
  <1>7. Usage'
    <2> SUFFICES ASSUME NEW c \in DataBlks
                 PROVE  /\ c \in bitmap' <=> c \in Reserved \/ HasBlk(c)' \/ c \in lost'
                        /\ c \in lost' => c \notin Reserved /\ ~HasBlk(c)'
      BY DEF Usage
    <2>1. HasBlk(c)' <=> HasBlk(c) \/ c = b
      <3>1. ASSUME HasBlk(c)
            PROVE  HasBlk(c)'
        <4>1. PICK g \in Files : \E m \in Idx(g) : Entry(g, m) > 0 /\ c = Entry(g, m)
          BY <3>1 DEF HasBlk
        <4>2. PICK m \in Idx(g) : Entry(g, m) > 0 /\ c = Entry(g, m)
          BY <4>1
        <4>3. ~(g = f /\ m = n)
          BY <4>2, SMTT(30)
        <4> QED
          BY <1>3, <4>2, <4>3 DEF OneEntry, HasBlk
      <3>2. ASSUME c = b
            PROVE  HasBlk(c)'
        <4>1. Entry(f, n)' = b
          BY <1>3 DEF OneEntry
        <4> QED
          BY <1>1, <3>2, <4>1 DEF HasBlk
      <3>3. ASSUME HasBlk(c)', c # b
            PROVE  HasBlk(c)
        BY <1>3, <3>3 DEF OneEntry, HasBlk
      <3> QED
        BY <3>1, <3>2, <3>3
    <2> QED
      BY <1>2, <1>4, <2>1 DEF InodesInv, Usage
  <1> QED
    BY <1>1, <1>2, <1>3, <1>5, <1>6, <1>7 DEF b
-----------------------------------------------------------------------------
\* What the refinement mapping has for a file
Content(f) == [i \in 1..filesize[f] |-> Shown(f, i - 1)]
AllContent == [f \in Files |-> Content(f)]

\* A block of a file shows a value.
LEMMA ShownIs ==
  ASSUME IndirectFromMkfs, InodesTypeOK, NEW f \in Files, NEW n \in Idx(f)
  PROVE  Shown(f, n) \in BlkVals
  <1>1. Entry(f, n) \in EntryType
    BY EntryIs
  <1>2. Entry(f, n) > 0 => Entry(f, n) \in DataBlks
    BY <1>1, Consts
  <1> QED
    BY <1>2, InodesAssumption DEF Shown, InodesTypeOK

\* A file is a sequence of values.
LEMMA ContentIs ==
  ASSUME IndirectFromMkfs, InodesTypeOK, NEW f \in Files
  PROVE  /\ filesize[f] \in Nat /\ filesize[f] <= MaxLen[f]
         /\ \A i \in 1..filesize[f] : i - 1 \in Idx(f)
         /\ Content(f) \in Seq(BlkVals) /\ Len(Content(f)) = filesize[f]
  <1>1. filesize[f] \in Nat /\ filesize[f] <= MaxLen[f]
    BY DEF InodesTypeOK
  <1>2. \A i \in 1..filesize[f] : i - 1 \in Idx(f)
    BY <1>1, Consts, SMTT(30) DEF Idx
  <1>3. \A i \in 1..filesize[f] : Shown(f, i - 1) \in BlkVals
    BY <1>2, ShownIs
  <1> QED
    BY <1>1, <1>2, <1>3, SMTT(30) DEF Content

\* A step that changes no shown block and no size shows the same files.
LEMMA SameContent ==
  ASSUME IndirectFromMkfs, InodesTypeOK, UNCHANGED filesize,
         \A g \in Files : \A m \in Idx(g) : m < filesize[g] => Shown(g, m)' = Shown(g, m)
  PROVE  AllContent' = AllContent
  <1>1. ASSUME NEW g \in Files
        PROVE  Content(g)' = Content(g)
    <2>1. \A i \in 1..filesize[g] : Shown(g, i - 1)' = Shown(g, i - 1)
      <3>1. filesize[g] \in Nat /\ \A i \in 1..filesize[g] : i - 1 \in Idx(g)
        BY ContentIs
      <3> QED
        BY <3>1, SMTT(30)
    <2> QED
      BY <2>1 DEF Content
  <1> QED
    BY <1>1 DEF AllContent

\* A call that stops reports an error, or what it wrote before.
LEMMA StopRefines ==
  ASSUME IndirectFromMkfs, InodesTypeOK, NEW f, NEW n, NEW err \in Int, err < 0, Stops(f, n, err),
         \A g \in Files : \A m \in Idx(g) : m < filesize[g] => Shown(g, m)' = Shown(g, m)
  PROVE  AbsFiles!Next
  <1>1. AllContent' = AllContent
    BY SameContent DEF Stops
  <1>2. CASE res' = err
    <2>1. (res >= 0)' = FALSE
      <3>1. ~(res' >= 0)
        BY <1>2, SMTT(30)
      <3> QED
        BY <3>1, SMTT(30)
    <2> QED
      BY <1>1, <2>1 DEF AbsFiles!Fail, AbsFiles!Next, AllContent, Content
  <1>3. CASE res' = 1
    <2>1. (res >= 0)' = TRUE
      BY <1>3, SMTT(30)
    <2> QED
      BY <1>1, <2>1 DEF AbsFiles!Short, AbsFiles!Next, AllContent, Content
  <1> QED
    BY <1>2, <1>3 DEF Stops

\* What Write makes of a sequence
LEMMA Written ==
  ASSUME NEW V, NEW s \in Seq(V), NEW i \in 1..(Len(s) + 1), NEW v \in V,
         NEW t \in Seq(V), Len(t) = IF i > Len(s) THEN i ELSE Len(s),
         \A k \in 1..Len(t) : t[k] = IF k = i THEN v ELSE s[k]
  PROVE  t = SubSeq(s, 1, i - 1) \o <<v>> \o SubSeq(s, i + 1, Len(s))
  <1> DEFINE p == SubSeq(s, 1, i - 1)
             q == SubSeq(s, i + 1, Len(s))
             pv == p \o <<v>>
             w == pv \o q
  <1>1. p \in Seq(V) /\ Len(p) = i - 1 /\ \A k \in 1..(i - 1) : p[k] = s[k]
    BY SMTT(30)
  <1>2. /\ q \in Seq(V) /\ Len(q) = IF i > Len(s) THEN 0 ELSE Len(s) - i
        /\ \A k \in 1..Len(q) : q[k] = s[i + k]
    BY SMTT(30)
  <1> HIDE DEF p, q
  <1>3. /\ pv \in Seq(V) /\ Len(pv) = i /\ pv[i] = v
        /\ \A k \in 1..(i - 1) : pv[k] = s[k]
    BY <1>1, SMTT(30)
  <1> HIDE DEF pv
  <1>4. w \in Seq(V) /\ Len(w) = Len(t) /\ Len(t) \in Nat
    <2>0. pv \in Seq(V) /\ q \in Seq(V)
      BY <1>2, <1>3
    <2>1. w \in Seq(V) /\ Len(w) = Len(pv) + Len(q)
      BY <2>0, SMTT(30)
    <2>2. CASE i > Len(s)
      BY <1>2, <1>3, <2>1, <2>2, SMTT(30)
    <2>3. CASE ~(i > Len(s))
      BY <1>2, <1>3, <2>1, <2>3, SMTT(30)
    <2> QED
      BY <2>1, <2>2, <2>3
  <1>5. ASSUME NEW k \in 1..Len(t)
        PROVE  w[k] = t[k]
    <2>1. CASE k <= i
      BY <1>2, <1>3, <2>1, SMTT(30)
    <2>2. CASE k > i
      <3>1. k - i \in 1..Len(q) /\ i + (k - i) = k
        BY <1>2, <2>2, SMTT(30)
      <3>2. w[k] = q[k - i]
        BY <1>2, <1>3, <2>2, <3>1, SMTT(30)
      <3> QED
        BY <1>2, <2>2, <3>1, <3>2, SMTT(30)
    <2>3. k <= i \/ k > i
      BY <1>4, SMTT(30)
    <2> QED
      BY <2>1, <2>2, <2>3
  <1>6. w = t
    <2> HIDE DEF w
    <2> QED
      BY <1>4, <1>5, SMTT(30)
  <1> QED
    BY <1>6 DEF p, q, pv

\* A block that only the written place has shows the new value there.
LEMMA StoreRefines ==
  ASSUME IndirectFromMkfs, InodesInv, InodesTypeOK', NEW f \in Files, NEW n \in Idx(f),
         n <= filesize[f], NEW b \in DataBlks, NEW v \in BlkVals,
         OneEntry(f, n, b), Stored(f, n, b, v),
         \A g \in Files : \A m \in Idx(g) : ~(g = f /\ m = n) => Entry(g, m) # b
  PROVE  AbsFiles!Next
  <1>0. InodesTypeOK
    BY DEF InodesInv
  <1>1. ASSUME NEW g \in Files, NEW m \in Idx(g)
        PROVE  Shown(g, m)' = IF g = f /\ m = n THEN v ELSE Shown(g, m)
    <2>1. blkdata \in [DataBlks -> BlkVals] /\ blkdata' = [blkdata EXCEPT ![b] = v]
      BY <1>0 DEF InodesTypeOK, Stored
    <2>2. Entry(g, m) \in EntryType /\ b > 0
      BY <1>0, EntryIs, Consts
    <2>3. CASE g = f /\ m = n
      <3>1. Entry(g, m)' = b
        BY <2>3 DEF OneEntry
      <3> QED
        BY <2>1, <2>2, <2>3, <3>1 DEF Shown
    <2>4. CASE ~(g = f /\ m = n)
      <3>1. Entry(g, m)' = Entry(g, m) /\ Entry(g, m) # b
        BY <2>4 DEF OneEntry
      <3>2. Entry(g, m) > 0 => Entry(g, m) \in DataBlks
        BY <2>2, Consts
      <3> QED
        BY <2>1, <2>4, <3>1, <3>2 DEF Shown
    <2> QED
      BY <2>3, <2>4
  <1>2. filesize' = [filesize EXCEPT ![f] = IF n + 1 > @ THEN n + 1 ELSE @] /\ res' = 1
    BY DEF Stored
  <1>3. filesize \in [Files -> Nat] /\ n \in Nat
    BY <1>0, Consts, SMTT(30) DEF InodesTypeOK, Idx
  <1>4. ASSUME NEW g \in Files, g # f
        PROVE  Content(g)' = Content(g)
    <2>1. filesize'[g] = filesize[g]
      BY <1>2, <1>3, <1>4
    <2>2. \A i \in 1..filesize[g] : Shown(g, i - 1)' = Shown(g, i - 1)
      BY <1>0, <1>1, <1>4, ContentIs
    <2> QED
      BY <2>1, <2>2 DEF Content
  <1>5. Content(f) \in Seq(BlkVals) /\ Len(Content(f)) = filesize[f] /\ n + 1 \in 1..(Len(Content(f)) + 1)
    BY <1>0, <1>3, ContentIs, SMTT(30)
  <1>6. filesize'[f] = IF n + 1 > filesize[f] THEN n + 1 ELSE filesize[f]
    BY <1>2, <1>3
  <1>7. \A i \in 1..filesize'[f] : i - 1 \in Idx(f)
    <2>1. filesize'[f] \in Nat /\ filesize'[f] <= MaxLen[f]
      BY DEF InodesTypeOK
    <2> QED
      BY <2>1, Consts, SMTT(30) DEF Idx
  <1>8. \A i \in 1..filesize'[f] : Content(f)'[i] = IF i = n + 1 THEN v ELSE Content(f)[i]
    <2> SUFFICES ASSUME NEW i \in 1..filesize'[f]
                 PROVE  Content(f)'[i] = IF i = n + 1 THEN v ELSE Content(f)[i]
      OBVIOUS
    <2>1. Content(f)'[i] = Shown(f, i - 1)'
      BY DEF Content
    <2>2. Shown(f, i - 1)' = IF i - 1 = n THEN v ELSE Shown(f, i - 1)
      BY <1>1, <1>7
    <2>3. i # n + 1 => i \in 1..filesize[f]
      BY <1>3, <1>6, SMTT(30)
    <2> QED
      BY <1>3, <2>1, <2>2, <2>3, SMTT(30) DEF Content
  <1>9. Content(f)' \in Seq(BlkVals) /\ Len(Content(f)') = filesize'[f]
    <2>1. \A i \in 1..filesize'[f] : Shown(f, i - 1)' \in BlkVals
      BY <1>0, <1>1, <1>7, ShownIs
    <2>2. filesize'[f] \in Nat
      BY <1>3, <1>6, SMTT(30)
    <2> QED
      BY <2>1, <2>2, SMTT(30) DEF Content
  <1>10. Content(f)' = SubSeq(Content(f), 1, (n + 1) - 1) \o <<v>>
                         \o SubSeq(Content(f), n + 1 + 1, Len(Content(f)))
    <2> DEFINE x == Content(f)
               y == Content(f)'
    <2>1. Len(y) = IF n + 1 > Len(x) THEN n + 1 ELSE Len(x)
      BY <1>5, <1>6, <1>9
    <2>2. \A k \in 1..Len(y) : y[k] = IF k = n + 1 THEN v ELSE x[k]
      BY <1>8, <1>9
    <2>3. x \in Seq(BlkVals) /\ y \in Seq(BlkVals) /\ n + 1 \in 1..(Len(x) + 1)
      BY <1>5, <1>9
    <2> HIDE DEF x, y
    <2>4. y = SubSeq(x, 1, (n + 1) - 1) \o <<v>> \o SubSeq(x, (n + 1) + 1, Len(x))
      BY <2>1, <2>2, <2>3, Written
    <2> QED
      BY <2>4 DEF x, y
  <1>11. AllContent' = [AllContent EXCEPT ![f] = SubSeq(@, 1, (n + 1) - 1) \o <<v>>
                                                  \o SubSeq(@, n + 1 + 1, Len(@))]
    BY <1>4, <1>10 DEF AllContent
  <1>12. AbsFiles!Write(f, n + 1, v)
    <2>1. (res >= 0)' = TRUE
      BY <1>2, SMTT(30)
    <2> QED
      BY <1>11, <2>1 DEF AbsFiles!Write, AllContent, Content
  <1>13. n + 1 \in 1..(Len(AllContent[f]) + 1)
    BY <1>5 DEF AllContent
  <1> QED
    BY <1>12, <1>13 DEF AbsFiles!Next, AllContent, Content
-----------------------------------------------------------------------------
(* The table follows the slot.                                             *)

\* A marked inode is in the table as it is in the slot.
LEMMA MarkDurable ==
  ASSUME InodesInv, InodesTypeOK', Backed', NEW f \in Files, MarkDirty(f),
         \A g \in Files : g # f => dirblkno'[g] = dirblkno[g] /\ filesize'[g] = filesize[g]
  PROVE  Durable'
  <1>1. dinode \in [Files -> [dirblkno : [Direct -> EntryType], size : Nat]]
    BY DEF InodesInv, InodesTypeOK, EntryType
  <1>2. dinode' = [dinode EXCEPT ![f] = [dirblkno |-> dirblkno'[f], size |-> filesize'[f]]]
    BY DEF MarkDirty
  <1>3. dinode'[f].dirblkno = dirblkno'[f] /\ dinode'[f].size = filesize'[f]
    BY <1>1, <1>2
  <1>4. ASSUME NEW i \in Direct, i < filesize'[f]
        PROVE  dirblkno'[f][i] > 0
    <2>1. i \in Idx(f) /\ i < FS_INODE_DIR_DBLKNO
      <3>1. filesize'[f] \in Nat /\ filesize'[f] <= MaxLen[f]
        BY DEF InodesTypeOK
      <3> QED
        BY <1>4, <3>1, Consts, SMTT(30) DEF Idx, Direct
    <2>2. Entry(f, i)' > 0
      BY <1>4, <2>1 DEF Backed
    <2> QED
      BY <2>1, <2>2 DEF Entry
  <1>5. \A g \in Files : g # f => dinode'[g] = dinode[g]
    BY <1>1, <1>2
  <1> SUFFICES ASSUME NEW g \in Files
               PROVE  /\ dinode'[g].size = filesize'[g]
                      /\ \A i \in Direct :
                           /\ dinode'[g].dirblkno[i] # 0 => dirblkno'[g][i] = dinode'[g].dirblkno[i]
                           /\ i < filesize'[g] => dinode'[g].dirblkno[i] > 0
    BY DEF Durable
  <1>6. CASE g = f
    BY <1>3, <1>4, <1>6
  <1>7. CASE g # f
    BY <1>5, <1>7, ZenonT(90) DEF InodesInv, Durable
  <1> QED
    BY <1>6, <1>7

\* A slot that gets a new entry unmarked still has what the table has.
LEMMA UnmarkedDurable ==
  ASSUME InodesInv, UNCHANGED <<dinode, filesize>>,
         \A g \in Files, i \in Direct : dirblkno'[g][i] = dirblkno[g][i] \/ dirblkno[g][i] = 0
  PROVE  Durable'
  BY ZenonT(90) DEF InodesInv, Durable

\* Where SetBlkno changes an entry of a slot, it had none.
LEMMA SlotStep ==
  ASSUME IndirectFromMkfs, InodesInv, NEW f \in Files, NEW n \in Idx(f), NEW b, SetBlkno(f, n, b),
         Entry(f, n) = 0
  PROVE  /\ \A g \in Files, i \in Direct : dirblkno'[g][i] = dirblkno[g][i] \/ dirblkno[g][i] = 0
         /\ \A g \in Files : g # f => dirblkno'[g] = dirblkno[g]
  <1>1. dirblkno \in [Files -> [Direct -> EntryType]]
    BY DEF InodesInv, InodesTypeOK, EntryType
  <1>2. CASE n < FS_INODE_DIR_DBLKNO
    <2>1. n \in Direct
      BY <1>2, Consts, SMTT(30) DEF Idx, Direct
    <2>2. dirblkno' = [dirblkno EXCEPT ![f][n] = b] /\ dirblkno[f][n] = 0
      BY <1>2 DEF SetBlkno, Entry
    <2> QED
      BY <1>1, <2>1, <2>2
  <1>3. CASE ~(n < FS_INODE_DIR_DBLKNO)
    <2>1. dirblkno' = dirblkno
      BY <1>3 DEF SetBlkno
    <2> QED
      BY <2>1
  <1> QED
    BY <1>2, <1>3

\* The type of the table after mark_dirty_locked
LEMMA MarkType ==
  ASSUME InodesTypeOK, NEW f \in Files, EntriesOK', filesize' \in [Files -> Nat],
         UNCHANGED dinode \/ MarkDirty(f)
  PROVE  dinode' \in [Files -> [dirblkno : [Direct -> EntryType], size : Nat]]
  <1>1. dinode \in [Files -> [dirblkno : [Direct -> EntryType], size : Nat]]
    BY DEF InodesTypeOK, EntryType
  <1>2. dirblkno'[f] \in [Direct -> EntryType] /\ filesize'[f] \in Nat
    BY DEF EntriesOK
  <1> DEFINE D == [dirblkno : [Direct -> EntryType], size : Nat]
             d == [dirblkno |-> dirblkno'[f], size |-> filesize'[f]]
  <1>3. d \in D
    BY <1>2
  <1>4. dinode' = dinode \/ dinode' = [dinode EXCEPT ![f] = d]
    BY DEF MarkDirty
  <1>5. dinode \in [Files -> D]
    BY <1>1
  <1> HIDE DEF D, d
  <1>6. dinode' \in [Files -> D]
    BY <1>3, <1>4, <1>5
  <1> QED
    BY <1>6 DEF D

\* A call that stops keeps types and table.
LEMMA StopStep ==
  ASSUME InodesInv, NEW f \in Files, NEW n \in Idx(f), NEW err \in {ENOSPC, EFAULT}, Stops(f, n, err),
         bitmap' \subseteq DataBlks, EntriesOK', blkdata' \in [DataBlks -> BlkVals], Backed',
         \A g \in Files, i \in Direct : dirblkno'[g][i] = dirblkno[g][i] \/ dirblkno[g][i] = 0,
         \A g \in Files : g # f => dirblkno'[g] = dirblkno[g]
  PROVE  InodesTypeOK' /\ Durable'
  <1>0. /\ InodesTypeOK /\ UNCHANGED <<filesize, lost>> /\ (UNCHANGED dinode \/ MarkDirty(f))
        /\ res' \in {err, 1}
    BY DEF InodesInv, Stops
  <1>1. filesize' \in [Files -> Nat] /\ \A g \in Files : filesize'[g] <= MaxLen[g]
    BY <1>0 DEF InodesTypeOK
  <1>2. dinode' \in [Files -> [dirblkno : [Direct -> EntryType], size : Nat]]
    BY <1>0, <1>1, MarkType
  <1>3. InodesTypeOK'
    BY <1>0, <1>1, <1>2 DEF InodesTypeOK, EntriesOK, EntryType
  <1>4. Durable'
    BY <1>0, <1>3, MarkDurable, UnmarkedDurable
  <1> QED
    BY <1>3, <1>4
-----------------------------------------------------------------------------
(* The steps: each keeps the invariant and is one of the abstract ones.    *)

\* What does not touch bitmap and entries keeps who has which block.
LEMMA EntriesStay ==
  ASSUME InodesInv, UNCHANGED <<bitmap, dirblkno, indirtab, lost>>
  PROVE  Owned' /\ Usage' /\ Beyond' /\ (UNCHANGED filesize => Backed')
  <1>1. Owned'
    BY SMTT(30) DEF InodesInv, Owned, Entry
  <1>2. Usage'
    BY DEF InodesInv, Usage, HasBlk, Entry
  <1>3. Beyond'
    BY DEF InodesInv, Beyond
  <1>4. UNCHANGED filesize => Backed'
    BY DEF InodesInv, Backed, Entry
  <1> QED
    BY <1>1, <1>2, <1>3, <1>4

\* A write that keeps who has which block keeps types, sizes and table.
LEMMA StoredStep ==
  ASSUME IndirectFromMkfs, InodesInv, NEW f \in Files, NEW n \in Idx(f), NEW b \in DataBlks,
         NEW v \in BlkVals, n <= filesize[f], Stored(f, n, b, v), bitmap' \subseteq DataBlks,
         EntriesOK', OneEntry(f, n, b), \A g \in Files : g # f => dirblkno'[g] = dirblkno[g]
  PROVE  InodesTypeOK' /\ Backed' /\ Durable'
  <1>0. InodesTypeOK /\ filesize \in [Files -> Nat] /\ MarkDirty(f) /\ UNCHANGED lost /\ res' = 1
        /\ filesize' = [filesize EXCEPT ![f] = IF n + 1 > @ THEN n + 1 ELSE @]
    BY DEF InodesInv, InodesTypeOK, Stored
  <1>1. n \in Nat /\ n + 1 <= MaxLen[f]
    BY Consts, SMTT(30) DEF Idx
  <1>2. filesize' \in [Files -> Nat] /\ \A g \in Files : filesize'[g] <= MaxLen[g]
    BY <1>0, <1>1, SMTT(30) DEF InodesTypeOK
  <1>3. blkdata' \in [DataBlks -> BlkVals]
    BY <1>0 DEF InodesTypeOK, Stored
  <1>4. dinode' \in [Files -> [dirblkno : [Direct -> EntryType], size : Nat]]
    BY <1>0, <1>2, MarkType
  <1>5. InodesTypeOK'
    BY <1>0, <1>2, <1>3, <1>4 DEF InodesTypeOK, EntriesOK, EntryType
  <1>6. /\ \A g \in Files : g # f => filesize'[g] = filesize[g]
        /\ filesize'[f] = IF n + 1 > filesize[f] THEN n + 1 ELSE filesize[f]
    BY <1>0
  <1>7. Backed'
    <2> SUFFICES ASSUME NEW g \in Files, NEW m \in Idx(g), m < filesize'[g]
                 PROVE  Entry(g, m)' > 0
      BY DEF Backed
    <2>1. CASE g = f /\ m = n
      <3>1. Entry(g, m)' = b
        BY <2>1 DEF OneEntry
      <3> QED
        BY <3>1, Consts
    <2>2. CASE ~(g = f /\ m = n)
      <3>1. Entry(g, m)' = Entry(g, m)
        BY <2>2 DEF OneEntry
      <3>2. m < filesize[g]
        <4>1. CASE g = f
          BY <1>0, <1>1, <1>6, <2>2, <4>1, Consts, SMTT(30) DEF Idx
        <4>2. CASE g # f
          BY <1>6, <4>2
        <4> QED
          BY <4>1, <4>2
      <3> QED
        BY <3>1, <3>2 DEF InodesInv, Backed
    <2> QED
      BY <2>1, <2>2
  <1>8. Durable'
    BY <1>0, <1>5, <1>6, <1>7, MarkDurable
  <1> QED
    BY <1>5, <1>7, <1>8

\* inode_write on a block the file has
LEMMA OverwriteStep ==
  ASSUME IndirectFromMkfs, InodesInv, NEW f \in Files, NEW n \in Idx(f), NEW v \in BlkVals,
         Overwrite(f, n, v)
  PROVE  InodesInv' /\ AbsFiles!Next
  <1> DEFINE b == Entry(f, n)
  <1>1. b \in DataBlks /\ b > 0
    BY EntryIs, Consts DEF InodesInv, Overwrite
  <1>2. \A g \in Files : \A m \in Idx(g) : ~(g = f /\ m = n) => Entry(g, m) # b
    BY <1>1 DEF InodesInv, Owned
  <1>3. OneEntry(f, n, b)
    BY DEF OneEntry, Overwrite, Entry
  <1>4. n <= filesize[f] /\ Stored(f, n, b, v)
    BY Consts, SMTT(30) DEF Overwrite, At, InodesInv, InodesTypeOK
  <1>5. Owned' /\ Usage' /\ Beyond'
    BY EntriesStay DEF Overwrite, Stored
  <1>8. /\ bitmap' \subseteq DataBlks /\ EntriesOK'
        /\ \A g \in Files : g # f => dirblkno'[g] = dirblkno[g]
    BY DEF InodesInv, InodesTypeOK, EntriesOK, EntryType, Overwrite
  <1> HIDE DEF b
  <1>6. InodesTypeOK' /\ Backed' /\ Durable'
    BY <1>1, <1>3, <1>4, <1>8, StoredStep
  <1>7. AbsFiles!Next
    BY <1>1, <1>2, <1>3, <1>4, <1>6, StoreRefines, SMTT(30)
  <1> QED
    BY <1>5, <1>6, <1>7 DEF InodesInv

\* inode_write with balloc
LEMMA ExtendStep ==
  ASSUME IndirectFromMkfs, InodesInv, NEW f \in Files, NEW n \in Idx(f), NEW v \in BlkVals,
         Extend(f, n, v)
  PROVE  InodesInv' /\ AbsFiles!Next
  <1> DEFINE b == FirstZero
  <1>1. b \in DataBlks
    BY FirstZeroIsFree DEF Extend
  <1>2. /\ EntriesOK' /\ Owned' /\ Usage' /\ Beyond' /\ bitmap' \subseteq DataBlks
        /\ OneEntry(f, n, b)
        /\ \A g \in Files : \A m \in Idx(g) : Entry(g, m) # b
    BY AllocStep DEF Extend, Stored
  <1>3. n <= filesize[f] /\ Stored(f, n, b, v)
    BY Consts, SMTT(30) DEF Extend, At, InodesInv, InodesTypeOK
  <1>6. \A g \in Files : g # f => dirblkno'[g] = dirblkno[g]
    BY SlotStep DEF Extend
  <1> HIDE DEF b
  <1>4. InodesTypeOK' /\ Backed' /\ Durable'
    BY <1>1, <1>2, <1>3, <1>6, StoredStep
  <1>5. AbsFiles!Next
    BY <1>1, <1>2, <1>3, <1>4, StoreRefines
  <1> QED
    BY <1>2, <1>4, <1>5 DEF InodesInv

\* inode_write whose copy from the program fails: the block it may have got for
\* that is empty, and stays in the slot.
LEMMA CopyinFailsStep ==
  ASSUME IndirectFromMkfs, InodesInv, NEW f \in Files, NEW n \in Idx(f), CopyinFails(f, n)
  PROVE  InodesInv' /\ AbsFiles!Next
  <1>0. InodesTypeOK /\ Stops(f, n, EFAULT) /\ UNCHANGED <<filesize, lost>>
    BY DEF InodesInv, CopyinFails, Stops
  <1>1. EFAULT \in Int /\ EFAULT < 0
    BY SMTT(30) DEF EFAULT
  <1>2. CASE UNCHANGED <<bitmap, dirblkno, indirtab, blkdata>>
    <2>1. Owned' /\ Usage' /\ Beyond' /\ Backed'
      BY <1>0, <1>2, EntriesStay
    <2>2. InodesTypeOK' /\ Durable'
      <3>1. bitmap' \subseteq DataBlks /\ EntriesOK' /\ blkdata' \in [DataBlks -> BlkVals]
        BY <1>0, <1>2 DEF InodesTypeOK, EntriesOK, EntryType
      <3> QED
        BY <1>0, <1>2, <2>1, <3>1, StopStep
    <2>3. \A g \in Files : \A m \in Idx(g) : Shown(g, m)' = Shown(g, m)
      BY <1>2 DEF Shown, Entry
    <2>4. AbsFiles!Next
      BY <1>0, <1>1, <2>3, StopRefines
    <2> QED
      BY <2>1, <2>2, <2>4 DEF InodesInv
  <1>3. CASE /\ Entry(f, n) = 0 /\ FreeBlks # {} /\ bbm_alloc(FirstZero)
             /\ SetBlkno(f, n, FirstZero) /\ blkdata' = [blkdata EXCEPT ![FirstZero] = ZeroBlk]
    <2> DEFINE b == FirstZero
    <2>1. b \in DataBlks /\ b > 0
      BY <1>3, FirstZeroIsFree, Consts
    <2>2. /\ EntriesOK' /\ Owned' /\ Usage' /\ Beyond' /\ bitmap' \subseteq DataBlks
          /\ OneEntry(f, n, b)
          /\ \A g \in Files : \A m \in Idx(g) : Entry(g, m) # b
      BY <1>0, <1>3, AllocStep
    <2>3. blkdata' = [blkdata EXCEPT ![b] = ZeroBlk] /\ blkdata \in [DataBlks -> BlkVals]
      BY <1>0, <1>3 DEF InodesTypeOK
    <2>7. /\ \A g \in Files, i \in Direct : dirblkno'[g][i] = dirblkno[g][i] \/ dirblkno[g][i] = 0
          /\ \A g \in Files : g # f => dirblkno'[g] = dirblkno[g]
      BY <1>3, SlotStep
    <2> HIDE DEF b
    <2>8. Backed'
      BY <1>0, <2>1, <2>2 DEF InodesInv, Backed, OneEntry
    <2>4. InodesTypeOK' /\ Durable'
      <3>1. blkdata' \in [DataBlks -> BlkVals]
        BY <2>1, <2>3, InodesAssumption
      <3> QED
        BY <1>0, <2>2, <2>7, <2>8, <3>1, StopStep
    <2>5. ASSUME NEW g \in Files, NEW m \in Idx(g)
          PROVE  Shown(g, m)' = Shown(g, m)
      <3>1. CASE g = f /\ m = n
        <4>1. Entry(g, m)' = b /\ Entry(g, m) = 0
          BY <1>3, <2>2, <3>1 DEF OneEntry
        <4> QED
          BY <2>1, <2>3, <4>1, SMTT(30) DEF Shown
      <3>2. CASE ~(g = f /\ m = n)
        <4>1. Entry(g, m)' = Entry(g, m) /\ Entry(g, m) # b
          BY <2>2, <3>2 DEF OneEntry
        <4>2. Entry(g, m) > 0 => Entry(g, m) \in DataBlks
          BY <1>0, EntryIs, Consts
        <4> QED
          BY <2>1, <2>3, <4>1, <4>2 DEF Shown
      <3> QED
        BY <3>1, <3>2
    <2>6. AbsFiles!Next
      BY <1>0, <1>1, <2>5, StopRefines
    <2> QED
      BY <2>2, <2>4, <2>6, <2>8 DEF InodesInv
  <1> QED
    BY <1>2, <1>3 DEF CopyinFails

\* inode_write on a full disk: the error that is stored is no block.
LEMMA DiskFullStep ==
  ASSUME IndirectFromMkfs, InodesInv, NEW f \in Files, NEW n \in Idx(f), DiskFull(f, n)
  PROVE  InodesInv' /\ AbsFiles!Next
  <1>0. /\ InodesTypeOK /\ UNCHANGED <<bitmap, filesize, blkdata, lost>>
        /\ Stops(f, n, ENOSPC) /\ SetBlkno(f, n, ENOSPC)
    BY DEF InodesInv, DiskFull, Stops
  <1>1. ENOSPC \in Int /\ ENOSPC < 0 /\ ENOSPC \in EntryType /\ ~(ENOSPC > 0) /\ Entry(f, n) = 0
    BY SMTT(30) DEF ENOSPC, EntryType, DiskFull
  <1>2. EntriesOK' /\ Beyond' /\ OneEntry(f, n, ENOSPC)
    BY <1>0, <1>1, SetBlknoStep
  <1>3. \A g \in Files : \A m \in Idx(g) :
          \/ Entry(g, m)' = Entry(g, m)
          \/ ~(Entry(g, m)' > 0) /\ ~(Entry(g, m) > 0)
    BY <1>1, <1>2, SMTT(30) DEF OneEntry
  <1>4. Owned' /\ Backed'
    <2>1. Owned'
      BY <1>3, SMTT(30) DEF InodesInv, Owned
    <2> QED
      BY <1>0, <1>3, <2>1 DEF InodesInv, Backed
  <1>5. Usage'
    BY <1>0, <1>3, SMTT(30) DEF InodesInv, Usage, HasBlk
  <1>6. InodesTypeOK' /\ Durable'
    <2>1. bitmap' \subseteq DataBlks /\ blkdata' \in [DataBlks -> BlkVals]
      BY <1>0 DEF InodesTypeOK
    <2>2. /\ \A g \in Files, i \in Direct : dirblkno'[g][i] = dirblkno[g][i] \/ dirblkno[g][i] = 0
          /\ \A g \in Files : g # f => dirblkno'[g] = dirblkno[g]
      BY <1>0, <1>1, SlotStep
    <2> QED
      BY <1>0, <1>2, <1>4, <2>1, <2>2, StopStep
  <1>7. \A g \in Files : \A m \in Idx(g) : Shown(g, m)' = Shown(g, m)
    BY <1>0, <1>3 DEF Shown
  <1>8. AbsFiles!Next
    BY <1>0, <1>1, <1>7, StopRefines
  <1> QED
    BY <1>2, <1>4, <1>5, <1>6, <1>8 DEF InodesInv

\* inode_write on an entry that holds the error
LEMMA StaleErrorStep ==
  ASSUME IndirectFromMkfs, InodesInv, NEW f \in Files, NEW n \in Idx(f), StaleError(f, n)
  PROVE  InodesInv' /\ AbsFiles!Next
  <1>0. InodesTypeOK /\ UNCHANGED <<bitmap, dirblkno, indirtab, filesize, blkdata, lost>>
    BY DEF InodesInv, StaleError, Stops
  <1>1. Entry(f, n) = ENOSPC /\ ENOSPC \in Int /\ ENOSPC < 0
    BY <1>0, EntryIs, Consts, SMTT(30) DEF StaleError, EntryType, ENOSPC
  <1>5. Stops(f, n, ENOSPC)
    BY <1>1 DEF StaleError
  <1>2. Owned' /\ Usage' /\ Beyond' /\ Backed'
    BY <1>0, EntriesStay
  <1>3. InodesTypeOK' /\ Durable'
    <2>1. bitmap' \subseteq DataBlks /\ EntriesOK' /\ blkdata' \in [DataBlks -> BlkVals]
      BY <1>0 DEF InodesTypeOK, EntriesOK, EntryType
    <2> QED
      BY <1>0, <1>2, <1>5, <2>1, StopStep
  <1>4. \A g \in Files : \A m \in Idx(g) : Shown(g, m)' = Shown(g, m)
    BY <1>0 DEF Shown, Entry
  <1>6. AbsFiles!Next
    BY <1>0, <1>1, <1>4, <1>5, StopRefines
  <1> QED
    BY <1>2, <1>3, <1>6 DEF InodesInv

\* inode_get reuses the slot of an inode: entries the table does not have are
\* gone, their blocks lost, and no file shows anything else than before.
LEMMA ReuseStep ==
  ASSUME IndirectFromMkfs, InodesInv, NEW f \in Files, Reuse(f)
  PROVE  InodesInv' /\ UNCHANGED <<AllContent, res >= 0>>
  <1> DEFINE tab == dinode[f].dirblkno
             gone == {dirblkno[f][i] : i \in Direct} \ ({tab[i] : i \in Direct} \cup {0, ENOSPC})
  <1>0. /\ InodesTypeOK
        /\ dirblkno \in [Files -> [Direct -> EntryType]]
        /\ dinode \in [Files -> [dirblkno : [Direct -> EntryType], size : Nat]]
        /\ filesize \in [Files -> Nat]
    BY DEF InodesInv, InodesTypeOK, EntryType
  <1>1. /\ dirblkno' = [dirblkno EXCEPT ![f] = tab]
        /\ filesize' = [filesize EXCEPT ![f] = dinode[f].size]
        /\ lost' = lost \cup gone
        /\ UNCHANGED <<bitmap, dinode, indirtab, blkdata, res>>
    BY DEF Reuse
  <1>2. filesize' = filesize
    BY <1>0, <1>1 DEF InodesInv, Durable
  <1>3. tab \in [Direct -> EntryType] /\ \A i \in Direct : tab[i] = dirblkno[f][i] \/ tab[i] = 0
    BY <1>0 DEF InodesInv, Durable
  <1>4. /\ dirblkno' \in [Files -> [Direct -> EntryType]]
        /\ \A g \in Files : g # f => dirblkno'[g] = dirblkno[g]
        /\ dirblkno'[f] = tab
    BY <1>0, <1>1, <1>3
  <1>5. ASSUME NEW g \in Files, NEW m \in Idx(g)
        PROVE  /\ g # f => Entry(g, m)' = Entry(g, m)
               /\ ~(m < FS_INODE_DIR_DBLKNO) => Entry(g, m)' = Entry(g, m)
               /\ g = f /\ m < FS_INODE_DIR_DBLKNO =>
                    /\ m \in Direct /\ Entry(g, m)' = tab[m] /\ Entry(g, m) = dirblkno[f][m]
               /\ Entry(g, m)' = Entry(g, m) \/ Entry(g, m)' = 0
    <2>1. m < FS_INODE_DIR_DBLKNO => m \in Direct
      BY Consts, SMTT(30) DEF Idx, Direct
    <2> QED
      BY <1>1, <1>3, <1>4, <2>1 DEF Entry
  <1>6. ASSUME NEW g \in Files, NEW m \in Idx(g), m < filesize[g]
        PROVE  Entry(g, m)' = Entry(g, m)
    <2>1. CASE g = f /\ m < FS_INODE_DIR_DBLKNO
      <3>1. m \in Direct /\ tab[m] > 0
        BY <1>5, <1>6, <2>1 DEF InodesInv, Durable
      <3>2. tab[m] # 0
        BY <3>1, SMTT(30)
      <3> QED
        BY <1>3, <1>5, <2>1, <3>1, <3>2
    <2> QED
      BY <1>5, <2>1
  <1>7. ASSUME NEW b \in DataBlks
        PROVE  b \in gone <=> \E m \in Idx(f) : Entry(f, m) = b /\ Entry(f, m)' = 0
    <2>0. b # 0 /\ b # ENOSPC /\ b > 0
      BY Consts, SMTT(30) DEF ENOSPC
    <2>1. ASSUME b \in gone
          PROVE  \E m \in Idx(f) : Entry(f, m) = b /\ Entry(f, m)' = 0
      <3>1. PICK i \in Direct : b = dirblkno[f][i]
        BY <2>1
      <3>2. i \in Idx(f) /\ i < FS_INODE_DIR_DBLKNO
        BY <2>0, <3>1, Consts, SMTT(30) DEF InodesInv, Beyond, Idx, Direct
      <3>3. tab[i] # b
        BY <2>1
      <3>4. Entry(f, i) = b /\ Entry(f, i)' = 0
        BY <1>3, <1>5, <3>1, <3>2, <3>3
      <3> QED
        BY <3>2, <3>4
    <2>2. ASSUME NEW m \in Idx(f), Entry(f, m) = b, Entry(f, m)' = 0
          PROVE  b \in gone
      <3>1. m < FS_INODE_DIR_DBLKNO /\ m \in Direct /\ tab[m] = 0 /\ b = dirblkno[f][m]
        BY <1>5, <2>0, <2>2
      <3>2. ASSUME NEW i \in Direct, tab[i] = b
            PROVE  FALSE
        <4>1. dirblkno[f][i] = b
          BY <1>3, <2>0, <3>2
        <4>2. i \in Idx(f) /\ i < FS_INODE_DIR_DBLKNO
          BY <2>0, <4>1, Consts, SMTT(30) DEF InodesInv, Beyond, Idx, Direct
        <4>3. Entry(f, i) = b
          BY <1>5, <4>1, <4>2
        <4>4. i = m
          BY <2>0, <2>2, <4>2, <4>3 DEF InodesInv, Owned
        <4> QED
          BY <2>0, <3>1, <3>2, <4>4
      <3> QED
        BY <2>0, <3>1, <3>2
    <2> QED
      BY <2>1, <2>2
  <1>8. gone \subseteq DataBlks
    <2> SUFFICES ASSUME NEW b \in gone
                 PROVE  b \in DataBlks
      OBVIOUS
    <2>1. PICK i \in Direct : b = dirblkno[f][i]
      OBVIOUS
    <2>2. b \in EntryType
      BY <1>0, <2>1, ZenonT(90)
    <2>3. b # 0 /\ b # ENOSPC
      OBVIOUS
    <2> QED
      BY <2>2, <2>3 DEF EntryType
  <1> HIDE DEF gone, tab
  <1>9. Owned'
    <2>1. \A g \in Files : \A m \in Idx(g) : Entry(g, m)' = Entry(g, m) \/ ~(Entry(g, m)' > 0)
      BY <1>5, SMTT(30)
    <2> QED
      BY <2>1, SMTT(30) DEF InodesInv, Owned
  <1>10. Usage'
    <2> SUFFICES ASSUME NEW b \in DataBlks
                 PROVE  /\ b \in bitmap' <=> b \in Reserved \/ HasBlk(b)' \/ b \in lost'
                        /\ b \in lost' => b \notin Reserved /\ ~HasBlk(b)'
      BY DEF Usage
    <2>0. /\ b > 0 /\ b # 0
          /\ b \in bitmap <=> b \in Reserved \/ HasBlk(b) \/ b \in lost
          /\ b \in lost => b \notin Reserved /\ ~HasBlk(b)
      BY Consts, SMTT(30) DEF InodesInv, Usage
    <2>1. HasBlk(b)' => HasBlk(b) /\ b \notin gone
      <3> SUFFICES ASSUME NEW g \in Files, NEW k \in Idx(g), b = Entry(g, k)'
                   PROVE  HasBlk(b) /\ b \notin gone
        BY DEF HasBlk
      <3>1. Entry(g, k) = b
        BY <1>5, <2>0
      <3>2. ASSUME b \in gone
            PROVE  FALSE
        <4>1. PICK m \in Idx(f) : Entry(f, m) = b /\ Entry(f, m)' = 0
          BY <1>7, <3>2
        <4>2. g = f /\ k = m
          BY <2>0, <3>1, <4>1, ZenonT(90) DEF InodesInv, Owned
        <4> QED
          BY <2>0, <4>1, <4>2
      <3> QED
        BY <2>0, <3>1, <3>2 DEF HasBlk
    <2>2. HasBlk(b) => HasBlk(b)' \/ b \in gone
      <3> SUFFICES ASSUME NEW g \in Files, NEW k \in Idx(g), b = Entry(g, k)
                   PROVE  HasBlk(b)' \/ b \in gone
        BY DEF HasBlk
      <3>1. CASE Entry(g, k)' = Entry(g, k)
        BY <2>0, <3>1 DEF HasBlk
      <3>2. CASE Entry(g, k)' # Entry(g, k)
        BY <1>5, <1>7, <3>2
      <3> QED
        BY <3>1, <3>2
    <2>3. b \in gone => HasBlk(b) /\ b \notin Reserved
      BY <1>7, <2>0 DEF HasBlk, InodesInv, Owned
    <2> QED
      BY <1>1, <2>0, <2>1, <2>2, <2>3
  <1>11. InodesTypeOK'
    BY <1>0, <1>1, <1>2, <1>4, <1>8 DEF InodesTypeOK, EntryType
  <1>12. Beyond'
    <2>1. \A g \in Files : \A i \in Direct : i >= MaxLen[g] => dirblkno'[g][i] = 0
      BY <1>3, <1>4, ZenonT(90) DEF InodesInv, Beyond
    <2> QED
      BY <1>1, <2>1 DEF InodesInv, Beyond
  <1>13. Backed'
    BY <1>2, <1>6 DEF InodesInv, Backed
  <1>14. Durable'
    BY <1>1, <1>2, <1>3, <1>4 DEF InodesInv, Durable, tab
  <1>15. AllContent' = AllContent
    <2>1. \A g \in Files : \A m \in Idx(g) : m < filesize[g] => Shown(g, m)' = Shown(g, m)
      BY <1>1, <1>6 DEF Shown
    <2> QED
      BY <1>0, <1>2, <2>1, SameContent
  <1> QED
    BY <1>1, <1>9, <1>10, <1>11, <1>12, <1>13, <1>14, <1>15 DEF InodesInv
-----------------------------------------------------------------------------
\* A fresh disk has no data blocks in use but the indirect ones.
LEMMA InitInv ==
  ASSUME IndirectFromMkfs, InodesInit
  PROVE  InodesInv /\ AbsFiles!Init
  <1>1. InodesTypeOK
    <2>1. /\ dirblkno \in [Files -> [Direct -> EntryType]]
          /\ indirtab \in [Reserved \cup {0} -> [Indirect -> EntryType]]
          /\ dinode \in [Files -> [dirblkno : [Direct -> EntryType], size : Nat]]
      BY DEF InodesInit, EntryType
    <2> QED
      BY <2>1, Consts, InodesAssumption, SMTT(30) DEF InodesInit, InodesTypeOK, EntryType
  <1>2. Beyond
    BY Consts DEF InodesInit, Beyond
  <1>3. ASSUME NEW f \in Files, NEW n \in Idx(f)
        PROVE  Entry(f, n) = 0
    <2>1. CASE n < FS_INODE_DIR_DBLKNO
      <3>1. n \in Direct
        BY <2>1, Consts, SMTT(30) DEF Idx, Direct
      <3> QED
        BY <2>1, <3>1 DEF InodesInit, Entry
    <2>2. CASE ~(n < FS_INODE_DIR_DBLKNO)
      <3>1. n - FS_INODE_DIR_DBLKNO \in Indirect
        BY <2>2, Consts, SMTT(30) DEF IndirectFromMkfs, Idx, Indirect
      <3> QED
        BY <2>2, <3>1, Consts DEF InodesInit, Entry
    <2> QED
      BY <2>1, <2>2
  <1>4. Owned /\ Usage /\ Backed
    <2>1. Owned /\ Usage
      BY <1>3, Consts, SMTT(30) DEF Owned, Usage, HasBlk, InodesInit
    <2>2. ASSUME NEW f \in Files, NEW n \in Idx(f)
          PROVE  ~(n < filesize[f])
      BY Consts, SMTT(30) DEF InodesInit, Idx
    <2> QED
      BY <2>1, <2>2 DEF Backed
  <1>6. Durable
    <2>1. \A f \in Files, i \in Direct : ~(i < filesize[f])
      BY Consts, SMTT(30) DEF InodesInit, Direct
    <2> QED
      BY <2>1 DEF InodesInit, Durable
  <1>5. AbsFiles!Init
    <2>1. \A f \in Files : AllContent[f] = <<>>
      BY SMTT(30) DEF AllContent, Content, InodesInit
    <2>2. (res >= 0) = TRUE
      BY SMTT(30) DEF InodesInit
    <2> QED
      BY <2>1, <2>2 DEF AbsFiles!Init, AllContent, Content
  <1> QED
    BY <1>1, <1>2, <1>4, <1>5, <1>6 DEF InodesInv

\* Every step keeps the invariant and is a step of independent files, or none.
LEMMA Inductive ==
  ASSUME IndirectFromMkfs, InodesInv, [InodesNext]_inodevars
  PROVE  InodesInv' /\ [AbsFiles!Next]_<<AllContent, res >= 0>>
  <1>1. CASE UNCHANGED inodevars
    <2>1. Owned' /\ Usage' /\ Beyond' /\ Backed'
      BY <1>1, EntriesStay DEF inodevars
    <2>4. Durable'
      BY <1>1 DEF inodevars, InodesInv, Durable
    <2>2. InodesTypeOK'
      BY <1>1 DEF inodevars, InodesInv, InodesTypeOK
    <2>3. UNCHANGED <<AllContent, res >= 0>>
      BY <1>1 DEF inodevars, AllContent, Content, Shown, Entry
    <2> QED
      BY <2>1, <2>2, <2>3, <2>4 DEF InodesInv
  <1>2. ASSUME NEW f \in Files, Write(f)
        PROVE  InodesInv' /\ AbsFiles!Next
    <2>1. PICK n \in Idx(f), v \in BlkVals : Overwrite(f, n, v) \/ Extend(f, n, v)
      BY <1>2 DEF Write, Idx
    <2> QED
      BY <2>1, OverwriteStep, ExtendStep
  <1>3. ASSUME NEW f \in Files, Fail(f)
        PROVE  InodesInv' /\ AbsFiles!Next
    <2>1. PICK n \in Idx(f) : CopyinFails(f, n) \/ DiskFull(f, n) \/ StaleError(f, n)
      BY <1>3 DEF Fail, Idx
    <2> QED
      BY <2>1, CopyinFailsStep, DiskFullStep, StaleErrorStep
  <1>4. ASSUME NEW f \in Files, Reuse(f)
        PROVE  InodesInv' /\ UNCHANGED <<AllContent, res >= 0>>
    BY <1>4, ReuseStep
  <1> QED
    BY <1>1, <1>2, <1>3, <1>4 DEF InodesNext

\* The invariant holds in every state.
LEMMA InvAlways == IndirectFromMkfs /\ InodesSpec => []InodesInv
  <1> SUFFICES ASSUME IndirectFromMkfs
               PROVE  InodesSpec => []InodesInv
    OBVIOUS
  <1>1. InodesInit => InodesInv
    BY InitInv
  <1>2. InodesInv /\ [InodesNext]_inodevars => InodesInv'
    BY Inductive
  <1> QED
    BY <1>1, <1>2, PTL DEF InodesSpec

\* On a disk of any size, with any number of files, balloc is exact: a block is
\* marked in the bitmap if and only if it is an indirect block, or one file has
\* it, at one place, or it is one that a failing write left in a slot of the inode
\* cache that was reused; and every block below a file's size is there.
THEOREM AllocationCorrect == IndirectFromMkfs /\ InodesSpec => []AllocationIsExact
  <1> SUFFICES ASSUME IndirectFromMkfs
               PROVE  InodesSpec => []AllocationIsExact
    OBVIOUS
  <1>1. InodesInv => AllocationIsExact
    BY Forms DEF InodesInv, AllocationIsExact
  <1> QED
    BY <1>1, InvAlways, PTL

\* Files are independent sequences of blocks: inode_write of one changes no other,
\* a write that reports an error has written nothing, and reuse of slots of the
\* inode cache changes no file, although failing writes leave them unmarked.
THEOREM FilesCorrect == IndirectFromMkfs /\ InodesSpec => ImplementsFiles
  <1> SUFFICES ASSUME IndirectFromMkfs
               PROVE  InodesSpec => ImplementsFiles
    OBVIOUS
  <1>1. InodesInit => AbsFiles!Init
    BY InitInv
  <1>2. InodesInv /\ [InodesNext]_inodevars
          => [AbsFiles!Next]_<<[f \in Files |-> [i \in 1..filesize[f] |-> Shown(f, i - 1)]], res >= 0>>
    BY Inductive DEF AllContent, Content
  <1> QED
    BY <1>1, <1>2, InvAlways, PTL DEF InodesSpec, ImplementsFiles, AbsFiles!Spec
=============================================================================
