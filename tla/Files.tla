------------------------------- MODULE Files --------------------------------
(***************************************************************************)
(* Open files and paths: the walk of fs_inode_from_path through            *)
(* directories, creating what is missing (core/fs/fs.c); the table of open *)
(* files (core/fs/file.c); and the descriptors of tasks across open,       *)
(* close, fork, clone, exec and exit (sys_io.c, sys_proc.c, task.c).       *)
(*                                                                         *)
(* A system call runs until it waits for the mutex of an inode or for the  *)
(* disk, or wakes a waiter as it unlocks one; each action runs from one    *)
(* such place to the next.                                                 *)
(***************************************************************************)
EXTENDS InodeCache

CONSTANTS
  Careful,     \* no task walks a path or clones its files while another walks one, and
               \* none writes to a directory
  Names,
  LongNames,   \* the names that do not fit MAXNAME
  NoName,      \* a token of NULL
  Paths,       \* sequences of names
  Console,     \* the path of /dev/console
  Builtin,     \* the name of the file mkfs puts in the image
  FSlots,      \* 0 .. FILE_MAX_NUM - 1
  NoFile,
  NOFILE,
  RefMod,      \* 2^32, of struct file's refcnt
  MaxEntries,  \* FS_MAX_FILE_SIZE, in entries of a directory
  MaxSize,     \* FS_MAX_FILE_SIZE, in writes
  MaxFaults    \* bound: how often the disk fails

ASSUME FilesAssumption ==
  /\ Careful \in BOOLEAN /\ LongNames \subseteq Names /\ NoName \notin Names
  /\ Paths \subseteq Seq(Names) /\ Console \in Seq(Names) /\ Builtin \in Names
  /\ FSlots \subseteq Nat /\ NoFile \notin FSlots
  /\ {NOFILE, RefMod, MaxEntries, MaxSize, MaxFaults} \subseteq Nat

VARIABLES
  ftable,   \* refcnt, i, off of each open file, and whether it is a device
  fdtable,
  dents,    \* the entries in the data of each directory
  holder,   \* strtok's static: the tokens that follow
  faults,
  pc, loc,  \* of each task: where its system call is, and its locals
  dead      \* the tasks exit_group destroyed; what they held is kept for the properties

filesvars == <<icacheVars, ftable, fdtable, dents, holder, faults, pc, loc, dead>>

Fds == 0..(NOFILE - 1)
Goto(t, s) == pc' = [pc EXCEPT ![t] = s]
NoLocals ==
  [call |-> "none", path |-> <<>>, cur |-> NoSlot, nxt |-> NoSlot, tok |-> NoName, ntok |-> NoName,
   id |-> NoIno, creat |-> FALSE, f |-> NoFile, put |-> NoSlot]

Calls == {"open", "exec", "mknod"}

\* A path is walked: the token may be needed again, and the struct file that was
\* found is not marked
Walking(t) ==
  /\ t \notin dead /\ loc[t].call \in Calls
  /\ pc[t] \notin {"iolock", "io", "execput"}

Alone(t) == \A u \in Tasks \ {t} : ~Walking(u)

Fault == faults < MaxFaults /\ faults' = faults + 1
-----------------------------------------------------------------------------
(* strtok.                                                                 *)

Token(l) == IF l = <<>> THEN NoName ELSE Head(l)
Rest(l) == IF l = <<>> THEN <<>> ELSE Tail(l)

(* What a call does when inode_put, or the loop around it, is done: the    *)
(* next state of the task's locals l, of its pc and of what they read.     *)

\* A struct file that is free: what it held is not read before it is set again.
NewFile == [refcnt |-> 0, i |-> NoSlot, off |-> 0, dev |-> FALSE]

\* f without one reference
Dropped(f) == IF f.refcnt = 1 THEN NewFile ELSE [f EXCEPT !.refcnt = (@ - 1) % RefMod]

FreeFiles == {f \in FSlots : ftable[f].refcnt = 0}

\* file_alloc
file_alloc == IF FreeFiles = {} THEN NoFile ELSE CHOOSE f \in FreeFiles : \A g \in FreeFiles : f <= g

\* inode_put(s) is the next statement; the call ends after it
PutAndEnd(t, l, s) ==
  /\ loc' = [loc EXCEPT ![t] = [l EXCEPT !.put = s, !.call = "end"]]
  /\ Goto(t, "put")

\* The top of the loop of fs_inode_from_path, and what follows it in fs_mknod
\* or file_open
Walk(t, l) ==
  \/ /\ l.tok # NoName
     /\ loc' = [loc EXCEPT ![t] = [l EXCEPT !.ntok = Token(holder), !.nxt = NoSlot]]
     /\ holder' = Rest(holder)
     /\ Goto(t, "lookup")
  \/ /\ l.tok = NoName /\ UNCHANGED holder
     /\ LET f == IF l.call = "mknod" THEN NoFile ELSE file_alloc
        IN \/ /\ l.call = "mknod" \/ f # NoFile
              /\ loc' = [loc EXCEPT ![t] = [l EXCEPT !.f = f]]
              /\ Goto(t, "flock")
           \/ l.call # "mknod" /\ f = NoFile /\ PutAndEnd(t, l, l.cur)

\* The system call returns.
Return(t) ==
  /\ loc' = [loc EXCEPT ![t] = NoLocals]
  /\ Goto(t, "idle")

AfterPut(t) ==
  \/ /\ loc[t].call \in {"open", "exec", "mknod"}
     /\ Walk(t, [loc[t] EXCEPT !.cur = loc[t].nxt, !.tok = loc[t].ntok])
  \/ loc[t].call = "end" /\ Return(t) /\ UNCHANGED holder
  \/ loc[t].call = "undo" /\ Goto(t, "ifree") /\ UNCHANGED <<loc, holder>>
  \/ loc[t].call = "exit" /\ Goto(t, "exit") /\ UNCHANGED <<loc, holder>>
-----------------------------------------------------------------------------
(* fs_inode_from_path.                                                     *)

\* The call, up to the first dir_lookup
Open(t, call, p, creat) ==
  /\ pc[t] = IF call = "mknod" THEN "boot" ELSE "idle"
  /\ Careful => Alone(t)
  /\ \E s \in ISlots :
       /\ inode_get(FS_ROOT_INODE_ID, s)
       /\ LET l == [NoLocals EXCEPT !.call = call, !.path = p, !.creat = creat, !.cur = s,
                                   !.tok = Token(p)]
          IN \/ /\ p # <<>>
                /\ loc' = [loc EXCEPT ![t] = [l EXCEPT !.ntok = Token(Rest(p))]]
                /\ holder' = Rest(Rest(p))
                /\ Goto(t, "lookup")
             \/ p = <<>> /\ Walk(t, l)
  /\ UNCHANGED <<m, itab, ibm, ftable, fdtable, dents, faults>>

\* inode_lock by a call at a that goes on at b, or puts its inode and fails
Lock(t, a, s, b) ==
  /\ pc[t] = a /\ inode_lock(t, s) /\ Goto(t, b)
  /\ UNCHANGED <<ino, refcnt, icache, itab, ibm, ftable, fdtable, dents, holder, faults, loc>>

LockFails(t) ==
  /\ pc[t] \in {"lookup", "flock"} /\ inode_lock_fails(loc[t].cur)
  /\ Fault /\ PutAndEnd(t, loc[t], loc[t].cur)
  /\ UNCHANGED <<icacheVars, ftable, fdtable, dents, holder>>

\* Faulty dir_lookup: the entry of any name is taken
entries_any(s, n) == 1..content[s].size

Entries(s, n) == {i \in 1..content[s].size : dents[ino[s]][i].name = n}

\* The rest of dir_lookup, which holds the directory
dir_lookup(t) ==
  LET l == loc[t]
      hit == content[l.cur].type = "dir" /\ Entries(l.cur, l.tok) # {}
      miss == content[l.cur].type = "dir" /\ Entries(l.cur, l.tok) = {}
  IN /\ pc[t] = "scan" /\ inode_unlock(l.cur)
     /\ \/ /\ hit
           /\ LET i == CHOOSE i \in Entries(l.cur, l.tok) : \A j \in Entries(l.cur, l.tok) : i <= j
              IN \E s \in ISlots :
                   /\ inode_get(dents[ino[l.cur]][i].inum, s)
                   /\ loc' = [loc EXCEPT ![t].nxt = s, ![t].put = l.cur]
           /\ Goto(t, "put")
        \/ /\ miss /\ l.creat
           /\ Goto(t, "ialloc") /\ UNCHANGED <<slot, icache, loc>>
        \/ /\ ~hit /\ ~(miss /\ l.creat)
           /\ PutAndEnd(t, l, l.cur) /\ UNCHANGED <<slot, icache>>
     /\ UNCHANGED <<itab, ibm, ftable, fdtable, dents, holder, faults>>

\* inode_create: ibm_alloc and inode_get, or -ENOSPC
inode_create(t) ==
  /\ pc[t] = "ialloc"
  /\ \/ \E id \in Inos, s \in ISlots :
          /\ ibm_alloc(id) /\ inode_get(id, s)
          /\ loc' = [loc EXCEPT ![t].nxt = s, ![t].id = id] /\ Goto(t, "ilock")
     \/ /\ FreeInos = {} /\ PutAndEnd(t, loc[t], loc[t].cur)
        /\ UNCHANGED <<slot, icache, ibm>>
  /\ UNCHANGED <<m, itab, ftable, fdtable, dents, holder, faults>>

\* inode_create gives the created inode up: inode_put, ibm_free ...
GiveUp(t) ==
  /\ loc' = [loc EXCEPT ![t].put = loc[t].nxt, ![t].call = "undo"]
  /\ Goto(t, "put")

CreatedLockFails(t) ==
  /\ pc[t] = "ilock" /\ inode_lock_fails(loc[t].nxt) /\ Fault /\ GiveUp(t)
  /\ UNCHANGED <<icacheVars, ftable, fdtable, dents, holder>>

\* ... and fs_inode_from_path fails.
FreeCreated(t) ==
  /\ pc[t] = "ifree" /\ ibm_free(loc[t].id) /\ PutAndEnd(t, loc[t], loc[t].cur)
  /\ UNCHANGED <<slot, m, icache, itab, ftable, fdtable, dents, holder, faults>>

LeafType(l) == IF l.ntok # NoName THEN "dir" ELSE IF l.call = "mknod" THEN "device" ELSE "file"

\* The rest of inode_create, and dir_add_entry up to inode_lock.  Nothing drops
\* the reference to the created inode when its name is too long.
FillCreated(t) ==
  LET l == loc[t]
      c == [content[l.nxt] EXCEPT !.type = LeafType(l), !.nblink = 1]
  IN /\ pc[t] = "ifill" /\ inode_unlock(l.nxt)
     /\ \/ /\ mark_dirty_locked(l.nxt, c) /\ UNCHANGED <<valid, faults>>
           /\ \/ l.tok \notin LongNames /\ Goto(t, "addlock") /\ UNCHANGED loc
              \/ l.tok \in LongNames /\ PutAndEnd(t, l, l.cur)
        \/ /\ Fault /\ valid' = [valid EXCEPT ![l.nxt] = FALSE]
           /\ content' = [content EXCEPT ![l.nxt] = c] /\ UNCHANGED itab
           /\ GiveUp(t)
     /\ UNCHANGED <<ino, refcnt, icache, ibm, ftable, fdtable, dents, holder>>

\* The rest of dir_add_entry: the write fails, or is done; the inode table may
\* not follow it.
dir_add_entry(t) ==
  LET l == loc[t]
      d == ino[l.cur]
      c == [content[l.cur] EXCEPT !.size = @ + 1]
  IN /\ pc[t] = "addent" /\ inode_unlock(l.cur)
     /\ \/ /\ \/ c.size > MaxEntries /\ UNCHANGED faults
              \/ c.size <= MaxEntries /\ Fault
           /\ PutAndEnd(t, l, l.cur) /\ UNCHANGED <<content, itab, dents>>
        \/ /\ c.size <= MaxEntries
           /\ dents' = [dents EXCEPT ![d] =
                 Append(SubSeq(@, 1, c.size - 1), [name |-> l.tok, inum |-> l.id])]
           /\ \/ mark_dirty_locked(l.cur, c) /\ UNCHANGED faults
              \/ Fault /\ content' = [content EXCEPT ![l.cur] = c] /\ UNCHANGED itab
           /\ loc' = [loc EXCEPT ![t].put = l.cur] /\ Goto(t, "put")
     /\ UNCHANGED <<ino, refcnt, valid, icache, ibm, ftable, fdtable, holder>>
-----------------------------------------------------------------------------
(* inode_put.                                                              *)

inode_put(t) ==
  /\ pc[t] = "put"
  /\ \/ /\ refcnt[loc[t].put] # 1 /\ inode_put_drop(loc[t].put) /\ AfterPut(t)
     \/ /\ refcnt[loc[t].put] = 1 /\ Goto(t, "putlock") /\ UNCHANGED <<refcnt, loc, holder>>
  /\ UNCHANGED <<ino, valid, content, m, icache, itab, ibm, ftable, fdtable, dents, faults>>

PutLock(t) ==
  /\ pc[t] = "putlock" /\ inode_put_last(loc[t].put) /\ Goto(t, "putdrop")
  /\ UNCHANGED <<ino, refcnt, m, icache, ftable, fdtable, dents, holder, faults, loc>>

PutDrop(t) ==
  /\ pc[t] = "putdrop" /\ inode_put_drop(loc[t].put) /\ AfterPut(t)
  /\ UNCHANGED <<ino, valid, content, m, icache, itab, ibm, ftable, fdtable, dents, faults>>
-----------------------------------------------------------------------------
(* struct file.                                                            *)

\* file_open under the inode's mutex; fs_mknod under it, and its inode_put
OpenLocked(t) ==
  LET l == loc[t]
  IN /\ pc[t] = "fops" /\ inode_unlock(l.cur)
     /\ \/ /\ l.call = "mknod" /\ mark_dirty_locked(l.cur, content[l.cur])
           /\ PutAndEnd(t, l, l.cur) /\ UNCHANGED ftable
        \/ /\ l.call # "mknod"
           /\ ftable' = [ftable EXCEPT ![l.f].dev = content[l.cur].type = "device"]
           /\ Goto(t, "fset") /\ UNCHANGED <<content, itab, loc>>
     /\ UNCHANGED <<ino, refcnt, valid, icache, ibm, fdtable, dents, holder, faults>>

FreeFds(t) == {d \in Fds : fdtable[t][d] = NoFile}

\* The rest of file_open.  sys_open gives the file a descriptor, or puts it
\* again; sys_exec reads it.
file_open(t) ==
  LET l == loc[t]
      opened == [ftable[l.f] EXCEPT !.refcnt = 1, !.i = l.cur, !.off = 0]
  IN /\ pc[t] = "fset"
     /\ \/ /\ l.call = "exec" /\ ftable' = [ftable EXCEPT ![l.f] = opened]
           /\ Goto(t, "iolock") /\ UNCHANGED <<fdtable, loc>>
        \/ /\ l.call = "open" /\ FreeFds(t) # {}
           /\ ftable' = [ftable EXCEPT ![l.f] = opened]
           /\ LET d == CHOOSE d \in FreeFds(t) : \A e \in FreeFds(t) : d <= e
              IN fdtable' = [fdtable EXCEPT ![t][d] = l.f]
           /\ Return(t)
        \/ /\ l.call = "open" /\ FreeFds(t) = {}
           /\ ftable' = [ftable EXCEPT ![l.f] = Dropped(opened)]
           /\ PutAndEnd(t, l, l.cur) /\ UNCHANGED fdtable
     /\ UNCHANGED <<icacheVars, dents, holder, faults>>

\* file_put, then what is left of the call
file_put(t, f, call) ==
  /\ ftable' = [ftable EXCEPT ![f] = Dropped(@)]
  /\ \/ /\ ftable[f].refcnt = 1
        /\ loc' = [loc EXCEPT ![t] = [NoLocals EXCEPT !.call = call, !.put = ftable[f].i]]
        /\ Goto(t, "put")
     \/ /\ ftable[f].refcnt # 1
        /\ loc' = [loc EXCEPT ![t] = [NoLocals EXCEPT !.call = IF call = "exit" THEN call ELSE @]]
        /\ Goto(t, IF call = "exit" THEN "exit" ELSE "idle")

\* sys_close
sys_close(t, d) ==
  /\ pc[t] = "idle" /\ fdtable[t][d] # NoFile
  /\ fdtable' = [fdtable EXCEPT ![t][d] = NoFile]
  /\ file_put(t, fdtable[t][d], "end")
  /\ UNCHANGED <<icacheVars, dents, holder, faults>>

\* sys_read, sys_write and the SEEK_END of sys_seek, up to inode_lock
Io(t, call, d) ==
  /\ pc[t] = "idle" /\ fdtable[t][d] # NoFile /\ ~ftable[fdtable[t][d]].dev
  /\ Careful /\ call = "write" => content[ftable[fdtable[t][d]].i].type = "file"
  /\ loc' = [loc EXCEPT ![t].call = call, ![t].f = fdtable[t][d],
                        ![t].cur = ftable[fdtable[t][d]].i]
  /\ Goto(t, "iolock")
  /\ UNCHANGED <<icacheVars, ftable, fdtable, dents, holder, faults>>

\* file_reader, file_writer and file_seek under the inode's mutex
IoLocked(t) ==
  LET l == loc[t]
      f == ftable[l.f]
      size == content[l.cur].size
      done == CASE l.call = "write" -> f.off <= size /\ f.off < MaxSize
                [] OTHER -> f.off < size
      off == IF l.call = "seek" THEN size ELSE IF done THEN f.off + 1 ELSE f.off
  IN /\ pc[t] = "io" /\ inode_unlock(l.cur)
     /\ IF l.call = "write" /\ done
        THEN mark_dirty_locked(l.cur, [content[l.cur] EXCEPT !.size = IF off > @ THEN off ELSE @])
        ELSE UNCHANGED <<content, itab>>
     /\ IF l.call = "write" /\ done /\ content[l.cur].type = "dir"
        THEN \E e \in [name : Names, inum : Inos] :
               dents' = [dents EXCEPT ![ino[l.cur]] =
                  SubSeq(@, 1, f.off) \o <<e>> \o SubSeq(@, f.off + 2, size)]
        ELSE UNCHANGED dents
     /\ ftable' = [ftable EXCEPT ![l.f].off = off]
     /\ \/ l.call = "exec" /\ Goto(t, "execput") /\ UNCHANGED loc
        \/ l.call # "exec" /\ Return(t)
     /\ UNCHANGED <<ino, refcnt, valid, icache, ibm, fdtable, holder, faults>>

\* sys_exec, after task_exec
ExecPut(t) ==
  /\ pc[t] = "execput" /\ file_put(t, loc[t].f, "end")
  /\ UNCHANGED <<icacheVars, fdtable, dents, holder, faults>>

\* SEEK_SET to the start
SeekSet(t, d) ==
  /\ pc[t] = "idle" /\ fdtable[t][d] # NoFile
  /\ ftable[fdtable[t][d]].off # 0
  /\ ftable' = [ftable EXCEPT ![fdtable[t][d]].off = 0]
  /\ UNCHANGED <<icacheVars, fdtable, dents, holder, faults, pc, loc>>
-----------------------------------------------------------------------------
(* The descriptors of a new and of an ending task.                         *)

\* One round of the loop of copy_fds, on the table, the references to inodes,
\* the list of slots and the child's descriptors
CopyFd(clone, a, f) ==
  LET empty == {g \in FSlots : a.ft[g].refcnt = 0}
      g == CHOOSE g \in empty : \A h \in empty : g <= h
      i == a.ft[f].i
  IN CASE f = NoFile \/ (clone /\ empty = {}) -> [a EXCEPT !.fds = Append(@, NoFile)]
       [] f # NoFile /\ clone /\ empty # {} ->
            [ft |-> [a.ft EXCEPT ![g] = [a.ft[f] EXCEPT !.refcnt = 1]],
             refs |-> [a.refs EXCEPT ![i] = @ + 1],
             list |-> ToFront(a.list, i),
             fds |-> Append(a.fds, g)]
       [] OTHER -> [a EXCEPT !.ft[f].refcnt = (@ + 1) % RefMod, !.fds = Append(@, f)]

\* Faulty copy_fds: the child's descriptors are not counted
copy_uncounted(t, u, clone) ==
  /\ fdtable' = [fdtable EXCEPT ![u] = fdtable[t]]
  /\ UNCHANGED <<ftable, refcnt, icache>>

\* copy_fds: an inode that is cloned is in the cache, its file refers to it
copy_fds(t, u, clone) ==
  LET list == [n \in 1..NOFILE |-> fdtable[t][n - 1]]
      a == FoldLeft(LAMBDA acc, f : CopyFd(clone, acc, f),
                    [ft |-> ftable, refs |-> refcnt, list |-> icache, fds |-> <<>>], list)
  IN /\ ftable' = a.ft /\ refcnt' = a.refs /\ icache' = a.list
     /\ fdtable' = [fdtable EXCEPT ![u] = [d \in Fds |-> a.fds[d + 1]]]

\* task_clone, as far as files go: clone is CLONE_FILES
Fork(t, u, clone) ==
  /\ pc[t] = "idle" /\ pc[u] = "none" /\ (Careful /\ clone => Alone(t))
  /\ copy_fds(t, u, clone) /\ Goto(u, "idle")
  /\ UNCHANGED <<ino, valid, content, m, itab, ibm, dents, holder, faults, loc>>

\* sys_exit, and sys_exit_group for a group D of other threads: task_destroy puts
\* nothing of what a thread has, wherever it is.
Exit(t, D) ==
  /\ pc[t] = "idle" /\ Goto(t, "exit")
  /\ D \subseteq {u \in Tasks \ dead : u # t /\ pc[u] \notin {"none", "boot"}}
  /\ dead' = dead \cup D
  /\ UNCHANGED <<icacheVars, ftable, fdtable, dents, holder, faults, loc>>

\* release_fds in task_zombify
release_fds(t) ==
  /\ pc[t] = "exit"
  /\ \/ \E d \in Fds :
          /\ fdtable[t][d] # NoFile /\ \A e \in Fds : e < d => fdtable[t][e] = NoFile
          /\ fdtable' = [fdtable EXCEPT ![t][d] = NoFile]
          /\ file_put(t, fdtable[t][d], "exit")
     \/ /\ FreeFds(t) = Fds /\ loc' = [loc EXCEPT ![t] = NoLocals] /\ Goto(t, "none")
        /\ UNCHANGED <<ftable, fdtable>>
  /\ UNCHANGED <<icacheVars, dents, holder, faults>>
-----------------------------------------------------------------------------
\* The image of mkfs with one file, which has no data, and the first task
FilesInit ==
  \E boot \in Tasks :
    /\ itab = [i \in Inos |->
         CASE i = FS_ROOT_INODE_ID -> [type |-> "dir", nblink |-> 1, size |-> 1]
           [] i = FS_ROOT_INODE_ID + 1 -> [type |-> "file", nblink |-> 1, size |-> 0]
           [] OTHER -> Free]
    /\ ibm = 0..(FS_ROOT_INODE_ID + 1)
    /\ InitCache
    /\ dents = [i \in Inos |-> IF i = FS_ROOT_INODE_ID
                               THEN <<[name |-> Builtin, inum |-> FS_ROOT_INODE_ID + 1]>> ELSE <<>>]
    /\ ftable = [f \in FSlots |-> NewFile]
    /\ fdtable = [t \in Tasks |-> [d \in Fds |-> NoFile]]
    /\ holder = <<>> /\ faults = 0
    /\ pc = [t \in Tasks |-> IF t = boot THEN "boot" ELSE "none"]
    /\ loc = [t \in Tasks |-> NoLocals]
    /\ dead = {}

Call(t) ==
  \/ \E p \in Paths, c \in BOOLEAN : Open(t, "open", p, c)
  \/ \E p \in Paths : Open(t, "exec", p, FALSE)
  \/ Open(t, "mknod", Console, TRUE)
  \/ \E d \in Fds : sys_close(t, d) \/ SeekSet(t, d)
  \/ \E d \in Fds, call \in {"read", "write", "seek"} : Io(t, call, d)
  \/ \E u \in Tasks, clone \in BOOLEAN : Fork(t, u, clone)

\* The steps of a call that was made
CallStep(t) ==
  \/ Lock(t, "lookup", loc[t].cur, "scan") \/ Lock(t, "ilock", loc[t].nxt, "ifill")
  \/ Lock(t, "addlock", loc[t].cur, "addent") \/ Lock(t, "flock", loc[t].cur, "fops")
  \/ Lock(t, "iolock", loc[t].cur, "io")
  \/ LockFails(t) \/ CreatedLockFails(t) \/ dir_lookup(t) \/ inode_create(t) \/ FillCreated(t)
  \/ FreeCreated(t) \/ dir_add_entry(t) \/ inode_put(t) \/ PutLock(t) \/ PutDrop(t)
  \/ OpenLocked(t) \/ file_open(t) \/ IoLocked(t) \/ ExecPut(t) \/ release_fds(t)

FilesNext ==
  \E t \in Tasks \ dead :
    \/ (Call(t) \/ CallStep(t)) /\ UNCHANGED dead
    \/ \E D \in SUBSET Tasks : Exit(t, D)

FilesSpec == FilesInit /\ [][FilesNext]_filesvars
-----------------------------------------------------------------------------
(* Properties.                                                             *)

AtPut == {"put", "putlock", "putdrop"}

\* The types
FilesTypeOK ==
  /\ CacheTypeOK
  /\ ftable \in [FSlots -> [refcnt : 0..(RefMod - 1), i : ISlots \cup {NoSlot}, off : 0..MaxSize,
                            dev : BOOLEAN]]
  /\ fdtable \in [Tasks -> [Fds -> FSlots \cup {NoFile}]]
  /\ \A i \in Inos : Len(dents[i]) <= MaxEntries
  /\ faults \in 0..MaxFaults /\ dead \subseteq Tasks

\* The references of a call in progress to slot s
CallRefs(t, s) ==
  LET l == loc[t]
      walking == l.call \in Calls
      made == walking /\ pc[t] \in {"ilock", "ifill", "addlock", "addent"}
      opened == pc[t] \in {"iolock", "io", "execput"} \* its file has the reference
  IN {x \in {"cur", "nxt", "put"} :
        \/ x = "put" /\ l.put = s /\ pc[t] \in AtPut
        \/ x = "nxt" /\ l.nxt = s /\ (made \/ (walking /\ pc[t] \in AtPut))
        \/ /\ x = "cur" /\ l.cur = s /\ ~opened
           /\ \/ walking /\ pc[t] \notin AtPut
              \/ l.call = "undo"}

InodeRefs(s) ==
  Cardinality({f \in FSlots : ftable[f].refcnt # 0 /\ ftable[f].i = s})
  + Cardinality({<<t, x>> \in Tasks \X {"cur", "nxt", "put"} : x \in CallRefs(t, s)})
  + (IF ino[s] = FS_ROOT_INODE_ID THEN 1 ELSE 0)

FileRefs(f) ==
  Cardinality({<<t, d>> \in Tasks \X Fds : fdtable[t][d] = f})
  + Cardinality({t \in Tasks : /\ loc[t].call = "exec" /\ loc[t].f = f
                               /\ pc[t] \in {"iolock", "io", "execput"}})

\* Every descriptor is counted in its open file and nothing else is; every open
\* file and every call on its way holds a reference to its inode.  So no slot is
\* reused under a task, and a file is put once.  What a destroyed thread had stays
\* counted for ever.
ReferencesAreHeld ==
  /\ FilesTypeOK
  /\ \A f \in FSlots : ftable[f].refcnt = FileRefs(f)
  /\ \A s \in ISlots : refcnt[s] >= InodeRefs(s)

\* The inode a path leads to from the root, by the entries of the directories
Resolve(p) ==
  FoldLeft(LAMBDA i, n : IF \E k \in 1..Len(dents[i]) : dents[i][k].name = n
                         THEN dents[i][CHOOSE k \in 1..Len(dents[i]) :
                                /\ dents[i][k].name = n
                                /\ \A j \in 1..(k - 1) : dents[i][j].name # n].inum
                         ELSE 0, FS_ROOT_INODE_ID, p)

\* open, exec and mknod get the inode their path names, be it one of the image, one
\* the walk created or one that another task did before: the walk, that waits at
\* every directory, takes each token with the directory that belongs to it.
OpensTheNamedFile ==
  \A t \in Tasks : pc[t] \in {"flock", "fops", "fset"} => ino[loc[t].cur] = Resolve(loc[t].path)

\* A name in a directory is that of an allocated inode, whose table entry is
\* written before the name.
NamesAreInodes ==
  \A d \in Inos, i \in 1..MaxEntries :
    i <= Len(dents[d]) => /\ dents[d][i].inum \in ibm
                          /\ itab[dents[d][i].inum].type # "free"
=============================================================================
