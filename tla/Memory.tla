------------------------------- MODULE Memory -------------------------------
(***************************************************************************)
(* The memory of processes: the trees of mmap.c, the program elf.c loads   *)
(* into one, what fork, clone, exec and the end of a task do to them       *)
(* (task.c, sys_proc.c), and the stores of programs and of system calls    *)
(* (trap.c).                                                               *)
(*                                                                         *)
(* System calls run with interrupts masked, so each of them is one step,   *)
(* except that loading a program waits for the disk at every file_read.    *)
(***************************************************************************)
EXTENDS Pages

CONSTANTS
  Tasks,
  RamSizes,          \* numbers of pages a machine may have
  THREAD_TRAPFRAME,  \* the address of the trapframe of each task as a thread
  USTACK_TOP,
  KernelMap,         \* the sequence of [va, fl] mmap_kernel maps
  IoVas,             \* addresses drivers map
  Segments,          \* the pages of the program: [va, fl, read, val]
  MaxFaults,         \* bound: how often a call fails and loses its pages
  ThreadedCalls,     \* the calls programs make that have, or had, threads
  Straddling         \* programs give system calls buffers that cross a page's end

ASSUME MemoryAssumption ==
  /\ IsFiniteSet(Tasks) /\ RamSizes \subseteq RamPages
  /\ THREAD_TRAPFRAME \in [Tasks -> [1..LEVELS -> Nat]]
  /\ IsInjective(THREAD_TRAPFRAME)
  /\ \A k \in DOMAIN Segments : Segments[k].fl \cap {"R", "W", "X"} # {}
  /\ MaxFaults \in Nat /\ ThreadedCalls \subseteq {"fork", "exec"}
  /\ Straddling \in BOOLEAN

VARIABLES
  mem, kroot,
  pc,         \* of each task
  root, tframe_va, tframe_pa,
  loading,    \* of each task: the tree it had, the page of Segments and its frame
  faults

vars == <<mem, kroot, pc, root, tframe_va, tframe_pa, loading, faults>>
Fault == faults < MaxFaults /\ faults' = faults + 1

NotLoading == [root |-> NoPage, tframe |-> NoPage, k |-> 0, page |-> NoPage]
Goto(t, s) == pc' = [pc EXCEPT ![t] = s]

\* A panic, or a page fault of the kernel, stops it: what it did to the memory is not seen.
SetMem(M) == mem' = IF M.panic THEN [mem EXCEPT !.panic = TRUE] ELSE M
-----------------------------------------------------------------------------
(* mmap.c.                                                                 *)

\* vpage_map_range, of the sequence of [va, fl] and the frame at each
vpage_map_range(r, table, range, p) ==
  FoldLeft(LAMBDA a, e : IF a.ok THEN vpage_map(a.m, table, e.va, p, e.fl) ELSE a, r, range)

\* mmap_kernel; which frames are mapped is not told apart
mmap_kernel(M) ==
  LET r == vpage_map_range(Ok(page_alloc(M)), NewPage(M), KernelMap, Kernel)
  IN IF M.free = {} THEN Failed(M) ELSE IF r.ok THEN r ELSE Failed(page_put(r.m, NewPage(M)))

NoUspace(M) == [m |-> M, root |-> NoPage, tframe |-> NoPage]

\* mmap_uspace: the memory after it, and the new root and trapframe
mmap_uspace(M) ==
  LET Finish(mapped, r, tf) ==
        IF mapped.ok THEN [m |-> mapped.m, root |-> r, tframe |-> tf]
        ELSE NoUspace(vpage_tree_free(page_put(mapped.m, tf), r))
      Tframe(m, r) ==
        IF m.free = {} THEN NoUspace(vpage_tree_free(m, r))
        ELSE Finish(vpage_map(page_alloc(m), r, TRAPFRAME, NewPage(m), RW), r, NewPage(m))
  IN IF M.free = {} THEN NoUspace(M) ELSE Tframe(page_alloc(M), NewPage(M))

\* mmap_uimage: that, the trampoline and the stack
mmap_uimage(M) ==
  LET Finish(mapped, s, stack) ==
        IF mapped.ok THEN [s EXCEPT !.m = mapped.m]
        ELSE NoUspace(vpage_tree_free(page_put(mapped.m, stack), s.root))
      Stack(tramp, s) ==
        IF ~tramp.ok \/ tramp.m.free = {} THEN NoUspace(vpage_tree_free(tramp.m, s.root))
        ELSE Finish(vpage_map(page_alloc(tramp.m), s.root, USTACK_TOP, NewPage(tramp.m), RW \cup {"U"}),
                    s, NewPage(tramp.m))
      Trampoline(s) ==
        IF s.root = NoPage THEN s
        ELSE Stack(vpage_map_range(Ok(s.m), s.root, <<[va |-> TRAMPOLINE, fl |-> {"X", "R", "G"}]>>,
                                   Kernel), s)
  IN Trampoline(mmap_uspace(M))

\* iommap_kernel, as the drivers start, before the first program
Booting == \A t \in Tasks : pc[t] = "free"

iommap_kernel(va) ==
  /\ Booting
  /\ SetMem(vpage_map_range(Ok(mem), kroot, <<[va |-> va, fl |-> RW]>>, Kernel).m)
  /\ UNCHANGED <<kroot, pc, root, tframe_va, tframe_pa, loading, faults>>
-----------------------------------------------------------------------------
(* exec, and the first program.                                            *)

\* t runs in the process it started, and alone.
Unthreaded(t) ==
  tframe_va[t] = TRAPFRAME /\ \A u \in Tasks \ {t} : pc[u] # "free" => root[u] # root[t]

\* The call fails: task_exec takes the old tree back, and of a new task nothing
\* is left.  The task's tframe_va stays that of the new tree.
LoadFails(t, M) ==
  /\ SetMem(M)
  /\ root' = [root EXCEPT ![t] = loading[t].root]
  /\ tframe_pa' = [tframe_pa EXCEPT ![t] = loading[t].tframe]
  /\ loading' = [loading EXCEPT ![t] = NotLoading]
  /\ Goto(t, IF loading[t].root = NoPage THEN "free" ELSE "run")

\* task_exec, or task_start_userland at the end of the boot, after elf_load_hdr
\* and elf_verify_file_format: mmap_uimage
LoadProgram(t) ==
  /\ \/ pc[t] = "run" /\ ("exec" \in ThreadedCalls \/ Unthreaded(t))
     \/ Booting /\ \A va \in IoVas : Mapped(mem, kroot, va)
  /\ tframe_va' = IF mmap_uspace(mem).root = NoPage THEN tframe_va
                  ELSE [tframe_va EXCEPT ![t] = TRAPFRAME]
  /\ \E s \in {mmap_uimage(mem)} :
       /\ SetMem(s.m)
       /\ \/ /\ s.root # NoPage /\ Goto(t, "phdr")
             /\ root' = [root EXCEPT ![t] = s.root]
             /\ tframe_pa' = [tframe_pa EXCEPT ![t] = s.tframe]
             /\ loading' = [loading EXCEPT ![t] = [NotLoading EXCEPT !.root = root[t],
                                                                    !.tframe = tframe_pa[t]]]
          \/ s.root = NoPage /\ UNCHANGED <<pc, root, tframe_pa, loading>>
  /\ UNCHANGED <<kroot, faults>>

\* One round of map_phdr, up to file_read: the next page of the program.  There
\* may be no page, the header may not be valid, file_seek may fail.
map_phdr(t, M) ==
  \/ /\ M.free # {} /\ SetMem(page_alloc(M))
     /\ loading' = [loading EXCEPT ![t].page = NewPage(M), ![t].k = @ + 1]
     /\ Goto(t, "read") /\ UNCHANGED <<root, tframe_pa>>
  \/ LoadFails(t, vpage_tree_free(M, root[t]))

\* elf_map: load_phdr reads the headers, or fails
elf_map(t) ==
  /\ pc[t] = "phdr"
  /\ map_phdr(t, mem)
  /\ UNCHANGED <<kroot, tframe_va, faults>>

\* transfer_argv from the page at va of the old tree to the new stack; then the
\* old tree is freed.  When it fails, the new tree is lost.  Without arguments,
\* as task_start_userland calls it, va is NoPage.
transfer_argv(t, M, va) ==
  LET l == loading[t]
      Done(m) == /\ SetMem(vpage_tree_free(m, l.root)) /\ Goto(t, "run")
                 /\ loading' = [loading EXCEPT ![t] = NotLoading]
                 /\ UNCHANGED <<root, tframe_pa, faults>>
  IN \/ va = NoPage /\ Done(M)
     \/ /\ va # NoPage /\ l.root # NoPage
        /\ \E from \in {get_pa_from_va(M, l.root, va, {"U", "R"})},
              to \in {get_pa_from_va(M, root[t], USTACK_TOP, {"U", "W"})} :
             \/ from.page # NoPage /\ Done([to.m EXCEPT !.data[to.page] = M.data[from.page]])
             \/ from.page = NoPage /\ Fault /\ LoadFails(t, M)

\* The rest of a round: the page is read, or is not and is lost, and mapped.
MapPage(t, va) ==
  LET l == loading[t]
      seg == Segments[l.k]
      r == vpage_map([mem EXCEPT !.data[l.page] = seg.val], root[t], seg.va, l.page, {"U"} \cup seg.fl)
  IN /\ pc[t] = "read"
     /\ \/ r.ok /\ l.k < Len(Segments) /\ map_phdr(t, r.m) /\ UNCHANGED faults
        \/ r.ok /\ l.k = Len(Segments) /\ transfer_argv(t, r.m, va)
        \/ /\ ~r.ok /\ LoadFails(t, vpage_tree_free(page_put(r.m, l.page), root[t]))
           /\ UNCHANGED faults
        \/ seg.read /\ Fault /\ LoadFails(t, vpage_tree_free(mem, root[t]))
     /\ UNCHANGED <<kroot, tframe_va>>
-----------------------------------------------------------------------------
(* task_clone and task_destroy.                                            *)

\* task_clone gives up, with memory M.
CloneFails(M) ==
  /\ SetMem(M)
  /\ UNCHANGED <<kroot, pc, root, tframe_va, tframe_pa, loading, faults>>

\* The child u runs: its tree is r, its trapframe tf at va
Child(u, M, r, tf, va) ==
  /\ SetMem(M) /\ Goto(u, "run")
  /\ root' = [root EXCEPT ![u] = r]
  /\ tframe_pa' = [tframe_pa EXCEPT ![u] = tf] /\ tframe_va' = [tframe_va EXCEPT ![u] = va]
  /\ UNCHANGED <<kroot, loading, faults>>

\* task_clone with CLONE_VM
CloneThread(t, u) ==
  LET tf == NewPage(mem)
      M1 == page_get(page_alloc(mem), root[t])
      r == vpage_map(M1, root[t], THREAD_TRAPFRAME[u], tf, RW)
  IN /\ pc[t] = "run" /\ pc[u] = "free" /\ tf # NoPage
     /\ \/ r.ok /\ Child(u, r.m, root[t], tf, THREAD_TRAPFRAME[u])
        \/ ~r.ok /\ CloneFails(page_put(page_put(r.m, root[t]), tf))
        \/ CloneFails(page_put(page_put(M1, root[t]), tf))  \* no stack, or no entry

\* task_clone without
task_fork(t, u) ==
  LET tf == NewPage(mem)
      M1 == page_alloc(mem)
      new == NewPage(M1)
      Tframe(r) == IF r.ok THEN vpage_map(r.m, new, TRAPFRAME, tf, RW) ELSE r
  IN /\ pc[t] = "run" /\ pc[u] = "free" /\ tf # NoPage
     /\ "fork" \notin ThreadedCalls => Unthreaded(t)
     /\ \/ new = NoPage /\ CloneFails(page_put(M1, tf))
        \/ /\ new # NoPage
           /\ \E r \in {Tframe(vpage_tree_copy(page_alloc(M1), new, root[t]))} :
                \/ ~r.ok /\ CloneFails(page_put(vpage_tree_free(r.m, new), tf))
                \/ r.ok /\ Child(u, r.m, new, tf, TRAPFRAME)

\* The memory part of task_destroy: the last thread frees the tree.
Destroy(t, M0) ==
  LET M == vpage_unmmap(M0, root[t], tframe_va[t])
  IN /\ Goto(t, "free")
     /\ SetMem(IF M.rc[root[t]] = 1 THEN vpage_tree_free(M, root[t]) ELSE page_put(M, root[t]))
     /\ root' = [root EXCEPT ![t] = NoPage] /\ tframe_pa' = [tframe_pa EXCEPT ![t] = NoPage]
     /\ tframe_va' = [tframe_va EXCEPT ![t] = TRAPFRAME]
     /\ UNCHANGED <<kroot, loading, faults>>

\* A task ends and is destroyed.  In between it has its memory like a task that
\* does not run.
task_destroy(t) == pc[t] = "run" /\ Destroy(t, mem)
-----------------------------------------------------------------------------
(* Stores.                                                                 *)

\* A program stores v at va.  On a page fault usertrap calls vpage_handle_cow,
\* and the store is made again, or the task ends.
Store(t, va, v) ==
  LET table == walk_leaf(mem, root[t], va)
      allowed == table # NoPage /\ {"U", "W"} \subseteq mem.pte[table][Last(va)].fl
      r == IF allowed THEN Ok(mem) ELSE vpage_handle_cow(mem, root[t], va)
  IN /\ pc[t] = "run"
     /\ \/ /\ r.ok /\ SetMem([r.m EXCEPT !.data[r.m.pte[table][Last(va)].pg] = v])
           /\ UNCHANGED <<kroot, pc, root, tframe_va, tframe_pa, loading, faults>>
        \/ ~r.ok /\ Destroy(t, r.m)

\* What memcpy does to the page that follows in memory, which may be any one.
\* When that is a table, or a node of the free list, what the kernel does next
\* is not modelled.
Overwritten(M, p, v) ==
  IF p \in M.free \/ DOMAIN M.pte[p] # {} THEN [M EXCEPT !.panic = TRUE]
  ELSE [M EXCEPT !.data[p] = v]

\* vpage_copyout by a system call, or -EFAULT.  It looks the first address up and
\* copies all of the buffer from there on, also when that crosses a page's end.
vpage_copyout(t, va, v) ==
  LET r == get_pa_from_va(mem, root[t], va, {"U", "W"})
      m == [r.m EXCEPT !.data[r.page] = v]
  IN /\ pc[t] = "run"
     /\ \/ r.page = NoPage /\ SetMem(r.m)
        \/ r.page # NoPage /\ SetMem(m)
        \/ /\ r.page # NoPage /\ Straddling
           /\ \E p \in RamPages \ {r.page} : SetMem(Overwritten(m, p, v))
     /\ UNCHANGED <<kroot, pc, root, tframe_va, tframe_pa, loading, faults>>
-----------------------------------------------------------------------------
Init ==
  /\ \E n \in RamSizes : LET M == page_init(n) IN
       mmap_kernel(M).ok /\ mem = mmap_kernel(M).m /\ kroot = NewPage(M)
  /\ pc = [t \in Tasks |-> "free"]
  /\ root = [t \in Tasks |-> NoPage] /\ tframe_pa = [t \in Tasks |-> NoPage]
  /\ tframe_va = [t \in Tasks |-> TRAPFRAME]
  /\ loading = [t \in Tasks |-> NotLoading] /\ faults = 0

UserVas == {Segments[k].va : k \in DOMAIN Segments} \cup {USTACK_TOP}

Load(t) ==
  \/ LoadProgram(t) \/ elf_map(t)
  \/ \E va \in UserVas \cup {TRAPFRAME, NoPage} : MapPage(t, va)

Next ==
  /\ ~mem.panic
  /\ \/ \E va \in IoVas : iommap_kernel(va)
     \/ \E t \in Tasks :
          \/ Load(t) \/ task_destroy(t)
          \/ \E u \in Tasks : CloneThread(t, u) \/ task_fork(t, u)
          \/ \E va \in UserVas, v \in Values : Store(t, va, v) \/ vpage_copyout(t, va, v)

Spec == Init /\ [][Next]_vars
-----------------------------------------------------------------------------
(* Properties.                                                             *)

\* The types
TypeOK ==
  /\ mem.rc \in [RamPages \cup {Kernel} -> 0..(RcMod - 1)] /\ mem.free \subseteq RamPages
  /\ mem.data \in [RamPages -> Values] /\ mem.panic \in BOOLEAN
  /\ pc \in [Tasks -> {"free", "phdr", "read", "run"}]
  /\ root \in [Tasks -> RamPages \cup {NoPage}] /\ tframe_pa \in [Tasks -> RamPages \cup {NoPage}]
  /\ \A t \in Tasks : loading[t].page \in RamPages \cup {NoPage} /\ loading[t].k \in 0..Len(Segments)

RECURSIVE Tables(_, _)
Tables(table, lvl) ==
  {table} \cup (IF lvl = 0 THEN {}
                ELSE UNION {Tables(mem.pte[table][i].pg, lvl - 1) : i \in DOMAIN mem.pte[table]})

Roots == ({kroot} \cup {root[t] : t \in Tasks} \cup {loading[t].root : t \in Tasks}) \ {NoPage}

\* The entries of the trees
Entries(tables) == UNION {{<<q, i>> : i \in DOMAIN mem.pte[q]} : q \in tables}

\* What refers to page p: entries, the tasks, and a call that loads a program
Refs(p, entries) ==
  Cardinality({e \in entries : mem.pte[e[1]][e[2]].pg = p})
  + Cardinality({t \in Tasks : p \in {root[t], loading[t].root}})
  + Cardinality({t \in Tasks : p = loading[t].page}) + (IF kroot = p THEN 1 ELSE 0)

\* A page that a tree or a task refers to is counted once for each reference:
\* page_get and page_put are balanced over fork, clone, exec, copy on write, and
\* every way these fail.  So a page is never free, or writable in place, while
\* another task sees it.
PagesAreCounted ==
  /\ TypeOK
  /\ ~mem.panic =>
       LET entries == Entries(UNION {Tables(r, LEVELS - 1) : r \in Roots})
           refs == [p \in RamPages |-> Refs(p, entries)]
       IN  \A p \in RamPages : /\ refs[p] > 0 => mem.rc[p] = refs[p]
                               /\ p \in mem.free => mem.rc[p] = 0

\* The trapframe the trampoline stores the registers of a task in is mapped,
\* writable, where the kernel expects it: fork's copy on write leaves it out.
TrapframesAreMapped ==
  ~mem.panic => \A t \in Tasks : pc[t] = "run" =>
    /\ Mapped(mem, root[t], tframe_va[t])
    /\ Leaf(mem, root[t], tframe_va[t]) = [pg |-> tframe_pa[t], fl |-> RW]

SpaceOf(t) == IF pc[t] = "run" THEN root[t] ELSE loading[t].root
Loaded == [va \in UserVas |-> IF va = USTACK_TOP THEN Zero
                              ELSE Segments[CHOOSE k \in DOMAIN Segments : Segments[k].va = va].val]

ValueAt(space, va) ==
  LET table == walk_leaf(mem, space, va)
  IN IF table = NoPage THEN Zero ELSE mem.data[mem.pte[table][Last(va)].pg]

\* Each process has its own memory: a page shared after fork is not seen to
\* change by another, threads see each other's stores, and a fork or an exec
\* that fails changes nothing that a program sees.
Abs == INSTANCE AbstractMemory WITH
         Spaces <- RamPages, NoSpace <- NoPage, Stack <- USTACK_TOP,
         Writable <- {USTACK_TOP} \cup {Segments[k].va : k \in {k \in DOMAIN Segments : "W" \in Segments[k].fl}},
         space <- [t \in Tasks |-> SpaceOf(t)],
         cells <- [t \in Tasks |-> IF SpaceOf(t) = NoPage THEN Loaded
                                   ELSE [va \in UserVas |-> ValueAt(SpaceOf(t), va)]]
ImplementsMemory == Abs!Spec

\* A call that finds no page returns an error and leaves nothing allocated, as
\* mmap.h says: the kernel goes on.
FailedCallsReturn == ~mem.panic
=============================================================================
