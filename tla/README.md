# Verification of rv-mini-os

rv-mini-os is a preemptive RISC-V kernel for one hart: priority scheduling, semaphores and mutexes
between kernel threads and system calls, interrupt handlers that wake daemons, processes and threads
with copy on write memory, a virtio disk with a block cache and a small file system, a UART and a text
console.  This directory holds TLA+ models of its parts, the TLC configurations that check them on small
instances, and TLAPS proofs about the scheduler, the block driver, the block cache, the data blocks of
files, the receiving side of the UART and the console.  Paths below are relative to `src/src/`.

- [The system](#the-system)
- [Modules and code](#modules-and-code)
- [Runs](#runs)
- [Bounds](#bounds)
- [Fairness](#fairness)
- [Proofs](#proofs)
- [What the violation runs show](#what-the-violation-runs-show)
- [Read from the code](#read-from-the-code)
- [Not modelled](#not-modelled)
- [Plan](#plan)

## The system

What runs concurrently, on one hart, is decided by three rules that all modules share.

1. A system call runs with the interrupts masked (`usertrap` never enables them), so it is interleaved
   with other tasks only where it blocks, or where it wakes a task of a higher priority.
2. A kernel thread runs with the interrupts enabled: a handler may run between any two statements that
   no `irq_save` protects, and its `sem_post` may switch to the task that it wakes.
3. A spinlock disables preemption, not the interrupts.  A wake up inside it is delayed: `need_resched`
   makes `scheduler_enable_preempt` rotate.

| part | code | module |
|---|---|---|
| scheduler | `kernel/core/sched/scheduler.c`, parts of `core/task/task.c` | `Scheduler` |
| locks | `kernel/core/sync/*.c` | `KernelSync`, `AbstractSync` |
| time, traps, PLIC | `kernel/core/time/time.c`, `arch/trap.c`, `arch/plic.c` | `KernelSync` |
| task lifecycle | `kernel/core/task/task.c`, `core/syscall/sys_sync.c`, `sys_proc.c` | `Lifecycle` |
| pages, page tables, copy on write | `kernel/core/memory/pages.c`, `vpages.c` | `Pages` |
| memory of processes: fork, clone, exec, faults | `kernel/core/memory/mmap.c`, `elf.c`, `core/task/task.c`, `arch/trap.c` | `Memory`, `AbstractMemory` |
| block driver | `kernel/drivers/blk/virtio_blk.c` | `VirtioBlk`, `AbstractBlk` |
| block cache | `kernel/core/fs/bcache.c` | `BCache` |
| data blocks of files, block allocation | `kernel/core/fs/inode.c`, `balloc.c` | `Inodes`, `AbstractFiles` |
| inode cache, inode bitmap | `kernel/core/fs/inode.c` | `InodeCache` |
| paths, open files, descriptors | `kernel/core/fs/fs.c`, `file.c`, `core/syscall/sys_io.c`, `core/task/task.c` | `Files` |
| UART | `kernel/drivers/uart/ns16550.c` | `Uart`, `AbstractTty` |
| console | `kernel/drivers/console/bochs.c` | `Console` |
| PCI, start of display and disk | `kernel/drivers/pci/pci.c`, `bochs.c`, `virtio_blk.c` | `Pci` |
| lists | `lib/clist.c` | `Lists`, `Clist` |
| heap | `lib/tinyalloc.c` | `Heap` |

The scheduler is under everything that blocks or wakes; locks, drivers and file system are its callers.
The inode layer sits on the block cache and that on the disk; a program is loaded through files into
pages; the lists are inside all of it.  Modules meet at their promises: `KernelSync` shows that the
callers of the scheduler respect what `Scheduler` assumes of them, and the modules of the file system
take the locks for what `AbstractSync` promises.

`PROJECT.json` lists every part with its status, the source lines behind every definition, and the
hazards (what is hard to test here) with the properties that cover them.

## Modules and code

**`Lists`** has the list operations of `lib/clist.c` on sequences: removal, rotation, sorted insertion.
**`Clist`** has the pointers of the same operations, in a memory of heads and nodes, beside the
sequences the other modules take the lists for.  `clist_for_each_and_del` is one step per iteration.

**`Scheduler`** models `scheduler.c` and the functions of `task.c` that change the state of a task.  Its
variables are those of the C file (`ready_queues`, `highest_ready_tracking`, `preempt_count`,
`need_resched`, `sleeping_head`), the fields `state` and `wake_up_time`, and the wait queues.  An entry
point that masks the interrupts is one action.  Three things take several steps: the loop of
`scheduler_wake_sleeping` (`walk` is what it has still to visit), `scheduler_block_on_locked` when its
`spinlock_unlock` already switches (`owes` says that a `switch_out_active` is still to come), and
`scheduler_enable_preempt` in a kernel thread, which is interruptible after each statement.  The lower
half of the module has the calls under the conditions that callers guarantee, for example that a task
which blocks holds no other spinlock; `KernelSync` shows that they do.  The state RUNNING of a task that
was only woken is as in the code (`task_wake`).

**`KernelSync`** extends `Scheduler` with its callers.  `todo[t]` is the kernel code that task `t` has still
to run, as a sequence of statements; an interrupt puts its handler in front.  So a handler that is
switched out by its own `sem_post` goes on when the interrupted task runs again, which is what the code
does.  It has `spinlock.c`, `semaphore.c`, `mutex.c`, the timer handler with both daemons, and one device
behind the PLIC.  **`AbstractSync`** says what a semaphore and a mutex promise.

**`Lifecycle`** models the task table, pids, thread groups, fork, clone, exit, exit_group, wait and
waitpid.  Tasks are addresses: a freed structure may still be pointed to.  `Orderly` restricts what user
programs do (reap children, wait only for children, leave `exit_group` to the leader): the passing run
sets it, `orphans` does not.  `LeavingSpec` adds exits that block in `release_fds`.

**`Pages`** has `pages.c` and `vpages.c` as functions of the machine's memory: the reference counts with
their width, the free pages, the entries of each table and the value of each page.  All of it runs with
interrupts masked and does not block, so a call is one operator.  `MapLevel` is an iteration of the loop
of `vpage_map`, including what it gives back when it finds no page.  **`Memory`** has the calls that use
it: the kernel's own tree, `mmap_uspace` and `mmap_uimage`, `task_exec` with `elf_map`, which waits for
the disk at every page it reads, `transfer_argv`, fork and clone, the destruction of a task, stores of
programs with the copy on write fault, and `vpage_copyout`.  Every allocation may fail: the number of
pages is an input.  A page of the free list holds the list's node, which a walk that still reaches the
page takes for entries (`FreeNode`).  `Straddling` says whether buffers of system calls cross the end of a
page; `vpage_copyout` then writes into whatever page is next (`Overwritten`).
**`AbstractMemory`** is the promise: each process has its own memory, which fork copies, a thread shares,
and exec replaces.

**`VirtioBlk`** models descriptors, free list, both rings, submission, completion and the handler.  The
device is external: it takes requests in order, serves them in any order and interrupts.  `CanRun` is
the processor: preemption is off while `vq_lock` is held, and a task that the handler interrupted waits
until the handler returns.
**`AbstractBlk`** is the promise: a request returns after it was served, and is served once.

**`BCache`** models every function of `bcache.c`, with tasks that wait for a mutex or for the disk
between the statements.  `bcache_invalidate` is called for a block that nobody holds, as `bfree` does
under the mutex of the inode.  Disk errors do not reach it: `virtio_blk_request` panics.

**`Inodes`** models how `inode_write` finds and allocates the data blocks of a file, and what becomes of
them when the slot of the inode is reused.  An iteration of the loop of `inode_write` is one action, the
last of a call with the `inode_mark_dirty` that follows.  A write that reports an error does not mark its
inode, so a block it allocated is in the slot only; `Reuse` takes the slot's contents from the table again,
and `lost` has the blocks that no inode names after it.  Truncation is left out: `inode_truncate` has no
caller, and `inode_put` needs an `nblink` of 0, which nothing decrements.  **`AbstractFiles`**: a file is a
sequence of blocks of its own, and a write that reports an error has written nothing.

**`InodeCache`** has the slots of `inode_get`, `inode_lock` and `inode_put` and the inode bitmap, as
parts of the actions of **`Files`**: the walk of `fs_inode_from_path` that creates what is missing,
`file_open`, `close`, `read`, `write`, `seek` and the descriptors over fork, clone, exec and exit.  An action
runs from one place where the task can wait to the next.  `holder` is the static pointer of `strtok`.
`MaxFaults` bounds how often a read of the disk fails.  `Exit` is also `exit_group`: the tasks it destroys
(`dead`) do nothing any more and nobody puts what they held.  `Careful` restricts what programs do: no
task walks a path or clones its files while another walks one, and none writes to a directory.

**`Uart`** models reception: handler, daemon, ring buffer, readers.  **`AbstractTty`**: characters
are read in order, each once, and lost only behind a full buffer.

**`Heap`** has the lists of `tinyalloc.c`: the free list by address, splitting, compaction, growth and
shrinking of the top.  `held` is what callers were given.

**`Console`** has the screen by cells, each in two parts: its first seven pixel rows, and the last one,
where the cursor is drawn.  `text` is what a terminal of that size shows.  The row of cells below the
screen is there because `scroll` reads it.  The `memset` of `scroll` indexes rows of text with a number of
rows of pixels; a frame buffer (`fb_rows`) that has no such row makes it a page fault of the kernel, and
`halted` is set.

**`Pci`** has discovery, the sizes and addresses of BARs, and the steps of `console_init` and
`virtio_blk_init` against devices with BARs of every kind, in the order `kernel_start` takes them.

Definitions whose comment begins with "Faulty" are the variants with a plausible mistake that the
properties are tested against; no specification uses them.

## Runs

Parts that do not interact share a run: `MCStorage`, `MCStructures` and `MCDevices` have a variable `part`
that Init sets and no step changes; the parts other than that one stay in their initial state.  So such a
run has the union of the states of its parts, and a property of one part is checked where it moves.

| run | what it checks |
|---|---|
| `scheduler` | Queues match the states of tasks; the tracked priority misses no ready task; what runs has the highest priority unless a rescheduling is pending; waiters are served in order; sleepers stay sorted and none is skipped; no switch while preemption is disabled. |
| `kernel_sync` | No second `spinlock_lock` on one hart, no lost wake up; the primitives implement `AbstractSync`, and all callers respect the conditions of `Scheduler` (`ImplementsScheduler`). |
| `kernel_live` | Sleepers whose date has come wake; waiters for a mutex get it, if owners get the processor. |
| `storage` | `Lifecycle`: the table lists the living tasks, zombies are on the list of their parent, once, and nobody blocks in a wait while a child it would accept is a zombie.  `Files` and `InodeCache`: references to slots, inodes and open files are exactly those that somebody holds or held when it was destroyed, an open returns the file of that name, every name is an allocated inode; also when a read of the disk fails.  `BCache`: a block has one buffer while it is used, a reused buffer loses nothing, and only writes and frees change contents.  `Inodes`: blocks have one owner, the bitmap is what is in use or was lost, files are independent and keep what was written; also when the disk is full, a copy fails or a slot is reused. |
| `structures` | `Memory`: reference counts are the number of references, no page is free and used; the trapframe of every task is mapped where the trampoline stores; and each process has its own memory (`AbstractMemory`), whatever allocation fails.  `Clist`: the pointers are the sequences.  `Heap`: blocks tile the heap, what callers have is not given twice, free neighbours are merged.  `Console`: the screen shows the text.  `Pci`: a driver that starts reaches its own device. |
| `devices` | `VirtioBlk`: descriptors are never in two chains, a completion reaches the request that waits, every request returns after it was served once.  `Uart`: `rx_count` counts the ring buffer, characters come in order, no interrupt is lost when it is enabled again. |
| `round_robin`, `orphans`, `zombie_blocks`, `indirect_shared`, `out_of_memory`, `straddling` | Violations, see below. |

The passing runs state the conditions under which the code is right.  In `storage` the long file has an
indirect block from mkfs (`indirect_shared` drops this), programs are `Orderly` (`orphans` drops it) and
`Careful` (see [Read from the code](#read-from-the-code)).  In `structures` buffers do not cross pages
(`straddling` drops this), no process with threads forks or loads a program, and the behaviour of `Memory`
ends where the kernel stops; `out_of_memory` shows that it does.  `zombie_blocks` is about an exit that finds
the mutex of an inode taken at its last reference.  `Lifecycle` leaves open who has it: with a `struct
file` in two hands, which `Careful` excludes, it can be another task.

## Bounds

- `scheduler`: idle, a HIGH daemon and two NORMAL tasks, two wait queues, two nested spinlocks, a clock
  of two values and three dates.  It takes two NORMAL tasks for a rotation, two queues for a task to be on
  the wrong one, and three dates for one that is past, due and later.  The clock and the dates wrap.
- `kernel_sync`: idle, both daemons, a kernel thread and a user task, one mutex, one device, counts up to
  1 (`MaxCount` holds interrupts back that would post more).  Two ticks per second, so that one tick posts
  both semaphores and one only the tick.  The second stays 0 and sleepers ask for 0: how dates are
  compared is checked by `scheduler`.
- `kernel_live`: the same with two user tasks, for which liveness needs fewer states.  A third one that
  keeps the processor is excluded by `OwnersRun`, see [Fairness](#fairness); under it TLC finds
  `WaitersBecomeOwners` to hold with three user tasks as well, in twenty minutes.
- `structures`.  Memory: three tasks, a tree of three levels, machines of 12 to 15 pages, a program of one
  page, counts modulo 4, more than the references a page has here, one failing read.  With 15 pages exec
  finds room for both trees; with each page less another call fails.  Lists: two heads, three
  nodes with the ranks 1, 1, 2, so that sorted insertion meets equal ranks.  Heap: 12 bytes, five blocks, a
  split threshold of 4 and an alignment of 2: blocks are split, merged, used up and given back at the top.
  Console: 3 rows of 4 columns, tab stops of 2: lines wrap, tabs reach the edge and the screen scrolls, in a
  frame buffer that is large enough and in one that is not.
  PCI: addresses in units of 64 MB, every kind of BAR and windows of one and two units, queue sizes
  below, at and above the driver's.
- `devices`: three tasks for two chains of descriptors, so that one waits for a slot; indices wrap after 6.
  What is left in a ring after it was read is not kept (`Stale`): reading it would break the type
  invariant.  The UART has a ring of three places, of which two can be used, a fifo of two, two readers.
- `storage`.  Lifecycle: four structures besides idle and init, five places in the table; no task is
  created after pid 6 (`MaxPid`), so pids neither wrap nor reach the sign bit.
  Files: two tasks, four inode slots, two open files, one descriptor per task, directories of
  up to three entries and files of one unit, one failing read (`MaxFaults`).  Every table can be full.
  Block cache: two buffers for three blocks, two tasks: hits, misses, reuse and waiting for a buffer.
  Data blocks: two direct and two indirect entries, two files, one with all four, and one block less than
  they can ask for.

Symmetry is used in runs without liveness only.  `storage` and `structures` have a VIEW instead, part by
part.  A task structure is told by its place in the table (`TaskView`), which is all of it, since no
living task refers to a structure outside the table: TLC finds `ParentIsLive`, the property of `orphans`,
to hold for `Orderly` programs.  The tasks that have files are alike (`FilesView`).  Pages are alike: a
page is told by the places (table entries, roots, tasks) that refer to it, so states that differ in the
numbers of pages only are one state.  The numbers matter in `NewPage` only, which takes the smallest one
that is free; free pages are alike, because `page_alloc` clears the one it takes.

## Fairness

- `KernelSpec`: the running task does not stop in the kernel, daemons loop, and the devices interrupt
  when the interrupts are enabled again and again (strong: the timer stays pending).  User code may do
  anything, also compute for ever.  `UnlockingSpec` adds that owners unlock.
- The liveness properties of `KernelSync` assume `KeepsUp`: both daemons block again and again.  The timer
  interrupts every 50 ms; without it interrupts alone could keep the processor for ever.
  `WaitersBecomeOwners` assumes `OwnersRun` as well: the owner of a mutex runs again and again until it
  unlocks.  The scheduler does not give this (`round_robin`), so the property says that `mutex_unlock`
  hands over and that no waiter is forgotten, not that the processor is shared.
- `VirtioBlk`: a task in a request that is ready again and again runs.  The scheduler does not give
  this for user tasks that compete with one that computes for ever (`round_robin`), so `RequestsReturn` says
  that the driver loses no completion, not that the processor is shared.  It has one exception, which the
  code has: the loop of the handler goes on as long as a task it woke gets its next request served before
  the handler looks again, and the task it interrupted waits meanwhile.
- `Uart`: handler, daemon, completion of the interrupt and readers with something to read.

The last two are conjoined in `MCDevices`; the steps of a part that does not move are never enabled, so
its fairness asks for nothing.

## Proofs

`ListProofs` proves what the list operators do (membership, injectivity, order).  The theorems hold for
every value of the constants that the assumption of the module admits.  A leaf is tried with Zenon
(`USE ZenonT(20)`) and cites SMT where it needs arithmetic or sequences; for the same reason `Lists` has its
own `RemovedAt` and `InsertedAt`, and does not extend `SequencesExt`.

| theorem | module | property |
|---|---|---|
| `TypeCorrect` | `SchedulerProofs` | `TypeOK`: in particular no switch follows the NULL of an empty queue |
| `ReadyQueuesCorrect` | `SchedulerProofs` | `ReadyQueuesMatchStates` |
| `BlockingQueuesCorrect` | `SchedulerProofs` | `BlockingQueuesMatchStates` |
| `TrackingCorrect` | `SchedulerProofs` | `HeadRuns` |
| `IdleAlwaysReady` | `SchedulerProofs` | (idle is always in its ready queue) |
| `PriorityScheduling` | `SchedulerProofs` | `HighestPriorityRuns` |
| `OwedSwitchHarmless` | `SchedulerProofs` | `OwedSwitchIsToSelf` |
| `SleepersCorrect` | `SchedulerProofs` | `SleepersInOrder` |
| `NoSwitchInside` | `SchedulerProofs` | `NoSwitchWhenPreemptDisabled` |
| `FifoCorrect` | `SchedulerProofs` | `FifoWakeUp` |
| `ChainsCorrect` | `VirtioBlkProofs` | `ChainsAreDisjoint` |
| `AwaitedCorrect` | `VirtioBlkProofs` | `RequestsAreAwaited` |
| `BlkCorrect` | `VirtioBlkProofs` | `ImplementsBlk`: `VirtioBlk` implements `AbstractBlk` |
| `CopiesCorrect` | `BCacheProofs` | `HoldersShareOneCopy` |
| `CleanCorrect` | `BCacheProofs` | `CleanIsOnDisk` |
| `ContentsCorrect` | `BCacheProofs` | `ContentsAreStable` |
| `AllocationCorrect` | `InodesProofs` | `AllocationIsExact` |
| `FilesCorrect` | `InodesProofs` | `ImplementsFiles`: `Inodes` implements `AbstractFiles` |
| `CountsCorrect` | `UartProofs` | `CharsAreCounted` |
| `TtyCorrect` | `UartProofs` | `ImplementsTty`: `Uart` implements `AbstractTty` |
| `ConsoleCorrect` | `ConsoleProofs` | `ScreenShowsText` |

**Scheduler.**  The first part of `SchedulerProofs` says what the steps do to queues.  The theorems are for every set of
tasks with any priorities, every set of wait queues, every bound on nesting and every width of the clock
(`SchedulerAssumption`: idle is a task of priority IDLE, `NoTask` is none, the bounds are numbers).  The
inductive invariant `IInv` is the conjunction of the properties with what makes it inductive: the running
task is RUNNING; with no rescheduling pending it is the head of the tracked queue, and a pending one means
that a task of a higher priority is ready (otherwise `scheduler_rotate`, which does not refresh
`highest_ready_tracking`, could pick from an empty queue); what `walk` holds is asleep and only a HIGH
task with preemption enabled walks, and owes nothing (otherwise a wake up could switch in the middle of
the loop); and a task that owes a switch runs with preemption enabled.  Each action has its own lemma;
`Inductive` puts them together.  `FifoCorrect` needs of the invariant that a queue holds a task once: the
head that a post takes, or the last place a newcomer gets, is then the only change of order.

**Block driver.**  For every finite set of tasks, every size of the queue and every width of the indices
that the queue size divides (`VirtioAssumption`).  `BlkInv` follows a request through the driver: `Rings`
says that the entries of a ring between what its reader and its writer count are the ones to be read, and
no others, over the wrap of both the place and the index; `Avail`, `Taken` and `Used` say that whatever the
device or the handler will look at is the head of a request whose task waits; `Chains` and `Lists` that
the chains of requests and the free list share no descriptor, and that the free list has as many as
`free_slots` promises (`Counts`), so `submit_req` never walks off its end.  `BlkCorrect` maps a task to the
stage of its request, and every step to a stutter or the one step of `AbstractBlk`.

**Block cache.**  For any finite, not empty set of buffers, any finite set of tasks and any blocks and
values (`BCacheAssumption`).  `BCacheInv` adds to the properties: the list holds every buffer once;
`refcnt` is the number of tasks between `bcache_getblk` and `bcache_release` (`RefcntCounts`), so a buffer
that is taken for another block has no user; the mutex of a buffer is held by one of its users, and a
task that has passed the mutex has a valid buffer or fetches it itself (`MutexOrders`), so nobody uses a
buffer before the fetch that another task began is over.  `ContentsCorrect` follows action by action: the
contents of a block are those of its buffer if it has a valid one, and of the disk otherwise, and with
`CleanIsOnDisk` dropping a buffer changes nothing.

**Data blocks of files.**  For any finite disk, any files and any numbers of direct and indirect entries
(`InodesAssumption`), under `IndirectFromMkfs`: a file that outgrows its direct entries has an indirect
block, and no two files have the same.  `indirect_shared` shows that the condition is needed.  The
inductive invariant `InodesInv` has ownership and the bitmap by file and entry; `Beyond`: entries past
the length a file can have are 0; and `Durable`: the inode table has the size of each file, the entries of
all blocks below it, and no entry that the slot has not.  An allocation changes one entry, to a block no
entry has (`AllocStep`); a call that marks its inode makes the table equal to the slot (`MarkDurable`), one
that fails leaves both sizes (`UnmarkedDurable`); so a reuse of the slot (`ReuseStep`) can only clear entries
at or past the size, and what they named is what `lost` gains.  Both theorems follow from what each call
does to `Entry`.

**UART.**  For every ring buffer of two places or more, every fifo and every finite set of readers
(`UartAssumption`).  `UartInv` adds to `CharsAreCounted` that the receive interrupt is off from the
handler until the daemon has emptied the fifo (`OneSignal`), so that `fill_signal` is posted once.  The
refinement takes `rx_buffer` from tail to head, then the fifo, for what is unread; the arithmetic of the
indices is in `Wrap` and in the lemmas about `buffer_put` and `buffer_get`, and after them both are
`Append` and `Tail`.

**Console.**  For a screen of at least two rows, any number of columns, any tab stop, any banner and
any frame buffer with room for more than the screen (`ConsoleAssumption`).  `ConsoleInv` adds to `ScreenShowsText` the types, and that
the row of cells below the screen stays blank: `scroll` copies it into the last row.  Its other half
(`Stopped`) is a kernel that halted in a scroll its frame buffer is too small for, and moves no more.

Only model-checked: everything about the other modules.  Liveness is out
of the prover's reach and stays with TLC.  `Pages` and `Memory` are TLC's too, because they follow trees of
tables with RECURSIVE operators, which the prover does not take.  The refinements of `AbstractSync`,
`AbstractMemory` and of `Scheduler` by `KernelSync` are checked on instances only.

## What the violation runs show

Each quotes a line of the repository that the code does not keep; `PROJECT.json` has the quotations.

- `round_robin`: `tick_daemon` rotates the queue of its own priority, so NORMAL tasks never take turns.
- `orphans`: a thread that calls `exit_group` frees its parent and then writes to it.
- `zombie_blocks`: an exit that blocks in `release_fds` is RUNNING again when it is put on the list of zombies.
- `indirect_shared`: files created by the kernel share block 0 as their indirect block.
- `out_of_memory`: `vpage_map` gives back the tables it made but leaves the entries that name them; freeing
  the tree walks a page of the free list as a table, or gives it back again, and the kernel stops.
- `straddling`: `vpage_copyout` translates the first address of a buffer only; what crosses the end of the
  page is written into another page, possibly of another process.

## Read from the code

The following was met on the way.  What a property would notice is a hazard in `PROJECT.json`.

- A handler that wakes a task leaves its interrupt uncompleted until the interrupted task runs again
  (`arch/plic.c:137`).
- Pids wrap at 256 without a look at the table (`task.c:138`), and from 128 on `waitpid`, whose argument is
  an `int8_t`, does not recognise them (`sys_sync.c:39`).
- Without `Careful`, `ReferencesAreHeld` and `OpensTheNamedFile` do not hold: `file_alloc` does not mark
  its slot before the open waits for the inode, so that another open, or the `file_clone` of a task that
  clones its files, gets the same slot; the walks share the position of `strtok`; and two walks that
  create one name both add it.  Nor does `NamesAreInodes`: `write` on a directory is not refused.
- `exit_group` destroys threads without `release_fds` (`scheduler.c:367`): descriptors, references and
  mutexes they have are never given back.  `ReferencesAreHeld` counts them.
- A name that is too long is found out after its inode was allocated, which stays allocated.
- A program with threads that forks or loads another one: the copy marks pages that its threads write
  (`vpages.c:351`), and exec frees the tree that they run on (`task.c:610`).
- An exec that fails late leaks: the new tree when `transfer_argv` fails, and the page being read when the
  read fails (`elf.c:207`).  `PagesAreCounted` therefore speaks of pages that somebody refers to.
- A dirty block is never written: nothing calls `bcache_sync` (`bcache.c:184`).
- The error of `balloc` is stored as a block number (`inode.c:326`).  `Inodes` has this behaviour: it
  leaves ownership, bitmap and files intact, but the file keeps reporting a full disk while its slot is
  not reused.
- A write that fails after `balloc` leaves its inode unmarked (`file.c:106`): when the slot is reused the
  block is lost, allocated in the bitmap and in no file.
- `scroll` moves `DISPLAY_HEIGHT - 1` pixel rows up by eight and clears a row far below the screen
  (`bochs.c:287`): the last pixel row keeps the strokes that letters such as g have there.  `Console` has
  this, so `ScreenShowsText` speaks of the seven pixel rows above it, and of the cursor line.  The row
  that it clears lies past the 16 MiB that the device has by default (`CMakeLists.txt:122` sets no other
  size): there the first scroll is a page fault, and `kernel_trap_panic` stops the system.
- BARs larger than the distance between the fixed addresses would overlap; `Pci` has windows below it.

## Not modelled

Boot, context switch and trap entry are register level code whose effect is a step of the other modules.
String, format and conversion functions are pure; the two that matter here are inside their callers
(`strtok` in `Files`, the bitmap search in `balloc` and `ibm_alloc`).  User programs are open: a task may
make any call at any time, but for what `Orderly`, `Careful`, `Straddling` and `ThreadedCalls` exclude.
`inode_truncate`, `bfree` and `bbm_free` are not reached: the last one besides only from a `balloc` that
cannot read a block, where the driver panics.  Of modelled parts the following is left out, as no other part reads it:
the pixels of glyphs, the fields of ELF headers (a file is good, or is refused, at each place where the
loader looks), the speed and line registers of the UART, what the clock daemon displays, the dispatch
table of system calls, the copy of host files by mkfs, and the data of a file below the size of a block.
`PROJECT.json` says it part by part.

## Plan

What would add most next:

1. compositions: `Lifecycle` with locks and requests (`exit_group` kills an owner), `BCache` over
   `AbstractBlk`, `Files` over `Inodes`
2. proofs: `HeapIsTiled`, the primitives of `KernelSync` against `AbstractSync`
3. `Careful = FALSE` in `Files`, once `file_alloc` marks its slot and `strtok` has its position from the caller
