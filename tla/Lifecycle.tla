----------------------------- MODULE Lifecycle -----------------------------
(***************************************************************************)
(* The life of a task (core/task/task.c and the process system calls): the *)
(* task table, pids and thread groups, fork, clone, exit, exit_group, wait *)
(* and waitpid, and the zombies in between.                                *)
(*                                                                         *)
(* A task is the address of its structure: free() gives it back, and a     *)
(* pointer to it may outlive it.  A system call runs with the interrupts   *)
(* masked and is one action; sys_wait and sys_waitpid are one action per   *)
(* iteration of their loop.  Next has the exits whose release_fds finds    *)
(* every inode unlocked; LeavingSpec adds the others.                        *)
(***************************************************************************)
EXTENDS Integers, FiniteSets, SequencesExt

CONSTANTS
  Slots,     \* the addresses of task structures
  Idle,      \* the idle task
  InitTask,  \* the kernel thread that starts the first user task
  NoTask,    \* NULL
  MAX_TASK,
  PidMod,    \* 2^8 in the code: pid is a uint8_t
  MaxPid,    \* bound: no task is created once next_pid is past it
  Orderly    \* the programs reap their children before they exit, wait only for
             \* children, and leave exit_group to the leader of the group

ASSUME LifecycleAssumption ==
  /\ {Idle, InitTask} \subseteq Slots /\ Idle # InitTask /\ NoTask \notin Slots
  /\ PidMod \in Nat /\ MaxPid \in 1..(PidMod - 1) /\ Orderly \in BOOLEAN
  /\ MAX_TASK \in 2..(PidMod - 1)

VARIABLES
  st,           \* READY: also RUNNING; BLOCKED: in a wait; LEAVING: BLOCKED in release_fds
  pid, tgid,
  user,
  parent,
  zombies,      \* of each task, the children to be reaped
  want,         \* what the loop of sys_wait or sys_waitpid waits for
  table,        \* task_table.head
  active_task,  \* task_table.active_task
  next_pid

vars == <<st, pid, tgid, user, parent, zombies, want, table, active_task, next_pid>>

Nothing == -2
AnyChild == -1
-----------------------------------------------------------------------------
\* The value of a uint8_t that went through the int8_t of the system calls
Signed(n) == IF n < PidMod \div 2 THEN n ELSE n - PidMod

find_pid_cb(z, n) == pid[z] = Signed(n)

Living == {t \in Slots : st[t] # "FREE"}
Children(p) == {t \in Living : parent[t] = p}
Group(p) == {t \in Living : tgid[t] = tgid[p]}

Runs(p) == st[p] = "READY" /\ want[p] = Nothing
-----------------------------------------------------------------------------
TableFull == active_task >= MAX_TASK

\* alloc_squeletton and activate_task: a child c of p in the thread group
Created(p, c, isUser, group) ==
  /\ next_pid <= MaxPid /\ ~TableFull /\ st[c] = "FREE"
  /\ st' = [st EXCEPT ![c] = "READY"]
  /\ pid' = [pid EXCEPT ![c] = next_pid]
  /\ tgid' = [tgid EXCEPT ![c] = group]
  /\ user' = [user EXCEPT ![c] = isUser]
  /\ parent' = [parent EXCEPT ![c] = p]
  /\ zombies' = [zombies EXCEPT ![c] = <<>>]
  /\ want' = [want EXCEPT ![c] = Nothing]
  /\ table' = Append(table, c)
  /\ active_task' = active_task + 1
  /\ next_pid' = (next_pid + 1) % PidMod

task_start_userland(c) ==
  /\ Runs(InitTask) /\ Children(InitTask) = {}
  /\ Created(InitTask, c, TRUE, next_pid)

task_fork(p, c) == Runs(p) /\ user[p] /\ Created(p, c, TRUE, next_pid)

\* task_clone with CLONE_VM: a thread
task_clone(p, c) == Runs(p) /\ user[p] /\ Created(p, c, TRUE, tgid[p])

\* task_clone when a page or the map of the child cannot be allocated: the pid
\* is used up
task_clone_fails(p) ==
  /\ Runs(p) /\ user[p] /\ next_pid <= MaxPid /\ ~TableFull
  /\ next_pid' = (next_pid + 1) % PidMod
  /\ UNCHANGED <<st, pid, tgid, user, parent, zombies, want, table, active_task>>
-----------------------------------------------------------------------------
\* Faulty remove_from_all_queues: wait_node stays on the list of zombies
RemovedFromTable(D) == zombies

\* remove_from_all_queues, for the tasks D
RemovedFromZombies(D) == [t \in Slots |-> SelectSeq(zombies[t], LAMBDA z : z \notin D)]

\* Faulty task_destroy: only one task is taken off the count
task_destroy_uncounted(D) ==
  /\ table' = SelectSeq(table, LAMBDA t : t \notin D)
  /\ active_task' = IF D = {} THEN active_task ELSE active_task - 1
  /\ UNCHANGED <<pid, tgid, user, parent, next_pid>>

\* task_destroy, for each task of D, which zombies and st no longer hold
task_destroy(D) ==
  /\ table' = SelectSeq(table, LAMBDA t : t \notin D)
  /\ active_task' = active_task - Cardinality(D)
  /\ UNCHANGED <<pid, tgid, user, parent, next_pid>>

\* Faulty task_zombify: the parent is not woken
ZombifiedSilently(p, D) ==
  [t \in Slots |-> IF t = p THEN "ZOMBIE" ELSE IF t \in D THEN "FREE" ELSE st[t]]

\* The states once the tasks D are destroyed and p is a zombie: a parent that
\* waits is woken
Zombified(p, D) ==
  [t \in Slots |-> IF t = p THEN "ZOMBIE"
                   ELSE IF t \in D THEN "FREE"
                   ELSE IF t = parent[p] /\ st[t] = "BLOCKED" THEN "READY"
                   ELSE st[t]]

\* task_zombify of p once the tasks D are destroyed: its parent may be one of
\* them, its structure is written to all the same
task_zombify(p, D) ==
  /\ parent[p] # NoTask
  /\ st' = Zombified(p, D)
  /\ zombies' = [RemovedFromZombies(D) EXCEPT ![parent[p]] = Append(@, p)]

scheduler_exit(p) ==
  /\ Runs(p) /\ user[p]
  /\ Orderly => Children(p) = {}
  /\ task_zombify(p, {}) /\ task_destroy({}) /\ UNCHANGED want

\* exit_tgid_cb on the other tasks of the group, then scheduler_exit.  A kernel
\* thread always ends in it.
scheduler_exit_group(p) ==
  /\ Runs(p) /\ p # Idle
  /\ Orderly /\ user[p] =>
       /\ pid[p] = tgid[p]
       /\ \A t \in Group(p) : Children(t) \subseteq Group(p)
  /\ ~user[p] => Children(p) # {}
  /\ task_zombify(p, Group(p) \ {p}) /\ task_destroy(Group(p) \ {p})
  /\ UNCHANGED want
-----------------------------------------------------------------------------
\* sys_wait and sys_waitpid start; the argument went through an int8_t.
Wait(p, w) ==
  /\ Runs(p) /\ user[p]
  /\ Orderly => Children(p) # {} /\ (w = AnyChild \/ \E c \in Children(p) : pid[c] = w)
  /\ want' = [want EXCEPT ![p] = w]
  /\ UNCHANGED <<st, pid, tgid, user, parent, zombies, table, active_task, next_pid>>

\* The zombies of p that the loop accepts, in order
Found(p) ==
  SelectSeq(zombies[p], LAMBDA z : want[p] = AnyChild \/ find_pid_cb(z, want[p]))

\* The loop ends: the zombie is unlinked, task_reap destroys it unless it is not
\* a ZOMBIE.
Reap(p) ==
  /\ st[p] = "READY" /\ want[p] # Nothing /\ Found(p) # <<>>
  /\ LET z == Head(Found(p))
         D == IF st[z] = "ZOMBIE" THEN {z} ELSE {}
     IN  /\ st' = [t \in Slots |-> IF t \in D THEN "FREE" ELSE st[t]]
         /\ zombies' = RemovedFromZombies({z})
         /\ want' = [want EXCEPT ![p] = Nothing]
         /\ task_destroy(D)

\* scheduler_block_on on its own zombie_wq
BlockOn(p) ==
  /\ st[p] = "READY" /\ want[p] # Nothing /\ Found(p) = <<>>
  /\ st' = [st EXCEPT ![p] = "BLOCKED"]
  /\ UNCHANGED <<pid, tgid, user, parent, zombies, want, table, active_task, next_pid>>
-----------------------------------------------------------------------------
\* The daemons, which never exit, are left out.
Init ==
  /\ st = [t \in Slots |-> IF t \in {Idle, InitTask} THEN "READY" ELSE "FREE"]
  /\ pid = [t \in Slots |-> IF t = InitTask THEN 1 ELSE 0]
  /\ tgid = pid
  /\ user = [t \in Slots |-> FALSE]
  /\ parent = [t \in Slots |-> IF t = InitTask THEN Idle ELSE NoTask]
  /\ zombies = [t \in Slots |-> <<>>]
  /\ want = [t \in Slots |-> Nothing]
  /\ table = <<Idle, InitTask>>
  /\ active_task = 2
  /\ next_pid = 2

Next ==
  \/ \E c \in Slots : task_start_userland(c)
  \/ \E p, c \in Slots : task_fork(p, c) \/ task_clone(p, c)
  \/ \E p \in Slots :
       \/ task_clone_fails(p) \/ scheduler_exit(p) \/ scheduler_exit_group(p)
       \/ Reap(p) \/ BlockOn(p) \/ \E w \in {AnyChild} \cup 0..(PidMod - 1) : Wait(p, w)

Spec == Init /\ [][Next]_vars

\* release_fds blocks: inode_put finds the mutex of an inode locked.  The task
\* that is already a ZOMBIE is BLOCKED ...
release_fds_blocks(p) ==
  /\ Runs(p) /\ user[p]
  /\ st' = [st EXCEPT ![p] = "LEAVING"]
  /\ UNCHANGED <<pid, tgid, user, parent, zombies, want, table, active_task, next_pid>>

\* ... and once woken it runs on from there, READY and in a ready queue.
release_fds_ends(p) ==
  /\ st[p] = "LEAVING"
  /\ st' = [Zombified(p, {}) EXCEPT ![p] = "READY"]
  /\ zombies' = [zombies EXCEPT ![parent[p]] = Append(@, p)]
  /\ UNCHANGED <<pid, tgid, user, parent, want, table, active_task, next_pid>>

\* With exits that find an inode locked
LeavingSpec ==
  /\ Init
  /\ [][Next \/ \E p \in Slots : release_fds_blocks(p) \/ release_fds_ends(p)]_vars
-----------------------------------------------------------------------------
(* Properties.                                                             *)

\* The types of the table and of the task structures
TypeOK ==
  /\ st \in [Slots -> {"FREE", "READY", "BLOCKED", "LEAVING", "ZOMBIE"}]
  /\ pid \in [Slots -> 0..(PidMod - 1)] /\ tgid \in [Slots -> 0..(PidMod - 1)]
  /\ user \in [Slots -> BOOLEAN]
  /\ parent \in [Slots -> Slots \cup {NoTask}]
  /\ zombies \in [Slots -> Seq(Slots)]
  /\ want \in [Slots -> {Nothing, AnyChild} \cup 0..(PidMod - 1)]
  /\ table \in Seq(Slots)
  /\ active_task \in 0..MAX_TASK /\ next_pid \in 0..(PidMod - 1)

\* The table lists the living tasks, zombies included, once, and active_task
\* counts them, so a full table is detected and space in it is not lost.
TableIsLiving ==
  /\ TypeOK
  /\ IsInjective(table) /\ Range(table) = Living
  /\ active_task = Len(table)

\* A zombie is on the list of its parent, once, and on no other list; nothing
\* else is on such a list.
ZombiesAwaitTheirParent ==
  \A p \in Living :
    /\ IsInjective(zombies[p])
    /\ Range(zombies[p]) = {c \in Children(p) : st[c] = "ZOMBIE"}

\* A parent that is blocked in a wait has no zombie that the wait accepts.
WaitersHaveNoZombie == \A p \in Slots : st[p] = "BLOCKED" => Found(p) = <<>>

\* A parent pointer is NULL or points to a task.
ParentIsLive ==
  \A t \in Living : parent[t] = NoTask \/ parent[t] \in Living

\* What is on a list of zombies has terminated: it is never scheduled again and
\* task_reap frees it.
ZombiesAreTerminated ==
  \A p \in Living : \A z \in Range(zombies[p]) : st[z] = "ZOMBIE"
=============================================================================
