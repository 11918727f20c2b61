----------------------------- MODULE Scheduler -----------------------------
(***************************************************************************)
(* The priority scheduler of the kernel (core/sched/scheduler.c) with the  *)
(* parts of core/task/task.c that move a task between its queues.          *)
(*                                                                         *)
(* One hart: an entry point that masks the interrupts is an atomic action. *)
(* scheduler_enable_preempt does not mask them, so it is also modelled     *)
(* statement by statement.  The caller is always the active task (an       *)
(* interrupt handler runs on the stack of the task it interrupted).  The   *)
(* guards of the actions under "Next" are what the callers guarantee.      *)
(***************************************************************************)
EXTENDS Lists

CONSTANTS
  Tasks,       \* every task structure that may exist
  Idle,        \* the idle task, created by task_init and active at boot
  NoTask,      \* container_of() of the NULL that clist_first gives on an empty list
  Prio,        \* the priority field of each task, fixed at its creation
  Queues,      \* the wait queues (a mutex, a semaphore, a task's zombie_wq)
  TimeMod,     \* 2^32 in the code: delay + time_seconds() is a uint32_t
  MaxSeconds,  \* the largest value of time_seconds(), ticks / ITFREQ
  MaxPreempt   \* bound on the nesting of spinlocks

HIGH == 0
NORMAL == 1
LOW == 2
IDLE == 3
PRIORITY_COUNT == 4
Priorities == 0..(PRIORITY_COUNT - 1)

ASSUME SchedulerAssumption ==
  /\ Idle \in Tasks
  /\ NoTask \notin Tasks
  /\ Prio \in [Tasks -> Priorities]
  /\ Prio[Idle] = IDLE
  /\ MaxPreempt \in Nat \ {0}
  /\ TimeMod \in Nat \ {0}
  /\ MaxSeconds \in 0..(TimeMod - 1)

VARIABLES
  active,         \* task.c: the running task
  state,          \* the state field of each task
  ready,          \* ready_queues; the running task stays in its queue
  highest,        \* highest_ready_tracking
  preempt_count,
  need_resched,
  sleeping,       \* sleeping_head, sorted by wake up date
  wake_up_time,
  wq,             \* the tasks of each wait queue
  now,            \* time_seconds()
  walk,           \* sleepers that scheduler_wake_sleeping has still to visit
  owes            \* what each task has still to do, when it runs again, in
                  \* the scheduler function it was interrupted or switched
                  \* out in: "switch" in scheduler_block_on_locked, "test",
                  \* "clear" or "rotate" in scheduler_enable_preempt

vars == <<active, state, ready, highest, preempt_count, need_resched,
          sleeping, wake_up_time, wq, now, walk, owes>>

States == {"NEW", "RUNNING", "READY", "SLEEPING", "BLOCKED", "TERMINATED", "ZOMBIE"}
Unlocking == {"test", "clear", "rotate"}
Debts == {"nothing", "switch"} \cup Unlocking
-----------------------------------------------------------------------------
\* clist_first followed by container_of
First(q) == IF q = <<>> THEN NoTask ELSE Head(q)
-----------------------------------------------------------------------------
(* The steps that the entry points are made of, as functions of the ready  *)
(* queues rd, the tracked priority h and the task states st.               *)

\* Faulty priority_higher: equal priorities preempt
priority_not_lower(p, other) == p <= other

priority_higher(p, other) == p < other

Enqueued(rd, t) == [rd EXCEPT ![Prio[t]] = Append(@, t)]

\* Faulty ready_queue_remove: the task stays in its queue
NotDequeued(rd, t) == rd

Dequeued(rd, t) == [rd EXCEPT ![Prio[t]] = Without(@, t)]

\* Faulty update_highest: never raises the tracked priority
update_highest_forgotten(h, t) == h

update_highest(h, t) == IF priority_higher(Prio[t], h) THEN Prio[t] ELSE h

\* Faulty refresh_highest_prio: no scan
refresh_without_scan(rd, h) == h

\* The scan only goes towards the lower priorities.
refresh_highest_prio(rd, h) ==
  IF rd[h] = <<>> /\ \E p \in (h + 1)..IDLE : rd[p] # <<>>
    THEN CHOOSE p \in (h + 1)..IDLE :
           rd[p] # <<>> /\ \A r \in (h + 1)..(p - 1) : rd[r] = <<>>
    ELSE h

\* task_switch_active, on the states
Switched(st, next) ==
  [t \in Tasks |-> IF t = next THEN "RUNNING"
                   ELSE IF t = active /\ st[t] = "RUNNING" THEN "READY"
                   ELSE st[t]]

do_ctx_switch(st, next) ==
  /\ active' = next
  /\ state' = Switched(st, next)

NoSwitch(st) ==
  /\ active' = active
  /\ state' = st

\* Faulty check_and_preempt: no delay_schedule when preemption is disabled
check_without_delay(st, t) ==
  /\ IF priority_higher(Prio[t], Prio[active]) /\ preempt_count = 0
       THEN do_ctx_switch(st, t)
       ELSE NoSwitch(st)
  /\ UNCHANGED need_resched

\* check_and_preempt(t), on the states st
check_and_preempt(st, t) ==
  IF ~priority_higher(Prio[t], Prio[active])
    THEN NoSwitch(st) /\ UNCHANGED need_resched
    ELSE IF preempt_count > 0
           THEN NoSwitch(st) /\ need_resched' = TRUE
           ELSE do_ctx_switch(st, t) /\ UNCHANGED need_resched

\* switch_out_active, once the caller has left its ready queue
switch_out_active(st, rd, h) ==
  LET p == refresh_highest_prio(rd, h)
  IN  /\ ready' = rd
      /\ highest' = p
      /\ do_ctx_switch(st, First(rd[p]))

\* The body of scheduler_rotate with preemption enabled: no refresh before it.
rotate(st, rd) ==
  LET next == First(Rotated(rd[highest]))
  IN  /\ ready' = [rd EXCEPT ![highest] = Rotated(@)]
      /\ highest' = highest
      /\ IF next = active THEN NoSwitch(st) ELSE do_ctx_switch(st, next)

\* The state after task_wake: RUNNING, although the task does not run yet
Woken(st, t) ==
  [st EXCEPT ![t] = IF @ \in {"SLEEPING", "BLOCKED"} THEN "RUNNING" ELSE @]

\* Faulty remove_from_blocking_queues: wait_node is forgotten
NotRemovedFromWaitQueues(w, t) == w

RemovedFromWaitQueues(w, t) == [q \in Queues |-> Without(w[q], t)]
-----------------------------------------------------------------------------
(* The entry points, without the conditions their callers guarantee.       *)

scheduler_disable_preempt ==
  /\ preempt_count' = preempt_count + 1
  /\ UNCHANGED <<active, state, ready, highest, need_resched, sleeping,
                 wake_up_time, wq, now, walk, owes>>

\* With the interrupts masked
scheduler_enable_preempt ==
  /\ preempt_count' = preempt_count - 1
  /\ IF preempt_count = 1 /\ need_resched
       THEN need_resched' = FALSE /\ rotate(state, ready)
       ELSE UNCHANGED <<need_resched, active, state, ready, highest>>
  /\ UNCHANGED <<sleeping, wake_up_time, wq, now, walk, owes>>

\* With the interrupts enabled, one statement at a time
enable_preempt_dec ==
  /\ preempt_count' = preempt_count - 1
  /\ owes' = [owes EXCEPT ![active] = "test"]
  /\ UNCHANGED <<active, state, ready, highest, need_resched, sleeping,
                 wake_up_time, wq, now, walk>>

enable_preempt_test ==
  /\ owes' = [owes EXCEPT ![active] =
                IF preempt_count = 0 /\ need_resched THEN "clear" ELSE "nothing"]
  /\ UNCHANGED <<active, state, ready, highest, preempt_count, need_resched,
                 sleeping, wake_up_time, wq, now, walk>>

enable_preempt_clear ==
  /\ need_resched' = FALSE
  /\ owes' = [owes EXCEPT ![active] = "rotate"]
  /\ UNCHANGED <<active, state, ready, highest, preempt_count, sleeping,
                 wake_up_time, wq, now, walk>>

enable_preempt_rotate ==
  /\ IF preempt_count > 0
       THEN UNCHANGED <<active, state, ready, highest>>
       ELSE rotate(state, ready)
  /\ owes' = [owes EXCEPT ![active] = "nothing"]
  /\ UNCHANGED <<preempt_count, need_resched, sleeping, wake_up_time, wq,
                 now, walk>>

\* Faulty scheduler_rotate: no test of preempt_count
rotate_unguarded ==
  /\ rotate(state, ready)
  /\ UNCHANGED <<preempt_count, need_resched, sleeping, wake_up_time, wq,
                 now, walk, owes>>

scheduler_rotate ==
  /\ IF preempt_count > 0
       THEN UNCHANGED <<active, state, ready, highest>>
       ELSE rotate(state, ready)
  /\ UNCHANGED <<preempt_count, need_resched, sleeping, wake_up_time, wq,
                 now, walk, owes>>

\* activate_task and scheduler_admit
scheduler_admit(t) ==
  /\ ready' = Enqueued(ready, t)
  /\ highest' = update_highest(highest, t)
  /\ check_and_preempt([state EXCEPT ![t] = "READY"], t)
  /\ UNCHANGED <<preempt_count, sleeping, wake_up_time, wq, now, walk, owes>>

scheduler_ready_task(t) ==
  /\ ready' = Enqueued(ready, t)
  /\ highest' = update_highest(highest, t)
  /\ check_and_preempt(Woken(state, t), t)
  /\ sleeping' = Without(sleeping, t)
  /\ wq' = RemovedFromWaitQueues(wq, t)
  /\ UNCHANGED <<preempt_count, wake_up_time, now, owes>>

\* scheduler_sleep(delay)
scheduler_sleep(delay) ==
  LET date == [wake_up_time EXCEPT ![active] = (delay + now) % TimeMod]
  IN  /\ wake_up_time' = date
      /\ sleeping' = InsertSorted(sleeping, active, date)
      /\ switch_out_active([state EXCEPT ![active] = "SLEEPING"],
                           Dequeued(ready, active), highest)
      /\ UNCHANGED <<preempt_count, need_resched, wq, now, walk, owes>>

\* Faulty wake_up_sleeping_cb: a sleeper is not woken in the second of its date
wake_up_late(t) ==
  /\ walk' = Tail(walk)
  /\ IF wake_up_time[t] >= now
       THEN UNCHANGED <<active, state, ready, highest, preempt_count,
                        need_resched, sleeping, wake_up_time, wq, now, owes>>
       ELSE scheduler_ready_task(t)

\* One iteration of the loop of scheduler_wake_sleeping
wake_up_sleeping_cb(t) ==
  /\ walk' = Tail(walk)
  /\ IF wake_up_time[t] > now
       THEN UNCHANGED <<active, state, ready, highest, preempt_count,
                        need_resched, sleeping, wake_up_time, wq, now, owes>>
       ELSE scheduler_ready_task(t)

\* Faulty scheduler_block_on: the task is put at the front of the wait queue
block_on_at_front(q) ==
  /\ wq' = [wq EXCEPT ![q] = <<active>> \o @]
  /\ switch_out_active([state EXCEPT ![active] = "BLOCKED"],
                       Dequeued(ready, active), highest)
  /\ UNCHANGED <<preempt_count, need_resched, sleeping, wake_up_time, now,
                 walk, owes>>

\* move_to_wq, then switch_out_active
scheduler_block_on(q) ==
  /\ wq' = [wq EXCEPT ![q] = Append(@, active)]
  /\ switch_out_active([state EXCEPT ![active] = "BLOCKED"],
                       Dequeued(ready, active), highest)
  /\ UNCHANGED <<preempt_count, need_resched, sleeping, wake_up_time, now,
                 walk, owes>>

\* move_to_wq, then the scheduler_enable_preempt of spinlock_unlock, which may
\* already switch to another task, then switch_out_active
scheduler_block_on_locked(q) ==
  LET rd == Dequeued(ready, active)
      st == [state EXCEPT ![active] = "BLOCKED"]
  IN  /\ wq' = [wq EXCEPT ![q] = Append(@, active)]
      /\ preempt_count' = preempt_count - 1
      /\ IF preempt_count = 1 /\ need_resched
           THEN /\ need_resched' = FALSE
                /\ rotate(st, rd)
                /\ owes' = [owes EXCEPT ![active] = "switch"]
           ELSE /\ switch_out_active(st, rd, highest)
                /\ UNCHANGED <<need_resched, owes>>
      /\ UNCHANGED <<sleeping, wake_up_time, now, walk>>

\* The switch_out_active that ends scheduler_block_on_locked
block_on_locked_resume ==
  /\ switch_out_active(state, ready, highest)
  /\ owes' = [owes EXCEPT ![active] = "nothing"]
  /\ UNCHANGED <<preempt_count, need_resched, sleeping, wake_up_time, wq,
                 now, walk>>

scheduler_block_on_with_timeout(q, delay) ==
  LET date == [wake_up_time EXCEPT ![active] = (delay + now) % TimeMod]
  IN  /\ delay > 0
      /\ wq' = [wq EXCEPT ![q] = Append(@, active)]
      /\ wake_up_time' = date
      /\ sleeping' = InsertSorted(sleeping, active, date)
      /\ switch_out_active([state EXCEPT ![active] = "SLEEPING"],
                           Dequeued(ready, active), highest)
      /\ UNCHANGED <<preempt_count, need_resched, now, walk, owes>>

\* scheduler_exit: task_zombify wakes the parent that waits on q, its
\* zombie_wq, then the zombie is switched out for ever
scheduler_exit(q) ==
  LET rd     == Dequeued(ready, active)
      st     == [state EXCEPT ![active] = "ZOMBIE"]
      parent == First(wq[q])
      rdw    == Enqueued(rd, parent)
      hw     == update_highest(highest, parent)
      stw    == Woken(st, parent)
  IN  /\ IF wq[q] = <<>>
           THEN switch_out_active(st, rd, highest) /\ UNCHANGED <<sleeping, wq>>
           ELSE /\ sleeping' = Without(sleeping, parent)
                /\ wq' = RemovedFromWaitQueues(wq, parent)
                /\ IF priority_higher(Prio[parent], Prio[active])
                     THEN /\ ready' = rdw
                          /\ highest' = hw
                          /\ do_ctx_switch(stw, parent)
                     ELSE switch_out_active(stw, rdw, hw)
      /\ UNCHANGED <<preempt_count, need_resched, wake_up_time, now, walk, owes>>

\* task_destroy: the structure is freed, a later task may reuse it
task_destroy(t) ==
  /\ state' = [state EXCEPT ![t] = "TERMINATED"]
  /\ ready' = Dequeued(ready, t)
  /\ sleeping' = Without(sleeping, t)
  /\ wq' = RemovedFromWaitQueues(wq, t)
  /\ owes' = [owes EXCEPT ![t] = "nothing"]
  /\ UNCHANGED <<active, highest, preempt_count, need_resched, wake_up_time,
                 now, walk>>
-----------------------------------------------------------------------------
(* The calls, under the conditions the callers guarantee.                  *)

\* The active task is in no function of the scheduler.
Calls == active \in Tasks /\ walk = <<>> /\ owes[active] = "nothing"

\* An interrupt handler calls, perhaps inside scheduler_enable_preempt.
Interrupts == active \in Tasks /\ walk = <<>> /\ owes[active] # "switch"

\* A task that may block holds no spinlock and is not the idle task.
MayBlock == Calls /\ active # Idle /\ preempt_count = 0

Init ==
  /\ active = Idle
  /\ state = [t \in Tasks |-> IF t = Idle THEN "RUNNING" ELSE "NEW"]
  /\ ready = [p \in Priorities |-> IF p = IDLE THEN <<Idle>> ELSE <<>>]
  /\ highest = IDLE
  /\ preempt_count = 0
  /\ need_resched = FALSE
  /\ sleeping = <<>>
  /\ wake_up_time = [t \in Tasks |-> 0]
  /\ wq = [q \in Queues |-> <<>>]
  /\ now = 0
  /\ walk = <<>>
  /\ owes = [t \in Tasks |-> "nothing"]

\* activate_task on a structure that alloc_squeletton gives
Admit(t) == Calls /\ state[t] \in {"NEW", "TERMINATED"} /\ scheduler_admit(t)

DisablePreempt ==
  Interrupts /\ preempt_count < MaxPreempt /\ scheduler_disable_preempt

EnablePreempt == Interrupts /\ preempt_count > 0 /\ scheduler_enable_preempt

\* A kernel thread that unlocks the one spinlock it holds, with the interrupts
\* enabled; it goes on when no handler holds one on top of it
EnablePreemptDec == Calls /\ preempt_count = 1 /\ enable_preempt_dec

EnablePreemptTest ==
  owes[active] = "test" /\ preempt_count = 0 /\ enable_preempt_test

EnablePreemptClear ==
  owes[active] = "clear" /\ preempt_count = 0 /\ enable_preempt_clear

EnablePreemptRotate ==
  owes[active] = "rotate" /\ preempt_count = 0 /\ enable_preempt_rotate

\* tick_daemon
Rotate == Calls /\ scheduler_rotate

\* mutex_unlock, sem_post, and scheduler_wake_waiting_queue on a zombie_wq,
\* which has one waiter: the head of the wait queue is made ready.  A handler
\* only calls sem_post, which holds the spinlock of the semaphore.
ReadyTask(q) ==
  /\ Interrupts /\ (owes[active] = "nothing" \/ preempt_count > 0)
  /\ wq[q] # <<>> /\ scheduler_ready_task(Head(wq[q])) /\ UNCHANGED walk

Sleep(delay) == MayBlock /\ scheduler_sleep(delay)

\* tick_daemon, whose priority is HIGH: the loop never switches
WakeSleeping ==
  /\ Calls /\ preempt_count = 0 /\ Prio[active] = HIGH /\ sleeping # <<>>
  /\ walk' = sleeping
  /\ UNCHANGED <<active, state, ready, highest, preempt_count, need_resched,
                 sleeping, wake_up_time, wq, now, owes>>

WakeSleepingNext == walk # <<>> /\ wake_up_sleeping_cb(Head(walk))

\* sys_wait, sys_waitpid
BlockOn(q) == MayBlock /\ scheduler_block_on(q)

\* mutex_lock and sem_wait, which hold the one spinlock of q
BlockOnLocked(q) ==
  Calls /\ active # Idle /\ preempt_count = 1 /\ scheduler_block_on_locked(q)

BlockOnLockedResume == owes[active] = "switch" /\ block_on_locked_resume

BlockOnWithTimeout(q, delay) ==
  MayBlock /\ scheduler_block_on_with_timeout(q, delay)

Exit(q) == MayBlock /\ Len(wq[q]) <= 1 /\ scheduler_exit(q)

\* task_reap and exit_tgid_cb
Destroy(t) ==
  /\ Calls /\ preempt_count = 0
  /\ t \notin {active, Idle} /\ state[t] \notin {"NEW", "TERMINATED"}
  /\ task_destroy(t)

\* time_irq_handler, masked during the loop: ticks is a uint32_t and wraps
Clock ==
  /\ Interrupts
  /\ now' = IF now = MaxSeconds THEN 0 ELSE now + 1
  /\ UNCHANGED <<active, state, ready, highest, preempt_count, need_resched,
                 sleeping, wake_up_time, wq, walk, owes>>

Next ==
  \/ DisablePreempt \/ EnablePreempt \/ Rotate
  \/ EnablePreemptDec \/ EnablePreemptTest \/ EnablePreemptClear \/ EnablePreemptRotate
  \/ WakeSleeping \/ WakeSleepingNext \/ BlockOnLockedResume \/ Clock
  \/ \E q \in Queues : ReadyTask(q) \/ BlockOn(q) \/ BlockOnLocked(q) \/ Exit(q)
  \/ \E t \in Tasks : Admit(t) \/ Destroy(t)
  \/ \E delay \in 0..(TimeMod - 1) :
       Sleep(delay) \/ \E q \in Queues : BlockOnWithTimeout(q, delay)

Spec == Init /\ [][Next]_vars
-----------------------------------------------------------------------------
(* Invariants.                                                             *)

Waiting(t) == \E q \in Queues : t \in Range(wq[q])

\* The types of the scheduler's state.  In particular active is a task: no
\* switch ever follows the NULL that clist_first returns on an empty queue.
TypeOK ==
  /\ active \in Tasks
  /\ state \in [Tasks -> States]
  /\ ready \in [Priorities -> Seq(Tasks)]
  /\ highest \in Priorities
  /\ preempt_count \in 0..MaxPreempt
  /\ need_resched \in BOOLEAN
  /\ sleeping \in Seq(Tasks)
  /\ wake_up_time \in [Tasks -> 0..(TimeMod - 1)]
  /\ wq \in [Queues -> Seq(Tasks)]
  /\ now \in 0..MaxSeconds
  /\ walk \in Seq(Tasks)
  /\ owes \in [Tasks -> Debts]

\* A task is in the ready queue of its priority exactly when it runs or could
\* run, is in no other ready queue, and is there once.
ReadyQueuesMatchStates ==
  /\ \A p \in Priorities, t \in Tasks :
       t \in Range(ready[p]) <=> Prio[t] = p /\ state[t] \in {"READY", "RUNNING"}
  /\ \A p \in Priorities : IsInjective(ready[p])

\* A task is on the sleeping list exactly when it sleeps; a blocked task waits
\* on a wait queue, and whoever waits is blocked, or sleeps with a timeout.  It
\* waits on one queue at a time, once.
BlockingQueuesMatchStates ==
  /\ \A t \in Tasks : t \in Range(sleeping) <=> state[t] = "SLEEPING"
  /\ \A t \in Tasks : state[t] = "BLOCKED" => Waiting(t)
  /\ \A t \in Tasks : Waiting(t) => state[t] \in {"BLOCKED", "SLEEPING"}
  /\ IsInjective(sleeping)
  /\ \A q \in Queues : IsInjective(wq[q])
  /\ \A q, r \in Queues : q # r => Range(wq[q]) \cap Range(wq[r]) = {}

\* highest_ready_tracking never misses a ready task: scheduler_rotate may pick
\* the queue it names without a refresh, and refresh_highest_prio may scan only
\* downwards.  What runs is the head of the tracked queue, unless a rescheduling is pending:
\* preemption is disabled or scheduler_enable_preempt is about to clear the flag
\* and rotate, and a task of a higher priority is ready.
HeadRuns ==
  /\ \A p \in Priorities : p < highest => ready[p] = <<>>
  /\ need_resched => /\ preempt_count > 0 \/ owes[active] \in {"test", "clear"}
                     /\ priority_higher(highest, Prio[active])
  /\ ~need_resched /\ owes[active] # "rotate" => active = First(ready[highest])
  /\ state[active] = "RUNNING"

\* Priority scheduling: with preemption enabled, no ready task has a higher
\* priority than the running one, but for the statements with which
\* scheduler_enable_preempt gives the processor up.
HighestPriorityRuns ==
  preempt_count = 0 /\ owes[active] \notin Unlocking =>
    \A t \in Tasks : state[t] \in {"READY", "RUNNING"} =>
                       ~priority_higher(Prio[t], Prio[active])

\* A task that scheduler_block_on_locked switched out early calls
\* switch_out_active again after it was woken: that second switch goes to the
\* task itself, so a task that was given the mutex or the semaphore keeps the
\* processor.
OwedSwitchIsToSelf ==
  owes[active] = "switch" =>
    First(ready[refresh_highest_prio(ready, highest)]) = active

\* The sleeping list stays sorted by wake up date.
SleepersSorted == SortedBy(sleeping, wake_up_time)

\* While scheduler_wake_sleeping runs, the sleepers it has passed are not due,
\* and those ahead of it are all still asleep: no sleeper is skipped because a
\* callback unlinked a node.
WalkIsSound ==
  walk # <<>> =>
    /\ Range(walk) \subseteq Range(sleeping)
    /\ \A t \in Range(sleeping) \ Range(walk) : wake_up_time[t] > now
    /\ Prio[active] = HIGH
    /\ preempt_count = 0

\* The sleepers are in the order of their dates, whatever the callbacks of the
\* walk unlink, and the walk, which visits them all, passes none that is due.
SleepersInOrder == SleepersSorted /\ WalkIsSound

\* No context switch happens in a section with preemption disabled.
NoSwitchWhenPreemptDisabled ==
  [][active' # active => preempt_count' = 0]_vars

\* A wait queue is served in the order of arrival: a newcomer never stands
\* before a task that waits already, and of two waiters the second never leaves
\* before the first, unless it is destroyed or its timeout fires.
FifoWakeUp ==
  [][\A q \in Queues :
       /\ \A i, j \in DOMAIN wq'[q] :
            i < j /\ wq'[q][j] \in Range(wq[q]) => wq'[q][i] \in Range(wq[q])
       /\ \A i, j \in DOMAIN wq[q] :
            /\ i < j
            /\ wq[q][j] \notin Range(wq'[q])
            /\ state'[wq[q][j]] # "TERMINATED"
            /\ walk = <<>>
            => wq[q][i] \notin Range(wq'[q])]_vars
=============================================================================
