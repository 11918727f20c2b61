----------------------------- MODULE KernelSync -----------------------------
(***************************************************************************)
(* The callers of the scheduler: spinlocks, mutexes, semaphores (core/sync),*)
(* the timer interrupt and its daemon (core/time), and tasks that use them. *)
(*                                                                         *)
(* todo[t] is the kernel code that t has still to run, one statement per   *)
(* call of the scheduler; it is empty in user code and between two calls.  *)
(* An interrupt puts the statements of its handler in front of the code it *)
(* interrupts, so a task that a handler switches out resumes inside the    *)
(* handler.  System calls run with the interrupts masked; kernel threads   *)
(* run with the interrupts enabled, except in sections that mask them.     *)
(***************************************************************************)
EXTENDS Scheduler, FiniteSets

CONSTANTS
  Sems, Mutexes,   \* their wait queues are the Queues of Scheduler
  KThreads,        \* tasks whose kernel code runs with interrupts enabled
  ClockDaemon, TickDaemon,
  ClockSem, TickSem,  \* posted by time_irq_handler
  IoSem,           \* posted by the handler of a device
  ITFREQ,          \* timer interrupts per second
  TickMod,         \* 2^32 in the code: ticks is a uint32_t
  Spawns,          \* the tasks that each task creates before it does its work
  Delays,          \* arguments of sys_sleep
  MaxCount         \* bound on the count of a semaphore

ASSUME KernelSyncAssumption ==
  /\ Queues = Sems \cup Mutexes /\ Sems \cap Mutexes = {}
  /\ {ClockSem, TickSem, IoSem} \subseteq Sems
  /\ {Idle, ClockDaemon, TickDaemon} \subseteq KThreads /\ KThreads \subseteq Tasks
  /\ MaxSeconds = (TickMod - 1) \div ITFREQ
  /\ Spawns \in [Tasks -> Seq(Tasks)]
  /\ Delays \subseteq 0..(TimeMod - 1)

VARIABLES
  todo,
  spin,     \* the flag of the spinlock of each mutex and semaphore
  count,    \* of each semaphore
  locked,   \* of each mutex
  owner,
  held,     \* the mutexes whose mutex_lock has returned, for each task
  ticks,    \* time.c: now is ticks / ITFREQ
  claimed   \* plic: the interrupt of the device is claimed and not completed

sync == <<spin, count, locked, owner, held>>
devices == <<ticks, claimed>>
syncVars == <<vars, todo, sync, devices>>
-----------------------------------------------------------------------------
(* The code of the primitives, as statements.                              *)

spinlock_lock(q) == <<"lock", q>>
spinlock_unlock(q) == <<"unlock", q>>

sem_wait(s) == << spinlock_lock(s), <<"take", s>> >>
sem_try_take(s) == << spinlock_lock(s), <<"try_take", s>>, spinlock_unlock(s) >>
sem_post(s) == << spinlock_lock(s), <<"post", s>>, spinlock_unlock(s) >>

mutex_lock(m) == << spinlock_lock(m), <<"acquire", m>>, <<"enter", m>> >>
mutex_trylock(m) == << spinlock_lock(m), <<"trylock", m>> >>
mutex_unlock(m) == << spinlock_lock(m), <<"release", m>> >>

\* Faulty tick_daemon: the sleepers are forgotten
tick_without_wake == sem_wait(TickSem) \o << <<"rotate", 0>> >>

tick_daemon ==
  sem_wait(TickSem) \o << <<"wake_sleeping", 0>>, <<"rotate", 0>> >>

\* What it displays is left out.
clock_daemon == sem_wait(ClockSem)

\* Faulty time_irq_handler: it does the work of the tick daemon itself
tick_in_handler(n) ==
  << <<"wake_sleeping", 0>>, <<"rotate", 0>>, <<"iret", 0>> >>

\* time_irq_handler, once it has counted the tick
time_irq_handler(n) ==
  (IF n % ITFREQ = 0 THEN sem_post(ClockSem) ELSE <<>>)
  \o sem_post(TickSem) \o << <<"iret", 0>> >>

\* plic_handle_irq, once it has claimed the interrupt of a device whose handler
\* posts IoSem
plic_handle_irq ==
  sem_post(IoSem) \o << <<"complete", 0>>, <<"iret", 0>> >>

\* Faulty semaphores: the interrupts are not masked
NeverMasked(c) == FALSE

\* The statements that run between irq_save and irq_restore
Masked(c) == c[1] \in {"take", "try_take", "post", "unlock", "granted"} /\ c[2] \in Sems
-----------------------------------------------------------------------------
InHandler(t) == \E i \in DOMAIN todo[t] : todo[t][i][1] = "iret"

\* sstatus.SIE, for the task that runs
InterruptsOn ==
  /\ walk = <<>> /\ owes[active] # "switch" /\ ~InHandler(active)
  /\ todo[active] # <<>> => active \in KThreads /\ ~Masked(Head(todo[active]))

\* The next statement of the running task is c.
At(c) ==
  /\ walk = <<>> /\ todo[active] # <<>> /\ Head(todo[active]) = c
  /\ owes[active] = "nothing" \/ (InHandler(active) /\ owes[active] # "switch")

Then(code) == todo' = [todo EXCEPT ![active] = code \o Tail(@)]

NoSched == UNCHANGED vars
-----------------------------------------------------------------------------
(* The statements.  A second spinlock_lock on a flag that is set would spin *)
(* for ever: it is not enabled, and SpinlocksAreFree says it never happens. *)

SpinLock(q) ==
  /\ At(spinlock_lock(q)) /\ ~spin[q]
  /\ spin' = [spin EXCEPT ![q] = TRUE]
  /\ scheduler_disable_preempt
  /\ Then(<<>>)
  /\ UNCHANGED <<count, locked, owner, held>>

SpinUnlock(q) ==
  /\ At(spinlock_unlock(q))
  /\ spin' = [spin EXCEPT ![q] = FALSE]
  /\ IF q \in Mutexes /\ active \in KThreads
       THEN enable_preempt_dec
       ELSE scheduler_enable_preempt
  /\ Then(<<>>)
  /\ UNCHANGED <<count, locked, owner, held>>

\* The rest of scheduler_enable_preempt, with the interrupts enabled
Unlocking_(step, debt) ==
  /\ ~InHandler(active) /\ owes[active] = debt /\ step
  /\ UNCHANGED <<todo, spin, count, locked, owner, held>>

BlockOnQueue(q, code) ==
  /\ scheduler_block_on_locked(q)
  /\ spin' = [spin EXCEPT ![q] = FALSE]
  /\ Then(code)

\* sem_try_take_unlocked and the two ways out of sem_wait
Take(s) ==
  /\ At(<<"take", s>>)
  /\ IF count[s] > 0
       THEN /\ count' = [count EXCEPT ![s] = @ - 1]
            /\ Then(<<spinlock_unlock(s)>>)
            /\ NoSched /\ UNCHANGED spin
       ELSE BlockOnQueue(s, << <<"granted", s>> >>) /\ UNCHANGED count
  /\ UNCHANGED <<locked, owner, held>>

TryTake(s) ==
  /\ At(<<"try_take", s>>) /\ Then(<<>>)
  /\ count' = [count EXCEPT ![s] = IF @ > 0 THEN @ - 1 ELSE @]
  /\ NoSched /\ UNCHANGED <<spin, locked, owner, held>>

\* sem_wait returns with the resource that sem_post gave it.
Granted(s) ==
  /\ At(<<"granted", s>>) /\ Then(<<>>)
  /\ NoSched /\ UNCHANGED sync

\* Faulty sem_post: a waiter is not woken
PostToNobody(s) ==
  /\ At(<<"post", s>>) /\ count' = [count EXCEPT ![s] = @ + 1] /\ Then(<<>>)
  /\ NoSched /\ UNCHANGED <<spin, locked, owner, held>>

Post(s) ==
  /\ At(<<"post", s>>)
  /\ IF wq[s] # <<>>
       THEN scheduler_ready_task(Head(wq[s])) /\ UNCHANGED <<walk, count>>
       ELSE count' = [count EXCEPT ![s] = @ + 1] /\ NoSched
  /\ Then(<<>>)
  /\ UNCHANGED <<spin, locked, owner, held>>

\* mutex_trylock_unlocked and the two ways out of mutex_lock
Acquire(m) ==
  /\ At(<<"acquire", m>>)
  /\ IF locked[m]
       THEN BlockOnQueue(m, <<>>) /\ UNCHANGED <<locked, owner>>
       ELSE /\ locked' = [locked EXCEPT ![m] = TRUE]
            /\ owner' = [owner EXCEPT ![m] = active]
            /\ Then(<<spinlock_unlock(m)>>)
            /\ NoSched /\ UNCHANGED spin
  /\ UNCHANGED <<count, held>>

TryLock(m) ==
  /\ At(<<"trylock", m>>)
  /\ IF locked[m]
       THEN Then(<<spinlock_unlock(m)>>) /\ UNCHANGED <<locked, owner>>
       ELSE /\ locked' = [locked EXCEPT ![m] = TRUE]
            /\ owner' = [owner EXCEPT ![m] = active]
            /\ Then(<<spinlock_unlock(m), <<"enter", m>> >>)
  /\ NoSched /\ UNCHANGED <<spin, count, held>>

\* mutex_lock, or mutex_trylock, returns with the mutex.
Enter(m) ==
  /\ At(<<"enter", m>>) /\ Then(<<>>)
  /\ held' = [held EXCEPT ![active] = @ \cup {m}]
  /\ NoSched /\ UNCHANGED <<spin, count, locked, owner>>

\* What the two faulty mutex_unlock below share
ReleaseWith(m, handover) ==
  /\ At(<<"release", m>>)
  /\ IF ~locked[m] \/ owner[m] # active
       THEN UNCHANGED <<wq, locked, owner>> /\ Then(<<spinlock_unlock(m)>>)
       ELSE handover
  /\ UNCHANGED <<active, state, ready, highest, preempt_count, need_resched,
                 sleeping, wake_up_time, now, walk, owes, spin, count, held>>

\* Faulty mutex_unlock: the waiters are not woken
ReleaseWithoutWaking(m) ==
  ReleaseWith(m, /\ locked' = [locked EXCEPT ![m] = FALSE]
                 /\ owner' = [owner EXCEPT ![m] = NoTask]
                 /\ Then(<<spinlock_unlock(m)>>) /\ UNCHANGED wq)

\* Faulty mutex_unlock: a waiter is woken and the mutex is left free
ReleaseAndFree(m) ==
  ReleaseWith(m, /\ locked' = [locked EXCEPT ![m] = FALSE]
                 /\ owner' = [owner EXCEPT ![m] = NoTask]
                 /\ wq' = [wq EXCEPT ![m] = IF @ = <<>> THEN @ ELSE Tail(@)]
                 /\ Then((IF wq[m] = <<>> THEN <<>> ELSE << <<"ready", Head(wq[m])>> >>)
                         \o <<spinlock_unlock(m)>>))

\* mutex_unlock hands the mutex over to the first waiter, which it pops before
\* scheduler_ready_task masks the interrupts.
Release(m) ==
  /\ At(<<"release", m>>)
  /\ IF ~locked[m] \/ owner[m] # active
       THEN UNCHANGED <<wq, locked, owner>> /\ Then(<<spinlock_unlock(m)>>)
       ELSE IF wq[m] = <<>>
              THEN /\ locked' = [locked EXCEPT ![m] = FALSE]
                   /\ owner' = [owner EXCEPT ![m] = NoTask]
                   /\ Then(<<spinlock_unlock(m)>>) /\ UNCHANGED wq
              ELSE /\ wq' = [wq EXCEPT ![m] = Tail(@)]
                   /\ owner' = [owner EXCEPT ![m] = Head(wq[m])]
                   /\ Then(<< <<"ready", Head(wq[m])>>, spinlock_unlock(m) >>)
                   /\ UNCHANGED locked
  /\ UNCHANGED <<active, state, ready, highest, preempt_count, need_resched,
                 sleeping, wake_up_time, now, walk, owes, spin, count, held>>

Ready(t) ==
  /\ At(<<"ready", t>>) /\ scheduler_ready_task(t) /\ UNCHANGED walk
  /\ Then(<<>>)
  /\ UNCHANGED sync

\* scheduler_wake_sleeping
WakeLoop ==
  /\ At(<<"wake_sleeping", 0>>) /\ walk' = sleeping /\ Then(<<>>)
  /\ UNCHANGED <<active, state, ready, highest, preempt_count, need_resched,
                 sleeping, wake_up_time, now, owes, wq>>
  /\ UNCHANGED sync

WakeNext ==
  /\ walk # <<>> /\ wake_up_sleeping_cb(Head(walk))
  /\ UNCHANGED <<todo, spin, count, locked, owner, held>>

\* The other statements are one call of the scheduler.
Call(c, step) ==
  /\ At(c) /\ step /\ Then(<<>>)
  /\ UNCHANGED sync

\* complete_plic
Complete ==
  /\ At(<<"complete", 0>>) /\ Then(<<>>) /\ claimed' = FALSE
  /\ NoSched /\ UNCHANGED <<sync, ticks>>

\* The handler returns to the code it interrupted.
Iret ==
  /\ At(<<"iret", 0>>) /\ Then(<<>>)
  /\ NoSched /\ UNCHANGED sync

\* The end of scheduler_block_on_locked for a task switched out before it
Resume ==
  /\ owes[active] = "switch" /\ block_on_locked_resume
  /\ UNCHANGED <<todo, spin, count, locked, owner, held>>

Statement ==
  \/ \E q \in Queues : SpinLock(q) \/ SpinUnlock(q)
  \/ \E s \in Sems : Take(s) \/ TryTake(s) \/ Granted(s) \/ Post(s)
  \/ \E m \in Mutexes : Acquire(m) \/ TryLock(m) \/ Enter(m) \/ Release(m)
  \/ \E t \in Tasks : Ready(t) \/ Call(<<"spawn", t>>, scheduler_admit(t))
  \/ \E d \in Delays : Call(<<"sleep", d>>, scheduler_sleep(d))
  \/ Call(<<"rotate", 0>>, scheduler_rotate)
  \/ WakeLoop \/ WakeNext \/ Iret \/ Resume
  \/ Unlocking_(enable_preempt_test, "test")
  \/ Unlocking_(enable_preempt_clear, "clear")
  \/ Unlocking_(enable_preempt_rotate, "rotate")
-----------------------------------------------------------------------------
(* What the tasks do, and the interrupts.                                  *)

Runs(code) ==
  /\ walk = <<>> /\ owes[active] = "nothing" /\ todo[active] = <<>>
  /\ todo' = [todo EXCEPT ![active] = code]
  /\ NoSched /\ UNCHANGED <<spin, count, locked, owner, devices>>

Daemon ==
  /\ \/ active = ClockDaemon /\ Runs(clock_daemon)
     \/ active = TickDaemon /\ Runs(tick_daemon)
  /\ UNCHANGED held

Worker == active \notin {Idle, ClockDaemon, TickDaemon}

Lock(m) ==
  /\ Worker /\ held[active] = {} /\ UNCHANGED held
  /\ Runs(mutex_lock(m)) \/ Runs(mutex_trylock(m))

Unlock(m) ==
  /\ Worker /\ m \in held[active] /\ Runs(mutex_unlock(m))
  /\ held' = [held EXCEPT ![active] = @ \ {m}]

\* An unlock by a task that does not own the mutex
StrayUnlock(m) ==
  Worker /\ m \notin held[active] /\ Runs(mutex_unlock(m)) /\ UNCHANGED held

WaitIo ==
  /\ Worker /\ UNCHANGED held
  /\ Runs(sem_wait(IoSem)) \/ Runs(sem_try_take(IoSem))

SleepFor(d) == Worker /\ Runs(<< <<"sleep", d>> >>) /\ UNCHANGED held

Interrupt(handler) ==
  /\ InterruptsOn
  /\ todo' = [todo EXCEPT ![active] = handler \o @]
  /\ UNCHANGED sync

TimerIrq ==
  /\ count[ClockSem] < MaxCount /\ count[TickSem] < MaxCount
  /\ ticks' = (ticks + 1) % TickMod /\ now' = ticks' \div ITFREQ
  /\ Interrupt(time_irq_handler(ticks'))
  /\ UNCHANGED <<active, state, ready, highest, preempt_count, need_resched,
                 sleeping, wake_up_time, wq, walk, owes, claimed>>

\* The gateway of the plic holds an interrupt back until the last is completed.
DeviceIrq ==
  /\ count[IoSem] < MaxCount /\ ~claimed /\ claimed' = TRUE
  /\ Interrupt(plic_handle_irq)
  /\ NoSched /\ UNCHANGED ticks

SyncInit ==
  /\ Init
  /\ todo = [t \in Tasks |-> [i \in DOMAIN Spawns[t] |-> <<"spawn", Spawns[t][i]>>]]
  /\ spin = [q \in Queues |-> FALSE]
  /\ count = [s \in Sems |-> 0]
  /\ locked = [m \in Mutexes |-> FALSE]
  /\ owner = [m \in Mutexes |-> NoTask]
  /\ held = [t \in Tasks |-> {}]
  /\ ticks = 0
  /\ claimed = FALSE

SyncNext ==
  \/ Statement /\ UNCHANGED devices
  \/ Complete \/ Daemon \/ TimerIrq \/ DeviceIrq \/ WaitIo
  \/ \E m \in Mutexes : Lock(m) \/ Unlock(m) \/ StrayUnlock(m)
  \/ \E d \in Delays : SleepFor(d)

SyncSpec == SyncInit /\ [][SyncNext]_syncVars

\* The running task never stops in the middle of the kernel, the two devices
\* interrupt as soon as the interrupts are unmasked, and daemons loop.  Nothing
\* is said of what the workers do in user code.
KernelSpec ==
  /\ SyncSpec
  /\ WF_syncVars(Statement /\ UNCHANGED devices)
  /\ WF_syncVars(Complete)
  /\ WF_syncVars(Daemon)
  /\ SF_syncVars(TimerIrq)
  /\ SF_syncVars(DeviceIrq)

\* Besides, a task that holds a mutex unlocks it.
UnlockingSpec == KernelSpec /\ \A m \in Mutexes : SF_syncVars(Unlock(m))
-----------------------------------------------------------------------------
(* Properties.                                                             *)

Does(t, c) == \E i \in DOMAIN todo[t] : todo[t][i] = c

\* The types of the state of the primitives
SyncTypeOK ==
  /\ TypeOK
  /\ spin \in [Queues -> BOOLEAN]
  /\ count \in [Sems -> 0..MaxCount]
  /\ locked \in [Mutexes -> BOOLEAN]
  /\ owner \in [Mutexes -> Tasks \cup {NoTask}]
  /\ held \in [Tasks -> SUBSET Mutexes]
  /\ ticks \in 0..(TickMod - 1)
  /\ claimed \in BOOLEAN

\* On one hart a spinlock that is taken when spinlock_lock is called is never
\* freed.  It never is: neither another task nor a handler runs in a section
\* that it could lock again.  And preempt_count counts the spinlocks that are
\* held, across switches and handlers.
SpinlocksAreFree ==
  /\ \A q \in Queues : At(spinlock_lock(q)) => ~spin[q]
  /\ preempt_count = Cardinality({q \in Queues : spin[q]})

\* No wake up is lost: nobody waits for a semaphore that has resources, nor for
\* a mutex that is free.
NobodyWaitsInVain ==
  /\ \A s \in Sems : count[s] > 0 => wq[s] = <<>>
  /\ \A m \in Mutexes : ~locked[m] => wq[m] = <<>> /\ owner[m] = NoTask

\* A task that mutex_lock lets through is the owner that the mutex records, so
\* its mutex_unlock will not take the early return of a stray unlock.
HoldersAreOwners ==
  \A t \in Tasks : \A m \in held[t] : locked[m] /\ owner[m] = t

\* The fields of a semaphore and of a mutex agree with its queue and with who
\* it was granted to, at every statement of sem_post and mutex_unlock.
QueuesMatchCounts == SyncTypeOK /\ NobodyWaitsInVain /\ HoldersAreOwners

\* The semaphores and mutexes implement what their headers promise.  A resource
\* that sem_post hands to a waiter is still there until its sem_wait returns.
Abstract == INSTANCE AbstractSync WITH
  value <- [s \in Sems |->
              count[s] + Cardinality({t \in Tasks : Does(t, <<"granted", s>>)
                                                  /\ t \notin Range(wq[s])})]
ImplementsPrimitives == Abstract!Spec

\* The primitives, the handlers and the daemons call the scheduler only as its
\* module assumes: who holds a spinlock does not block, handlers never block,
\* only a HIGH task walks the sleepers.  The waiter that mutex_unlock has popped,
\* under the spinlock, and not yet made ready counts as the head of its queue.
Sched == INSTANCE Scheduler WITH
  wq <- [q \in Queues |->
           IF q \in Mutexes /\ spin[q] /\ Does(active, <<"ready", owner[q]>>)
             THEN <<owner[q]>> \o wq[q] ELSE wq[q]]
ImplementsScheduler == Sched!Spec

\* The processor is not overloaded: the daemons keep up with the interrupts,
\* which come every 50 ms.
KeepsUp == []<>(state[ClockDaemon] = "BLOCKED" /\ state[TickDaemon] = "BLOCKED")

\* A sleeper whose date has come is woken by the tick daemon, even when the
\* handler that was to post the tick is switched out by its first sem_post.
SleepersWake ==
  KeepsUp => \A t \in Tasks : t \in Range(sleeping) /\ wake_up_time[t] <= now
                                ~> t \notin Range(sleeping)

\* The owner of a mutex gets the processor.  ReadyTasksRun, from which this would
\* follow, does not hold: a third task may keep the processor for ever, from the
\* owner or from the task whose interrupted handler would wake the owner.
OwnersRun == \A m \in Mutexes : []<>(owner[m] \in {NoTask, active})

\* A task that waits for a mutex becomes its owner, however often others lock it,
\* if owners run and unlock: mutex_unlock hands the mutex to the first waiter.
WaitersBecomeOwners ==
  KeepsUp /\ OwnersRun =>
    \A t \in Tasks, m \in Mutexes : t \in Range(wq[m]) ~> owner[m] = t

\* Round robin: a task in a ready queue gets the processor, the idle task aside.
ReadyTasksRun ==
  KeepsUp => \A t \in Tasks \ {Idle} : t \in Range(ready[Prio[t]]) ~> active = t
=============================================================================
