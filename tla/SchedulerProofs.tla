-------------------------- MODULE SchedulerProofs --------------------------
(***************************************************************************)
(* The invariants of Scheduler, for every set of tasks, of wait queues and *)
(* of priorities.  First what the steps do to the queues, then one lemma   *)
(* per action.                                                             *)
(***************************************************************************)
EXTENDS Scheduler, ListProofs

\* The leaves that need arithmetic cite SMT.
USE ZenonT(20)

Runnable == {"READY", "RUNNING"}

\* The ready queues rd hold the runnable tasks of the states st.
QueuesOK(rd, st) ==
  /\ rd \in [Priorities -> Seq(Tasks)]
  /\ st \in [Tasks -> States]
  /\ \A p \in Priorities, t \in Tasks :
       t \in Range(rd[p]) <=> Prio[t] = p /\ st[t] \in Runnable
  /\ \A p \in Priorities : IsInjective(rd[p])

\* Nothing is ready above h, and the idle task is ready.
Above(rd, st, h) ==
  /\ h \in Priorities
  /\ \A p \in Priorities : p < h => rd[p] = <<>>
  /\ st[Idle] \in Runnable

\* The sleeping list sl and the wait queues w hold the tasks st says they do.
BlockingOK(sl, w, st) ==
  /\ sl \in Seq(Tasks) /\ w \in [Queues -> Seq(Tasks)]
  /\ \A t \in Tasks : t \in Range(sl) <=> st[t] = "SLEEPING"
  /\ \A t \in Tasks : st[t] = "BLOCKED" => \E q \in Queues : t \in Range(w[q])
  /\ \A t \in Tasks, q \in Queues : t \in Range(w[q]) => st[t] \in {"BLOCKED", "SLEEPING"}
  /\ IsInjective(sl)
  /\ \A q \in Queues : IsInjective(w[q])
  /\ \A q, r \in Queues : q # r => Range(w[q]) \cap Range(w[r]) = {}

\* st and su differ at most on whether a runnable task is READY or RUNNING.
SameBlocking(st, su) ==
  \A t \in Tasks : /\ st[t] \in Runnable <=> su[t] \in Runnable
                   /\ st[t] \notin Runnable => su[t] = st[t]

\* The blocking queues do not tell READY from RUNNING.
LEMMA BlockingSame ==
  ASSUME NEW sl, NEW w, NEW st, NEW su,
         BlockingOK(sl, w, st), SameBlocking(st, su)
  PROVE  BlockingOK(sl, w, su)
  BY DEF BlockingOK, SameBlocking, Runnable

\* The ready queues do not tell READY from RUNNING.
LEMMA QueuesSame ==
  ASSUME NEW rd, NEW st, NEW su \in [Tasks -> States],
         QueuesOK(rd, st), SameBlocking(st, su)
  PROVE  QueuesOK(rd, su)
  BY DEF QueuesOK, SameBlocking

\* The head of a ready queue is a runnable task of its priority.
LEMMA FirstRunnable ==
  ASSUME NEW rd, NEW st, QueuesOK(rd, st), NEW p \in Priorities, rd[p] # <<>>
  PROVE  /\ First(rd[p]) \in Tasks
         /\ First(rd[p]) \in Range(rd[p])
         /\ Prio[First(rd[p])] = p
         /\ st[First(rd[p])] \in Runnable
  <1>1. rd[p] \in Seq(Tasks)
    BY DEF QueuesOK
  <1>2. Head(rd[p]) \in Range(rd[p]) /\ Range(rd[p]) \subseteq Tasks
    BY <1>1, RangeOf
  <1> QED BY <1>2 DEF QueuesOK, First

\* A queue that holds a task is not empty.
LEMMA InQueue ==
  ASSUME NEW rd, NEW st, QueuesOK(rd, st), NEW t \in Tasks, st[t] \in Runnable
  PROVE  Prio[t] \in Priorities /\ t \in Range(rd[Prio[t]]) /\ rd[Prio[t]] # <<>>
  <1>1. Prio[t] \in Priorities
    BY SchedulerAssumption
  <1>2. t \in Range(rd[Prio[t]])
    BY <1>1 DEF QueuesOK
  <1>3. rd[Prio[t]] # <<>>
    BY <1>2, SMTT(30) DEF Range
  <1> QED BY <1>1, <1>2, <1>3

\* refresh_highest_prio finds a non empty queue with nothing ready above it.
LEMMA RefreshFinds ==
  ASSUME NEW rd, NEW st, NEW h, QueuesOK(rd, st), Above(rd, st, h)
  PROVE  LET r == refresh_highest_prio(rd, h)
         IN  Above(rd, st, r) /\ rd[r] # <<>>
  <1> DEFINE r == refresh_highest_prio(rd, h)
  <1>1. rd[IDLE] # <<>> /\ IDLE \in Priorities
    BY InQueue, SchedulerAssumption DEF Above
  <1>2. CASE rd[h] # <<>>
    BY <1>2 DEF refresh_highest_prio, Above
  <1>3. CASE rd[h] = <<>>
    <2>1. h \in 0..2
      BY <1>1, <1>3, SMTT(30) DEF Above, Priorities, PRIORITY_COUNT, IDLE
    <2>2. \E p \in (h + 1)..IDLE : rd[p] # <<>> /\ \A s \in (h + 1)..(p - 1) : rd[s] = <<>>
      <3>1. CASE h = 2
        BY <3>1, <1>1, SMTT(30) DEF IDLE
      <3>2. CASE h = 1
        <4>1. CASE rd[2] # <<>>
          BY <3>2, <4>1, SMTT(30) DEF IDLE
        <4>2. CASE rd[2] = <<>>
          <5>1. \A s \in 2..2 : rd[s] = <<>>
            BY <4>2, SMTT(30)
          <5> QED BY <3>2, <5>1, <1>1, SMTT(30) DEF IDLE
        <4> QED BY <4>1, <4>2
      <3>3. CASE h = 0
        <4>1. CASE rd[1] # <<>>
          BY <3>3, <4>1, SMTT(30) DEF IDLE
        <4>2. CASE rd[1] = <<>> /\ rd[2] # <<>>
          <5>1. \A s \in 1..1 : rd[s] = <<>>
            BY <4>2, SMTT(30)
          <5> QED BY <3>3, <4>2, <5>1, SMTT(30) DEF IDLE
        <4>3. CASE rd[1] = <<>> /\ rd[2] = <<>>
          <5>1. \A s \in 1..2 : rd[s] = <<>>
            BY <4>3, SMTT(30)
          <5> QED BY <3>3, <5>1, <1>1, SMTT(30) DEF IDLE
        <4> QED BY <4>1, <4>2, <4>3
      <3> QED BY <2>1, <3>1, <3>2, <3>3, SMTT(30)
    <2>3. r = CHOOSE p \in (h + 1)..IDLE : rd[p] # <<>> /\ \A s \in (h + 1)..(p - 1) : rd[s] = <<>>
      BY <1>3, <2>2 DEF refresh_highest_prio
    <2>4. r \in (h + 1)..IDLE /\ rd[r] # <<>> /\ \A s \in (h + 1)..(r - 1) : rd[s] = <<>>
      BY <2>2, <2>3
    <2> HIDE DEF r
    <2>5. r \in Priorities
      BY <2>1, <2>4, SMTT(30) DEF Priorities, PRIORITY_COUNT, IDLE
    <2>6. ASSUME NEW p \in Priorities, p < r PROVE rd[p] = <<>>
      <3>1. p \in Int /\ h \in Int /\ r \in Int
        BY <2>1, <2>5, SMTT(30) DEF Priorities, PRIORITY_COUNT
      <3>2. p < h \/ p = h \/ p \in (h + 1)..(r - 1)
        BY <3>1, <2>6, SMTT(30)
      <3> QED BY <3>2, <1>3, <2>4 DEF Above
    <2> QED BY <2>4, <2>5, <2>6 DEF Above, r
  <1> QED BY <1>2, <1>3

\* task_switch_active keeps the queues and the states in step.
LEMMA SwitchTo ==
  ASSUME active \in Tasks,
         NEW rd, NEW st, QueuesOK(rd, st),
         NEW next \in Tasks, st[next] \in Runnable,
         do_ctx_switch(st, next)
  PROVE  /\ active' = next
         /\ state'[next] = "RUNNING"
         /\ QueuesOK(rd, state')
         /\ SameBlocking(st, state')
  <1>1. active' = next /\ state' = Switched(st, next)
    BY DEF do_ctx_switch
  <1>2. state' \in [Tasks -> States] /\ state'[next] = "RUNNING"
    BY <1>1 DEF Switched, QueuesOK, States
  <1>3. SameBlocking(st, state')
    BY <1>1 DEF Switched, SameBlocking, Runnable
  <1> QED BY <1>1, <1>2, <1>3, QueuesSame

\* What every switch establishes: the head of the highest non empty queue runs.
Dispatched(st) ==
  /\ active' \in Tasks
  /\ active' = First(ready'[highest'])
  /\ state'[active'] = "RUNNING"
  /\ QueuesOK(ready', state')
  /\ Above(ready', state', highest')
  /\ SameBlocking(st, state')

\* switch_out_active dispatches the head of the highest non empty queue.
LEMMA SwitchOut ==
  ASSUME active \in Tasks,
         NEW rd, NEW st, NEW h, QueuesOK(rd, st), Above(rd, st, h),
         switch_out_active(st, rd, h)
  PROVE  Dispatched(st)
  <1> DEFINE r == refresh_highest_prio(rd, h)
             next == First(rd[r])
  <1>1. ready' = rd /\ highest' = r /\ do_ctx_switch(st, next)
    BY DEF switch_out_active
  <1>2. Above(rd, st, r) /\ rd[r] # <<>>
    BY RefreshFinds
  <1> HIDE DEF r
  <1>3. next \in Tasks /\ st[next] \in Runnable
    BY <1>2, FirstRunnable DEF Above
  <1>4. active' = next /\ state'[next] = "RUNNING" /\ QueuesOK(rd, state') /\ SameBlocking(st, state')
    <2> HIDE DEF next
    <2> QED BY <1>1, <1>3, SwitchTo
  <1>5. Above(rd, state', r)
    BY <1>2, <1>4, SchedulerAssumption DEF Above, SameBlocking
  <1> QED BY <1>1, <1>3, <1>4, <1>5 DEF Dispatched

\* The rotation of scheduler_rotate dispatches the head of the rotated queue.
LEMMA RotateDispatches ==
  ASSUME active \in Tasks,
         NEW rd, NEW st, QueuesOK(rd, st), Above(rd, st, highest), rd[highest] # <<>>,
         st[active] \in Runnable => st[active] = "RUNNING",
         rotate(st, rd)
  PROVE  Dispatched(st)
  <1> DEFINE rr == [rd EXCEPT ![highest] = Rotated(@)]
             next == First(rr[highest])
  <1>1. highest \in Priorities
    BY DEF Above
  <1>2. /\ Rotated(rd[highest]) \in Seq(Tasks)
        /\ Range(Rotated(rd[highest])) = Range(rd[highest])
        /\ IsInjective(Rotated(rd[highest]))
        /\ Rotated(rd[highest]) # <<>>
    BY <1>1, RotatedRange, SMTT(30) DEF QueuesOK
  <1>3. /\ rr \in [Priorities -> Seq(Tasks)] /\ rr[highest] = Rotated(rd[highest])
        /\ \A p \in Priorities : p # highest => rr[p] = rd[p]
    BY <1>1, <1>2 DEF QueuesOK
  <1>4. ready' = rr /\ highest' = highest /\ IF next = active THEN NoSwitch(st) ELSE do_ctx_switch(st, next)
    BY <1>3 DEF rotate
  <1> HIDE DEF rr
  <1>5. QueuesOK(rr, st)
    <2>1. ASSUME NEW p \in Priorities PROVE Range(rr[p]) = Range(rd[p]) /\ IsInjective(rr[p])
      <3>1. CASE p = highest
        BY <1>2, <1>3, <3>1
      <3>2. CASE p # highest
        BY <1>3, <3>2 DEF QueuesOK
      <3> QED BY <3>1, <3>2
    <2> QED BY <1>3, <2>1 DEF QueuesOK
  <1>6. Above(rr, st, highest)
    BY <1>3 DEF Above
  <1>7. next \in Tasks /\ st[next] \in Runnable
    BY <1>1, <1>2, <1>3, <1>5, FirstRunnable
  <1>8. /\ active' = next /\ state'[next] = "RUNNING"
        /\ QueuesOK(rr, state') /\ SameBlocking(st, state')
    <2> HIDE DEF next
    <2>1. CASE next = active
      BY <1>4, <1>5, <1>7, <2>1 DEF NoSwitch, SameBlocking
    <2>2. CASE next # active
      BY <1>4, <1>5, <1>7, <2>2, SwitchTo
    <2> QED BY <2>1, <2>2
  <1>9. Above(rr, state', highest)
    BY <1>6, <1>8, SchedulerAssumption DEF Above, SameBlocking
  <1> QED BY <1>4, <1>7, <1>8, <1>9 DEF Dispatched

\* The processor goes to the head of the tracked queue, or owes it to a task
\* of a higher priority.
Tracked ==
  /\ ready[highest] # <<>>
  /\ need_resched => /\ preempt_count > 0 \/ owes[active] \in {"test", "clear"}
                     /\ priority_higher(highest, Prio[active])
  /\ ~need_resched /\ owes[active] # "rotate" => active = First(ready[highest])

\* A task t that was not runnable is enqueued, on states st that differ from
\* the current ones only for t.
LEMMA EnqueueOK ==
  ASSUME NEW rd, NEW st, NEW su \in [Tasks -> States], NEW t \in Tasks,
         QueuesOK(rd, st), st[t] \notin Runnable, su[t] \in Runnable,
         \A u \in Tasks : u # t => su[u] = st[u]
  PROVE  /\ QueuesOK(Enqueued(rd, t), su)
         /\ Enqueued(rd, t)[Prio[t]] = Append(rd[Prio[t]], t)
         /\ Enqueued(rd, t)[Prio[t]] # <<>>
         /\ First(Enqueued(rd, t)[Prio[t]]) = IF rd[Prio[t]] = <<>> THEN t ELSE First(rd[Prio[t]])
         /\ \A p \in Priorities : p # Prio[t] => Enqueued(rd, t)[p] = rd[p]
  <1>1. Prio[t] \in Priorities
    BY SchedulerAssumption
  <1> DEFINE q == rd[Prio[t]]
  <1>2. q \in Seq(Tasks) /\ IsInjective(q) /\ t \notin Range(q)
    BY <1>1 DEF QueuesOK
  <1>3. Enqueued(rd, t)[Prio[t]] = Append(q, t)
    BY <1>1 DEF Enqueued, QueuesOK
  <1>4. \A p \in Priorities : p # Prio[t] => Enqueued(rd, t)[p] = rd[p]
    BY <1>1 DEF Enqueued, QueuesOK
  <1>5. /\ Append(q, t) \in Seq(Tasks) /\ Append(q, t) # <<>>
        /\ Range(Append(q, t)) = Range(q) \cup {t}
        /\ IsInjective(Append(q, t))
        /\ Head(Append(q, t)) = IF q = <<>> THEN t ELSE Head(q)
    <2> HIDE DEF q
    <2> QED BY <1>2, AppendRange, SMTT(30)
  <1>6. Enqueued(rd, t) \in [Priorities -> Seq(Tasks)]
    BY <1>1, <1>5 DEF Enqueued, QueuesOK
  <1>7. First(Enqueued(rd, t)[Prio[t]]) = IF q = <<>> THEN t ELSE First(q)
    BY <1>3, <1>5 DEF First
  <1> HIDE DEF q
  <1>8. ASSUME NEW p \in Priorities, NEW u \in Tasks
        PROVE  u \in Range(Enqueued(rd, t)[p]) <=> Prio[u] = p /\ su[u] \in Runnable
    <2>1. CASE p = Prio[t]
      <3>1. Enqueued(rd, t)[p] = Append(q, t) /\ rd[p] = q
        BY <1>3, <2>1 DEF q
      <3>2. u \in Range(Enqueued(rd, t)[p]) <=> u \in Range(rd[p]) \/ u = t
        BY <1>5, <3>1, SMTT(30)
      <3> QED BY <2>1, <3>2 DEF QueuesOK
    <2>2. CASE p # Prio[t]
      BY <1>4, <2>2 DEF QueuesOK
    <2> QED BY <2>1, <2>2
  <1>9. ASSUME NEW p \in Priorities PROVE IsInjective(Enqueued(rd, t)[p])
    <2>1. CASE p = Prio[t]
      BY <1>3, <1>5, <2>1
    <2>2. CASE p # Prio[t]
      BY <1>4, <2>2 DEF QueuesOK
    <2> QED BY <2>1, <2>2
  <1>10. QueuesOK(Enqueued(rd, t), su)
    BY <1>6, <1>8, <1>9 DEF QueuesOK
  <1> QED BY <1>3, <1>4, <1>5, <1>7, <1>10 DEF q

\* ready_queue_remove of a task that stops being runnable; a queue loses its
\* head only if the task is its head.
LEMMA DequeueOK ==
  ASSUME NEW rd, NEW st, NEW su \in [Tasks -> States], NEW t \in Tasks,
         QueuesOK(rd, st), su[t] \notin Runnable,
         \A u \in Tasks : u # t => su[u] = st[u]
  PROVE  /\ QueuesOK(Dequeued(rd, t), su)
         /\ \A p \in Priorities : rd[p] = <<>> => Dequeued(rd, t)[p] = <<>>
         /\ \A p \in Priorities :
              rd[p] # <<>> /\ First(rd[p]) # t
              => Dequeued(rd, t)[p] # <<>> /\ First(Dequeued(rd, t)[p]) = First(rd[p])
  <1>1. Prio[t] \in Priorities
    BY SchedulerAssumption
  <1> DEFINE q == rd[Prio[t]]
             w == Without(q, t)
             dd == Dequeued(rd, t)
  <1>2. q \in Seq(Tasks) /\ IsInjective(q)
    BY <1>1 DEF QueuesOK
  <1>3. /\ w \in Seq(Tasks)
        /\ Range(w) = Range(q) \ {t}
        /\ IsInjective(w)
        /\ q # <<>> /\ Head(q) # t => w # <<>> /\ Head(w) = Head(q)
    <2> HIDE DEF q
    <2> QED BY <1>2, WithoutRange
  <1>4. q = <<>> => w = <<>>
    BY SMTT(30) DEF Without
  <1>5. dd[Prio[t]] = w /\ dd \in [Priorities -> Seq(Tasks)]
    <2> HIDE DEF w
    <2>1. dd = [rd EXCEPT ![Prio[t]] = w]
      BY <1>1 DEF Dequeued, QueuesOK, w
    <2> QED BY <1>1, <1>3, <2>1, SMTT(30) DEF QueuesOK
  <1>6. \A p \in Priorities : p # Prio[t] => dd[p] = rd[p]
    BY <1>1 DEF Dequeued, QueuesOK
  <1> HIDE DEF w, dd
  <1>7. ASSUME NEW p \in Priorities
        PROVE  Range(dd[p]) = Range(rd[p]) \ {t} /\ IsInjective(dd[p])
    <2>1. CASE p = Prio[t]
      BY <1>3, <1>5, <2>1
    <2>2. CASE p # Prio[t]
      BY <1>6, <2>2, SMTT(30) DEF QueuesOK
    <2> QED BY <2>1, <2>2
  <1>8. QueuesOK(dd, su)
    <2>1. ASSUME NEW p \in Priorities, NEW u \in Tasks
          PROVE  u \in Range(dd[p]) <=> Prio[u] = p /\ su[u] \in Runnable
      BY <1>7, SMTT(30) DEF QueuesOK
    <2> QED BY <1>5, <1>7, <2>1 DEF QueuesOK
  <1>9. ASSUME NEW p \in Priorities, rd[p] = <<>> PROVE dd[p] = <<>>
    BY <1>4, <1>5, <1>6, <1>9
  <1>10. ASSUME NEW p \in Priorities, rd[p] # <<>>, First(rd[p]) # t
         PROVE  dd[p] # <<>> /\ First(dd[p]) = First(rd[p])
    <2>1. CASE p = Prio[t]
      BY <1>3, <1>5, <1>10, <2>1 DEF First
    <2>2. CASE p # Prio[t]
      BY <1>6, <1>10, <2>2
    <2> QED BY <2>1, <2>2
  <1> QED BY <1>8, <1>9, <1>10 DEF dd

\* A task is made ready or admitted: the queues, the tracked priority and the
\* pending rescheduling stay consistent, with or without a switch to it.
LEMMA MakeReady ==
  ASSUME active \in Tasks, state[active] = "RUNNING",
         QueuesOK(ready, state), Above(ready, state, highest), Tracked,
         preempt_count \in Nat, need_resched \in BOOLEAN,
         NEW t \in Tasks, NEW su \in [Tasks -> States],
         state[t] \notin Runnable, su[t] \in Runnable,
         \A u \in Tasks : u # t => su[u] = state[u],
         ready' = Enqueued(ready, t),
         highest' = update_highest(highest, t),
         check_and_preempt(su, t),
         preempt_count' = preempt_count, owes' = owes,
         preempt_count > 0 \/ owes[active] \notin Unlocking
  PROVE  /\ active' \in Tasks
         /\ state'[active'] = "RUNNING"
         /\ QueuesOK(ready', state')
         /\ Above(ready', state', highest')
         /\ Tracked'
         /\ need_resched' \in BOOLEAN
         /\ SameBlocking(su, state')
         /\ active' # active => preempt_count' = 0
         /\ Prio[active] = HIGH => active' = active
  <1>1. /\ QueuesOK(ready', su)
        /\ ready'[Prio[t]] # <<>>
        /\ First(ready'[Prio[t]]) = IF ready[Prio[t]] = <<>> THEN t ELSE First(ready[Prio[t]])
        /\ \A p \in Priorities : p # Prio[t] => ready'[p] = ready[p]
    BY EnqueueOK, SMTT(30)
  <1>2. /\ Prio \in [Tasks -> Priorities] /\ highest \in Priorities
        /\ Prio[t] \in Int /\ Prio[active] \in Int /\ highest \in Int
        /\ Prio[t] \in Priorities
        /\ \A p \in Priorities : p \in Int
    BY SchedulerAssumption, SMTT(30) DEF Above, Priorities, PRIORITY_COUNT
  <1>3. Above(ready', su, highest')
    <2>1. highest' \in Priorities /\ highest' <= highest /\ highest' <= Prio[t]
      BY <1>2, SMTT(30) DEF update_highest, priority_higher
    <2>2. ASSUME NEW p \in Priorities, p < highest' PROVE ready'[p] = <<>>
      <3>1. p # Prio[t] /\ p < highest
        BY <1>2, <2>1, <2>2, SMTT(30)
      <3> QED BY <3>1, <1>1 DEF Above
    <2>3. su[Idle] \in Runnable
      BY SchedulerAssumption DEF Above
    <2> QED BY <2>1, <2>2, <2>3 DEF Above
  <1>4. t # active /\ su[active] = "RUNNING"
    BY DEF Runnable
  <1>5. highest <= Prio[active] /\ ready[highest] # <<>>
    <2>1. Prio[active] \in Priorities /\ active \in Range(ready[Prio[active]])
      BY <1>2 DEF QueuesOK, Runnable
    <2>2. ready[Prio[active]] # <<>>
      BY <2>1, SMTT(30) DEF Range
    <2> QED BY <1>2, <2>1, <2>2, SMTT(30) DEF Above, Tracked
  <1>6. CASE ~priority_higher(Prio[t], Prio[active])
    <2>1. active' = active /\ state' = su /\ need_resched' = need_resched
      BY <1>6 DEF check_and_preempt, NoSwitch
    <2>2. highest' = highest
      BY <1>2, <1>5, <1>6, SMTT(30) DEF update_highest, priority_higher, Tracked
    <2>3. ready[highest] # <<>> => ready'[highest] # <<>> /\ First(ready'[highest]) = First(ready[highest])
      BY <1>1, <1>2
    <2>4. Tracked'
      BY <1>5, <2>1, <2>2, <2>3 DEF Tracked
    <2> QED BY <1>1, <1>3, <1>4, <2>1, <2>4 DEF SameBlocking
  <1>7. CASE priority_higher(Prio[t], Prio[active]) /\ preempt_count > 0
    <2>1. active' = active /\ state' = su /\ need_resched' = TRUE
      BY <1>7 DEF check_and_preempt, NoSwitch
    <2>2. priority_higher(highest', Prio[active])
      BY <1>2, <1>7, SMTT(30) DEF update_highest, priority_higher
    <2>3. ready'[highest'] # <<>>
      <3>1. CASE highest' = Prio[t]
        BY <1>1, <3>1
      <3>2. CASE highest' # Prio[t]
        <4>1. highest' = highest
          BY <3>2 DEF update_highest, priority_higher
        <4> QED BY <1>1, <1>2, <1>5, <3>2, <4>1
      <3> QED BY <3>1, <3>2
    <2>4. Tracked'
      BY <1>7, <2>1, <2>2, <2>3 DEF Tracked
    <2> QED BY <1>1, <1>3, <1>4, <2>1, <2>4 DEF SameBlocking
  <1>8. CASE priority_higher(Prio[t], Prio[active]) /\ ~(preempt_count > 0)
    <2>1. do_ctx_switch(su, t) /\ need_resched' = need_resched
      BY <1>8 DEF check_and_preempt
    <2>2. ~need_resched /\ preempt_count = 0
      BY <1>8, SMTT(30) DEF Tracked, Unlocking
    <2>3. Prio[t] < highest
      <3>1. active = First(ready[highest])
        BY <1>8, <2>2 DEF Tracked, Unlocking
      <3>2. Prio[active] = highest
        BY <1>2, <1>5, <3>1, FirstRunnable
      <3> QED BY <1>8, <3>2 DEF priority_higher
    <2>4. ready[Prio[t]] = <<>> /\ highest' = Prio[t]
      BY <1>2, <2>3 DEF Above, update_highest, priority_higher
    <2>5. active' = t /\ state'[t] = "RUNNING" /\ QueuesOK(ready', state') /\ SameBlocking(su, state')
      BY <1>1, <2>1, SwitchTo
    <2>6. Above(ready', state', highest')
      BY <1>3, <2>5, SchedulerAssumption DEF Above, SameBlocking
    <2>7. Tracked'
      BY <1>1, <2>1, <2>2, <2>4, <2>5 DEF Tracked
    <2>8. Prio[active] # HIGH
      BY <1>2, <1>8, SchedulerAssumption, SMTT(30) DEF priority_higher, HIGH, Priorities, PRIORITY_COUNT
    <2> QED BY <2>1, <2>2, <2>5, <2>6, <2>7, <2>8
  <1> QED BY <1>6, <1>7, <1>8

-----------------------------------------------------------------------------
(* The blocking queues.                                                    *)

Blocking == {"BLOCKED", "SLEEPING"}

\* A change between states that wait for nothing.
LEMMA StateAside ==
  ASSUME NEW sl, NEW w, NEW st, NEW su, NEW t \in Tasks,
         BlockingOK(sl, w, st), st[t] \notin Blocking, su[t] \notin Blocking,
         \A u \in Tasks : u # t => su[u] = st[u]
  PROVE  BlockingOK(sl, w, su)
  BY DEF BlockingOK, Blocking

\* move_to_wq
LEMMA BlockMove ==
  ASSUME NEW sl, NEW w, NEW st, NEW su, NEW t \in Tasks, NEW q \in Queues,
         BlockingOK(sl, w, st), st[t] \notin Blocking, su[t] = "BLOCKED",
         \A u \in Tasks : u # t => su[u] = st[u]
  PROVE  BlockingOK(sl, [w EXCEPT ![q] = Append(@, t)], su)
  <1> DEFINE v == [w EXCEPT ![q] = Append(@, t)]
  <1>1. /\ w[q] \in Seq(Tasks) /\ IsInjective(w[q]) /\ t \notin Range(w[q])
        /\ \A r \in Queues : t \notin Range(w[r])
    BY DEF BlockingOK, Blocking
  <1>2. /\ Append(w[q], t) \in Seq(Tasks)
        /\ Range(Append(w[q], t)) = Range(w[q]) \cup {t}
        /\ IsInjective(Append(w[q], t))
    BY <1>1, AppendRange, SMTT(30)
  <1>3. /\ v \in [Queues -> Seq(Tasks)]
        /\ v[q] = Append(w[q], t)
        /\ \A r \in Queues : r # q => v[r] = w[r]
    BY <1>2 DEF BlockingOK
  <1> HIDE DEF v
  <1>4. /\ Range(v[q]) = Range(w[q]) \cup {t}
        /\ \A r \in Queues : r # q => Range(v[r]) = Range(w[r])
        /\ \A r \in Queues : IsInjective(v[r])
    BY <1>2, <1>3 DEF BlockingOK
  <1>5. /\ \A u \in Tasks : u \in Range(sl) <=> su[u] = "SLEEPING"
        /\ sl \in Seq(Tasks) /\ IsInjective(sl)
    BY DEF BlockingOK, Blocking
  <1>6. \A u \in Tasks : su[u] = "BLOCKED" => \E r \in Queues : u \in Range(v[r])
    <2> SUFFICES ASSUME NEW u \in Tasks, su[u] = "BLOCKED"
                 PROVE  \E r \in Queues : u \in Range(v[r])
      OBVIOUS
    <2>1. CASE u = t
      BY <1>4, <2>1
    <2>2. CASE u # t
      <3>1. PICK r \in Queues : u \in Range(w[r])
        BY <2>2 DEF BlockingOK
      <3> QED BY <1>4, <3>1
    <2> QED BY <2>1, <2>2
  <1>7. \A u \in Tasks, r \in Queues : u \in Range(v[r]) => su[u] \in {"BLOCKED", "SLEEPING"}
    BY <1>1, <1>4 DEF BlockingOK
  <1>8. \A r1, r2 \in Queues : r1 # r2 => Range(v[r1]) \cap Range(v[r2]) = {}
    <2> SUFFICES ASSUME NEW r1 \in Queues, NEW r2 \in Queues, r1 # r2, NEW x,
                        x \in Range(v[r1]), x \in Range(v[r2])
                 PROVE  FALSE
      OBVIOUS
    <2>1. Range(w[r1]) \cap Range(w[r2]) = {}
      BY DEF BlockingOK
    <2> QED BY <1>1, <1>4, <2>1
  <1> QED BY <1>3, <1>4, <1>5, <1>6, <1>7, <1>8 DEF BlockingOK, v

\* insert_sleep
LEMMA SleepMove ==
  ASSUME NEW sl, NEW w, NEW st, NEW su, NEW t \in Tasks, NEW ss,
         BlockingOK(sl, w, st), st[t] # "SLEEPING", su[t] = "SLEEPING",
         \A u \in Tasks : u # t => su[u] = st[u],
         ss \in Seq(Tasks), IsInjective(ss), Range(ss) = Range(sl) \cup {t}
  PROVE  BlockingOK(ss, w, su)
  BY DEF BlockingOK

\* remove_from_blocking_queues
LEMMA Unblock ==
  ASSUME NEW sl, NEW w, NEW st, NEW su, NEW t \in Tasks,
         BlockingOK(sl, w, st), su[t] \notin Blocking,
         \A u \in Tasks : u # t => su[u] = st[u]
  PROVE  BlockingOK(Without(sl, t), RemovedFromWaitQueues(w, t), su)
  <1> DEFINE ss == Without(sl, t)
             v == RemovedFromWaitQueues(w, t)
  <1>1. /\ ss \in Seq(Tasks) /\ Range(ss) = Range(sl) \ {t} /\ IsInjective(ss)
    BY WithoutRange, SMTT(30) DEF BlockingOK
  <1>2. ASSUME NEW q \in Queues
        PROVE  v[q] \in Seq(Tasks) /\ Range(v[q]) = Range(w[q]) \ {t} /\ IsInjective(v[q])
    <2>1. v[q] = Without(w[q], t) /\ w[q] \in Seq(Tasks) /\ IsInjective(w[q])
      BY DEF RemovedFromWaitQueues, BlockingOK
    <2> QED BY <2>1, WithoutRange, SMTT(30)
  <1>3. v \in [Queues -> Seq(Tasks)]
    BY <1>2 DEF RemovedFromWaitQueues
  <1> HIDE DEF ss, v
  <1>4. \A u \in Tasks : u \in Range(ss) <=> su[u] = "SLEEPING"
    BY <1>1 DEF BlockingOK, Blocking
  <1>5. \A u \in Tasks : su[u] = "BLOCKED" => \E q \in Queues : u \in Range(v[q])
    <2> SUFFICES ASSUME NEW u \in Tasks, su[u] = "BLOCKED"
                 PROVE  \E q \in Queues : u \in Range(v[q])
      OBVIOUS
    <2>1. u # t
      BY DEF Blocking
    <2>2. PICK q \in Queues : u \in Range(w[q])
      BY <2>1 DEF BlockingOK
    <2> QED BY <1>2, <2>1, <2>2
  <1>6. \A u \in Tasks, q \in Queues : u \in Range(v[q]) => su[u] \in {"BLOCKED", "SLEEPING"}
    BY <1>2, SMTT(30) DEF BlockingOK
  <1>7. \A q, r \in Queues : q # r => Range(v[q]) \cap Range(v[r]) = {}
    <2> SUFFICES ASSUME NEW q \in Queues, NEW r \in Queues, q # r
                 PROVE  Range(v[q]) \cap Range(v[r]) = {}
      OBVIOUS
    <2>1. Range(w[q]) \cap Range(w[r]) = {}
      BY DEF BlockingOK
    <2> QED BY <1>2, <2>1
  <1> QED BY <1>1, <1>2, <1>3, <1>4, <1>5, <1>6, <1>7 DEF BlockingOK, ss, v
-----------------------------------------------------------------------------
\* The loop of scheduler_wake_sleeping.
WalkInv ==
  WalkIsSound /\ IsInjective(walk) /\ (walk # <<>> => owes[active] = "nothing")

\* A task that owes a switch runs with preemption enabled.
OwesInv == owes[active] = "switch" => preempt_count = 0

\* The inductive invariant.
IInv ==
  /\ TypeOK
  /\ QueuesOK(ready, state)
  /\ Above(ready, state, highest)
  /\ Tracked
  /\ state[active] = "RUNNING"
  /\ BlockingOK(sleeping, wq, state)
  /\ SleepersSorted
  /\ WalkInv
  /\ OwesInv

\* The part of the state that a switch leaves to its caller.
Aside ==
  /\ preempt_count' \in 0..MaxPreempt
  /\ wake_up_time' \in [Tasks -> 0..(TimeMod - 1)]
  /\ now' \in 0..MaxSeconds
  /\ walk' \in Seq(Tasks)
  /\ owes' \in [Tasks -> Debts]
  /\ SleepersSorted'
  /\ WalkInv'
  /\ OwesInv'

\* The invariant after a step, from its parts.
LEMMA Assemble ==
  ASSUME active' \in Tasks, state'[active'] = "RUNNING",
         QueuesOK(ready', state'), Above(ready', state', highest'),
         need_resched' \in BOOLEAN, Tracked',
         BlockingOK(sleeping', wq', state'), Aside
  PROVE  IInv'
  <1>1. TypeOK'
    BY DEF TypeOK, QueuesOK, Above, BlockingOK, Aside
  <1> QED BY <1>1 DEF IInv, Aside

\* The invariant after a step that ends with a switch.
LEMMA AfterDispatch ==
  ASSUME NEW st, Dispatched(st), need_resched' = FALSE,
         BlockingOK(sleeping', wq', st), Aside
  PROVE  IInv'
  <1>1. Tracked'
    BY SchedulerAssumption DEF Dispatched, Tracked, First
  <1>2. BlockingOK(sleeping', wq', state')
    BY BlockingSame DEF Dispatched
  <1> QED BY <1>1, <1>2, Assemble DEF Dispatched

\* What MayBlock gives: the active task is the head of its queue.
LEMMA MayBlockFacts ==
  ASSUME IInv, Calls, preempt_count = 0
  PROVE  /\ need_resched = FALSE
         /\ active = First(ready[highest])
         /\ ready[highest] # <<>>
         /\ Prio[active] = highest
  <1>1. need_resched = FALSE /\ active = First(ready[highest])
    BY SMTT(30) DEF IInv, Tracked, TypeOK, Calls
  <1>2. ready[highest] # <<>>
    BY DEF IInv, Tracked
  <1> QED BY <1>1, <1>2, FirstRunnable DEF IInv, TypeOK

\* The active task leaves its ready queue for the state s.
LEMMA LeaveReady ==
  ASSUME IInv, Calls, active # Idle, NEW s \in States \ Runnable
  PROVE  LET rd == Dequeued(ready, active)
             st == [state EXCEPT ![active] = s]
         IN  /\ QueuesOK(rd, st)
             /\ Above(rd, st, highest)
             /\ st \in [Tasks -> States] /\ st[active] = s
             /\ \A u \in Tasks : u # active => st[u] = state[u]
  <1> DEFINE rd == Dequeued(ready, active)
             st == [state EXCEPT ![active] = s]
  <1>1. /\ st \in [Tasks -> States] /\ st[active] = s
        /\ \A u \in Tasks : u # active => st[u] = state[u]
    BY DEF IInv, TypeOK, Calls
  <1>2. QueuesOK(rd, st) /\ \A p \in Priorities : ready[p] = <<>> => rd[p] = <<>>
    <2> HIDE DEF st, rd
    <2> QED BY <1>1, DequeueOK, SMTT(30) DEF IInv, Calls, rd
  <1>3. Above(rd, st, highest)
    <2> HIDE DEF rd, st
    <2> QED BY <1>1, <1>2, SchedulerAssumption DEF IInv, Above
  <1> QED BY <1>1, <1>2, <1>3
-----------------------------------------------------------------------------
\* task_init leaves the idle task alone in its queue.
LEMMA InitInv == Init => IInv
  <1> SUFFICES ASSUME Init PROVE IInv
    OBVIOUS
  <1> USE SchedulerAssumption DEF Init
  <1>1. TypeOK
    <2>1. ready \in [Priorities -> Seq(Tasks)]
      <3>1. <<>> \in Seq(Tasks) /\ <<Idle>> \in Seq(Tasks)
        BY SMTT(30)
      <3> QED BY <3>1
    <2>2. sleeping \in Seq(Tasks) /\ wq \in [Queues -> Seq(Tasks)] /\ walk \in Seq(Tasks)
      BY SMTT(30)
    <2>3. preempt_count \in 0..MaxPreempt /\ now \in 0..MaxSeconds /\ highest \in Priorities
      BY SMTT(30) DEF Priorities, PRIORITY_COUNT, IDLE
    <2>4. wake_up_time \in [Tasks -> 0..(TimeMod - 1)]
      BY SMTT(30)
    <2>5. state \in [Tasks -> States]
      BY DEF States
    <2>6. owes \in [Tasks -> Debts]
      BY DEF Debts
    <2> QED BY <2>1, <2>2, <2>3, <2>4, <2>5, <2>6 DEF TypeOK
  <1>2. /\ Range(<<>>) = {} /\ IsInjective(<<>>)
        /\ Range(<<Idle>>) = {Idle} /\ IsInjective(<<Idle>>)
    BY SMTT(30) DEF Range, IsInjective
  <1>3. QueuesOK(ready, state)
    <2>1. ASSUME NEW p \in Priorities
          PROVE  /\ IsInjective(ready[p])
                 /\ \A t \in Tasks :
                      t \in Range(ready[p]) <=> Prio[t] = p /\ state[t] \in Runnable
      <3>1. CASE p = IDLE
        BY <1>2, <3>1 DEF Runnable
      <3>2. CASE p # IDLE
        BY <1>2, <3>2 DEF Runnable
      <3> QED BY <3>1, <3>2
    <2> QED BY <1>1, <2>1 DEF QueuesOK, TypeOK
  <1>4. Above(ready, state, highest)
    BY SMTT(30) DEF Above, Priorities, PRIORITY_COUNT, IDLE, Runnable
  <1>5. Tracked
    BY SMTT(30) DEF Tracked, First, Priorities, PRIORITY_COUNT, IDLE
  <1>6. BlockingOK(sleeping, wq, state)
    <2>1. \A q \in Queues : wq[q] = <<>>
      OBVIOUS
    <2> QED BY <1>1, <1>2, <2>1 DEF BlockingOK, TypeOK
  <1>7. SleepersSorted /\ WalkInv /\ OwesInv /\ state[active] = "RUNNING"
    BY <1>2, SMTT(30) DEF SleepersSorted, SortedBy, WalkInv, WalkIsSound, OwesInv
  <1> QED BY <1>1, <1>3, <1>4, <1>5, <1>6, <1>7 DEF IInv

\* activate_task and scheduler_admit.
LEMMA AdmitInv == ASSUME IInv, NEW t \in Tasks, Admit(t) PROVE IInv'
  <1> DEFINE su == [state EXCEPT ![t] = "READY"]
  <1>1. /\ Calls /\ state[t] \in {"NEW", "TERMINATED"}
        /\ ready' = Enqueued(ready, t)
        /\ highest' = update_highest(highest, t)
        /\ check_and_preempt(su, t)
        /\ UNCHANGED <<preempt_count, sleeping, wake_up_time, wq, now, walk, owes>>
    BY DEF Admit, scheduler_admit
  <1>2. /\ su \in [Tasks -> States] /\ su[t] = "READY"
        /\ \A u \in Tasks : u # t => su[u] = state[u]
    BY DEF IInv, TypeOK, States
  <1> HIDE DEF su
  <1>3. /\ active' \in Tasks /\ state'[active'] = "RUNNING"
        /\ QueuesOK(ready', state') /\ Above(ready', state', highest')
        /\ Tracked' /\ need_resched' \in BOOLEAN
        /\ SameBlocking(su, state')
        /\ active' # active => preempt_count' = 0
    <2>1. /\ active \in Tasks /\ preempt_count \in Nat /\ need_resched \in BOOLEAN
          /\ state[t] \notin Runnable /\ su[t] \in Runnable
          /\ preempt_count' = preempt_count
      BY <1>1, <1>2, SchedulerAssumption, SMTT(30) DEF IInv, TypeOK, Runnable
    <2>2. owes' = owes /\ owes[active] \notin Unlocking
      BY <1>1 DEF Calls, Unlocking
    <2> QED BY <1>1, <1>2, <2>1, <2>2, MakeReady DEF IInv
  <1>4. BlockingOK(sleeping', wq', state')
    <2>1. BlockingOK(sleeping, wq, su)
      BY <1>1, <1>2, StateAside DEF IInv, Blocking
    <2> QED BY <1>1, <1>3, <2>1, BlockingSame
  <1>5. Aside
    <2>1. SleepersSorted'
      BY <1>1 DEF IInv, SleepersSorted
    <2>2. WalkInv'
      BY <1>1 DEF IInv, WalkInv, WalkIsSound, Calls
    <2>3. OwesInv'
      BY <1>1, <1>3 DEF IInv, OwesInv
    <2> QED BY <1>1, <2>1, <2>2, <2>3 DEF IInv, TypeOK, Aside
  <1> QED BY <1>3, <1>4, <1>5, Assemble

\* scheduler_disable_preempt.
LEMMA DisablePreemptInv == ASSUME IInv, DisablePreempt PROVE IInv'
  <1>1. /\ Interrupts /\ preempt_count < MaxPreempt /\ preempt_count' = preempt_count + 1
        /\ UNCHANGED <<active, state, ready, highest, need_resched, sleeping,
                       wake_up_time, wq, now, walk, owes>>
    BY DEF DisablePreempt, scheduler_disable_preempt
  <1>2. preempt_count' \in 0..MaxPreempt /\ preempt_count' > 0
    BY <1>1, SchedulerAssumption, SMTT(30) DEF IInv, TypeOK
  <1>3. Tracked'
    BY <1>1, <1>2 DEF IInv, Tracked
  <1>4. Aside
    <2>1. SleepersSorted'
      BY <1>1 DEF IInv, SleepersSorted
    <2>2. WalkInv'
      BY <1>1 DEF IInv, WalkInv, WalkIsSound, Interrupts
    <2>3. OwesInv'
      BY <1>1 DEF IInv, OwesInv, Interrupts
    <2> QED BY <1>1, <1>2, <2>1, <2>2, <2>3 DEF IInv, TypeOK, Aside
  <1> QED BY <1>1, <1>3, <1>4, Assemble DEF IInv, TypeOK

\* The rotation of scheduler_rotate and of scheduler_enable_preempt.
LEMMA RotateInv ==
  ASSUME IInv, walk = <<>>, rotate(state, ready), preempt_count' = 0, need_resched' = FALSE,
         owes' \in [Tasks -> Debts],
         UNCHANGED <<sleeping, wake_up_time, wq, now, walk>>
  PROVE  IInv'
  <1>1. ready[highest] # <<>>
    BY DEF IInv, Tracked
  <1>2. Dispatched(state)
    BY <1>1, RotateDispatches DEF IInv, TypeOK
  <1>3. BlockingOK(sleeping', wq', state)
    BY DEF IInv
  <1>4. Aside
    <2>1. SleepersSorted'
      BY DEF IInv, SleepersSorted
    <2>2. WalkInv'
      BY DEF IInv, WalkInv, WalkIsSound
    <2>3. OwesInv' /\ preempt_count' \in 0..MaxPreempt
      BY SchedulerAssumption, SMTT(30) DEF OwesInv
    <2> QED BY <2>1, <2>2, <2>3 DEF IInv, TypeOK, Aside
  <1> QED BY <1>2, <1>3, <1>4, AfterDispatch

\* scheduler_enable_preempt with the interrupts masked.
LEMMA EnablePreemptInv == ASSUME IInv, EnablePreempt PROVE IInv'
  <1>1. /\ Interrupts /\ preempt_count > 0 /\ preempt_count' = preempt_count - 1
        /\ IF preempt_count = 1 /\ need_resched
             THEN need_resched' = FALSE /\ rotate(state, ready)
             ELSE UNCHANGED <<need_resched, active, state, ready, highest>>
        /\ UNCHANGED <<sleeping, wake_up_time, wq, now, walk, owes>>
    BY DEF EnablePreempt, scheduler_enable_preempt
  <1>2. CASE preempt_count = 1 /\ need_resched
    <2>1. preempt_count' = 0
      BY <1>1, <1>2, SMTT(30)
    <2>2. walk = <<>> /\ owes' \in [Tasks -> Debts]
      BY <1>1 DEF Interrupts, IInv, TypeOK
    <2> QED BY <1>1, <1>2, <2>1, <2>2, RotateInv
  <1>3. CASE ~(preempt_count = 1 /\ need_resched)
    <2>1. UNCHANGED <<need_resched, active, state, ready, highest>>
      BY <1>1, <1>3
    <2>2. preempt_count' \in 0..MaxPreempt /\ (need_resched => preempt_count' > 0)
      BY <1>1, <1>3, SchedulerAssumption, SMTT(30) DEF IInv, TypeOK
    <2>3. Tracked'
      BY <1>1, <2>1, <2>2 DEF IInv, Tracked
    <2>4. Aside
      <3>1. SleepersSorted'
        BY <1>1 DEF IInv, SleepersSorted
      <3>2. WalkInv'
        BY <1>1 DEF IInv, WalkInv, WalkIsSound, Interrupts
      <3>3. OwesInv'
        BY <1>1, <2>1 DEF IInv, OwesInv, Interrupts
      <3> QED BY <1>1, <2>2, <3>1, <3>2, <3>3 DEF IInv, TypeOK, Aside
    <2> QED BY <1>1, <2>1, <2>3, <2>4, Assemble DEF IInv, TypeOK
  <1> QED BY <1>2, <1>3

\* scheduler_rotate, as tick_daemon calls it.
LEMMA RotateCallInv == ASSUME IInv, Rotate PROVE IInv'
  <1>1. CASE preempt_count > 0
    <2>1. UNCHANGED vars
      BY <1>1 DEF Rotate, scheduler_rotate, vars
    <2> QED BY <2>1 DEF vars, IInv, TypeOK, Tracked, SleepersSorted, WalkInv, WalkIsSound, OwesInv
  <1>2. CASE ~(preempt_count > 0)
    <2>1. Calls /\ rotate(state, ready)
          /\ UNCHANGED <<preempt_count, need_resched, sleeping, wake_up_time, wq, now, walk, owes>>
      BY <1>2 DEF Rotate, scheduler_rotate
    <2>2. preempt_count = 0 /\ need_resched = FALSE
      BY <1>2, <2>1, SchedulerAssumption, SMTT(30) DEF IInv, TypeOK, Tracked, Calls
    <2>3. walk = <<>> /\ owes' \in [Tasks -> Debts]
      BY <2>1 DEF Calls, IInv, TypeOK
    <2> QED BY <2>1, <2>2, <2>3, RotateInv
  <1> QED BY <1>1, <1>2

\* scheduler_enable_preempt, statement by statement
LEMMA EnablePreemptStepsInv ==
  ASSUME IInv, EnablePreemptDec \/ EnablePreemptTest \/ EnablePreemptClear
  PROVE  IInv'
  <1>1. /\ preempt_count' = 0 /\ walk = <<>>
        /\ UNCHANGED <<active, state, ready, highest, sleeping, wake_up_time, wq, now, walk>>
    <2>1. owes[active] # "nothing" => walk = <<>>
      BY DEF IInv, WalkInv
    <2> QED BY <2>1, SMTT(30) DEF EnablePreemptDec, EnablePreemptTest, EnablePreemptClear, Calls,
                 enable_preempt_dec, enable_preempt_test, enable_preempt_clear
  <1>2. Tracked' /\ need_resched' \in BOOLEAN /\ owes' \in [Tasks -> Debts] /\ owes'[active] # "switch"
    <2>1. active \in Tasks /\ owes \in [Tasks -> Debts] /\ need_resched \in BOOLEAN /\ Tracked
      BY DEF IInv, TypeOK
    <2>2. CASE EnablePreemptDec
      <3>1. /\ owes[active] = "nothing" /\ owes' = [owes EXCEPT ![active] = "test"]
            /\ need_resched' = need_resched
        BY <2>2 DEF EnablePreemptDec, enable_preempt_dec, Calls
      <3> QED BY <1>1, <2>1, <3>1 DEF Tracked, Debts, Unlocking
    <2>3. CASE EnablePreemptTest
      <3>1. /\ owes[active] = "test" /\ need_resched' = need_resched
            /\ owes' = [owes EXCEPT ![active] = IF need_resched THEN "clear" ELSE "nothing"]
        BY <2>3 DEF EnablePreemptTest, enable_preempt_test
      <3> QED BY <1>1, <2>1, <3>1 DEF Tracked, Debts, Unlocking
    <2>4. CASE EnablePreemptClear
      <3>1. /\ need_resched' = FALSE /\ owes' = [owes EXCEPT ![active] = "rotate"]
        BY <2>4 DEF EnablePreemptClear, enable_preempt_clear
      <3> QED BY <1>1, <2>1, <3>1 DEF Tracked, Debts, Unlocking
    <2> QED BY <2>2, <2>3, <2>4
  <1>3. Aside
    <2>1. SleepersSorted' /\ WalkInv' /\ OwesInv' /\ preempt_count' \in 0..MaxPreempt
      BY <1>1, <1>2, SchedulerAssumption, SMTT(30)
      DEF IInv, SleepersSorted, WalkInv, WalkIsSound, OwesInv
    <2> QED BY <1>1, <1>2, <2>1 DEF IInv, TypeOK, Aside
  <1> QED BY <1>1, <1>2, <1>3, Assemble DEF IInv, TypeOK

\* The rotation that ends scheduler_enable_preempt.
LEMMA EnablePreemptRotateInv == ASSUME IInv, EnablePreemptRotate PROVE IInv'
  <1>1. /\ owes[active] = "rotate" /\ preempt_count = 0 /\ rotate(state, ready)
        /\ owes' = [owes EXCEPT ![active] = "nothing"]
        /\ UNCHANGED <<preempt_count, need_resched, sleeping, wake_up_time, wq, now, walk>>
    BY SMTT(30) DEF EnablePreemptRotate, enable_preempt_rotate
  <1>2. walk = <<>>
    BY <1>1 DEF IInv, WalkInv
  <1>3. need_resched = FALSE
    BY <1>1, SMTT(30) DEF IInv, TypeOK, Tracked
  <1>4. owes' \in [Tasks -> Debts]
    BY <1>1 DEF IInv, TypeOK, Debts
  <1> QED BY <1>1, <1>2, <1>3, <1>4, RotateInv

\* The body of scheduler_ready_task on a task that blocks or sleeps.
LEMMA ReadyTaskBody ==
  ASSUME IInv, NEW t \in Tasks, state[t] \in Blocking, scheduler_ready_task(t),
         preempt_count > 0 \/ owes[active] \notin Unlocking
  PROVE  /\ active' \in Tasks /\ state'[active'] = "RUNNING"
         /\ QueuesOK(ready', state') /\ Above(ready', state', highest')
         /\ Tracked' /\ need_resched' \in BOOLEAN
         /\ BlockingOK(sleeping', wq', state')
         /\ SleepersSorted'
         /\ Range(sleeping') = Range(sleeping) \ {t}
         /\ active' # active => preempt_count' = 0
         /\ Prio[active] = HIGH => active' = active
         /\ UNCHANGED <<preempt_count, wake_up_time, now, owes>>
  <1> DEFINE su == Woken(state, t)
  <1>1. /\ ready' = Enqueued(ready, t)
        /\ highest' = update_highest(highest, t)
        /\ check_and_preempt(su, t)
        /\ sleeping' = Without(sleeping, t)
        /\ wq' = RemovedFromWaitQueues(wq, t)
        /\ UNCHANGED <<preempt_count, wake_up_time, now, owes>>
    BY DEF scheduler_ready_task
  <1>2. /\ su \in [Tasks -> States] /\ su[t] = "RUNNING"
        /\ \A u \in Tasks : u # t => su[u] = state[u]
    BY DEF IInv, TypeOK, States, Woken, Blocking
  <1> HIDE DEF su
  <1>3. /\ active' \in Tasks /\ state'[active'] = "RUNNING"
        /\ QueuesOK(ready', state') /\ Above(ready', state', highest')
        /\ Tracked' /\ need_resched' \in BOOLEAN
        /\ SameBlocking(su, state')
        /\ active' # active => preempt_count' = 0
        /\ Prio[active] = HIGH => active' = active
    <2>1. /\ active \in Tasks /\ preempt_count \in Nat /\ need_resched \in BOOLEAN
          /\ state[t] \notin Runnable /\ su[t] \in Runnable
          /\ preempt_count' = preempt_count
      BY <1>1, <1>2, SchedulerAssumption, SMTT(30) DEF IInv, TypeOK, Runnable, Blocking
    <2>2. owes' = owes
      BY <1>1
    <2> QED BY <1>1, <1>2, <2>1, <2>2, MakeReady DEF IInv
  <1>4. BlockingOK(sleeping', wq', state')
    <2>1. BlockingOK(sleeping', wq', su)
      BY <1>1, <1>2, Unblock DEF IInv, Blocking
    <2> QED BY <1>3, <2>1, BlockingSame
  <1>5. SleepersSorted'
    <2>1. sleeping \in Seq(Tasks) /\ SortedBy(sleeping, wake_up_time)
      BY DEF IInv, TypeOK, SleepersSorted
    <2>2. SortedBy(Without(sleeping, t), wake_up_time)
      BY <2>1, WithoutSorted
    <2> QED BY <1>1, <2>2 DEF SleepersSorted
  <1>6. Range(sleeping') = Range(sleeping) \ {t}
    BY <1>1, WithoutRange DEF IInv, BlockingOK
  <1> QED BY <1>1, <1>3, <1>4, <1>5, <1>6

\* mutex_unlock and sem_post make the head of a wait queue ready.
LEMMA ReadyTaskInv == ASSUME IInv, NEW q \in Queues, ReadyTask(q) PROVE IInv'
  <1> DEFINE t == Head(wq[q])
  <1>1. /\ walk = <<>> /\ wq[q] # <<>> /\ scheduler_ready_task(t) /\ UNCHANGED walk
        /\ preempt_count > 0 \/ owes[active] \notin Unlocking
    BY DEF ReadyTask, Interrupts, Unlocking
  <1>2. t \in Tasks /\ state[t] \in Blocking
    <2>1. wq[q] \in Seq(Tasks)
      BY DEF IInv, TypeOK
    <2>2. t \in Range(wq[q]) /\ t \in Tasks
      BY <1>1, <2>1, RangeOf, SMTT(30)
    <2> QED BY <2>2 DEF IInv, BlockingOK, Blocking
  <1> HIDE DEF t
  <1>3. /\ active' \in Tasks /\ state'[active'] = "RUNNING"
        /\ QueuesOK(ready', state') /\ Above(ready', state', highest')
        /\ Tracked' /\ need_resched' \in BOOLEAN
        /\ BlockingOK(sleeping', wq', state')
        /\ SleepersSorted'
        /\ active' # active => preempt_count' = 0
        /\ UNCHANGED <<preempt_count, wake_up_time, now, owes>>
    BY <1>1, <1>2, ReadyTaskBody
  <1>4. Aside
    <2>1. WalkInv'
      BY <1>1 DEF IInv, WalkInv, WalkIsSound
    <2>2. OwesInv'
      BY <1>3 DEF IInv, OwesInv
    <2> QED BY <1>1, <1>3, <2>1, <2>2 DEF IInv, TypeOK, Aside
  <1> QED BY <1>3, <1>4, Assemble

\* scheduler_wake_sleeping starts its loop.
LEMMA WakeSleepingInv == ASSUME IInv, WakeSleeping PROVE IInv'
  <1>1. /\ Calls /\ preempt_count = 0 /\ Prio[active] = HIGH /\ walk' = sleeping
        /\ UNCHANGED <<active, state, ready, highest, preempt_count, need_resched,
                       sleeping, wake_up_time, wq, now, owes>>
    BY DEF WakeSleeping
  <1>2. Tracked' /\ SleepersSorted' /\ OwesInv'
    BY <1>1 DEF IInv, Tracked, SleepersSorted, OwesInv
  <1>3. WalkInv' /\ walk' \in Seq(Tasks)
    BY <1>1 DEF IInv, TypeOK, BlockingOK, WalkInv, WalkIsSound, Calls
  <1>4. Aside
    BY <1>1, <1>2, <1>3 DEF IInv, TypeOK, Aside
  <1> QED BY <1>1, <1>2, <1>4, Assemble DEF IInv, TypeOK

\* One iteration of the loop of scheduler_wake_sleeping.
LEMMA WakeSleepingNextInv == ASSUME IInv, WakeSleepingNext PROVE IInv'
  <1> DEFINE t == Head(walk)
  <1>1. walk # <<>> /\ walk' = Tail(walk)
    BY DEF WakeSleepingNext, wake_up_sleeping_cb
  <1>2. /\ Range(walk) \subseteq Range(sleeping) /\ Prio[active] = HIGH /\ preempt_count = 0
        /\ \A u \in Range(sleeping) \ Range(walk) : wake_up_time[u] > now
        /\ IsInjective(walk) /\ walk \in Seq(Tasks)
        /\ owes[active] = "nothing" /\ owes[active] \notin Unlocking
    BY <1>1 DEF Unlocking, IInv, TypeOK, WalkInv, WalkIsSound
  <1>3. /\ Tail(walk) \in Seq(Tasks) /\ IsInjective(Tail(walk))
        /\ Range(Tail(walk)) = Range(walk) \ {t}
        /\ t \in Range(walk) /\ t \in Tasks
    BY <1>1, <1>2, TailRange, RangeOf
  <1>4. state[t] \in Blocking
    BY <1>2, <1>3 DEF IInv, BlockingOK, Blocking
  <1> HIDE DEF t
  <1>5. CASE wake_up_time[t] > now
    <2>1. UNCHANGED <<active, state, ready, highest, preempt_count,
                      need_resched, sleeping, wake_up_time, wq, now, owes>>
      BY <1>5 DEF WakeSleepingNext, wake_up_sleeping_cb, t
    <2>2. Tracked' /\ SleepersSorted' /\ OwesInv'
      BY <2>1 DEF IInv, Tracked, SleepersSorted, OwesInv
    <2>3. WalkInv'
      BY <1>1, <1>2, <1>3, <1>5, <2>1 DEF WalkInv, WalkIsSound
    <2>4. Aside
      BY <1>1, <1>3, <2>1, <2>2, <2>3 DEF IInv, TypeOK, Aside
    <2> QED BY <2>1, <2>2, <2>4, Assemble DEF IInv, TypeOK
  <1>6. CASE ~(wake_up_time[t] > now)
    <2>1. scheduler_ready_task(t)
      BY <1>6 DEF WakeSleepingNext, wake_up_sleeping_cb, t
    <2>2. /\ active' \in Tasks /\ state'[active'] = "RUNNING"
          /\ QueuesOK(ready', state') /\ Above(ready', state', highest')
          /\ Tracked' /\ need_resched' \in BOOLEAN
          /\ BlockingOK(sleeping', wq', state')
          /\ SleepersSorted'
          /\ Range(sleeping') = Range(sleeping) \ {t}
          /\ active' = active
          /\ UNCHANGED <<preempt_count, wake_up_time, now, owes>>
      BY <1>2, <1>3, <1>4, <2>1, ReadyTaskBody
    <2>3. WalkInv'
      BY <1>1, <1>2, <1>3, <2>2 DEF WalkInv, WalkIsSound
    <2>4. Aside
      BY <1>1, <1>3, <2>2, <2>3 DEF IInv, TypeOK, Aside, OwesInv
    <2> QED BY <2>2, <2>4, Assemble
  <1> QED BY <1>5, <1>6

\* The date of a sleeper, and the sleeping list with it.
LEMMA InsertSleep ==
  ASSUME IInv, NEW delay \in 0..(TimeMod - 1),
         wake_up_time' = [wake_up_time EXCEPT ![active] = (delay + now) % TimeMod],
         sleeping' = InsertSorted(sleeping, active, wake_up_time')
  PROVE  /\ wake_up_time' \in [Tasks -> 0..(TimeMod - 1)]
         /\ sleeping' \in Seq(Tasks)
         /\ Range(sleeping') = Range(sleeping) \cup {active}
         /\ IsInjective(sleeping')
         /\ SleepersSorted'
  <1>1. delay + now \in Nat /\ TimeMod \in Nat \ {0}
    BY SchedulerAssumption, SMTT(30) DEF IInv, TypeOK
  <1>2. (delay + now) % TimeMod \in 0..(TimeMod - 1)
    <2> DEFINE d == delay + now
    <2>1. d \in Nat
      BY <1>1
    <2> HIDE DEF d
    <2>2. d % TimeMod \in 0..(TimeMod - 1)
      BY <1>1, <2>1, SMTT(30)
    <2> QED BY <2>2 DEF d
  <1>3. /\ wake_up_time' \in [Tasks -> 0..(TimeMod - 1)]
        /\ \A t \in Tasks : t # active => wake_up_time'[t] = wake_up_time[t]
    BY <1>2 DEF IInv, TypeOK
  <1>4. wake_up_time' \in [Tasks -> Nat]
    BY <1>1, <1>3, SMTT(30)
  <1>5. /\ sleeping \in Seq(Tasks) /\ IsInjective(sleeping) /\ active \in Tasks
        /\ active \notin Range(sleeping)
    BY DEF IInv, TypeOK, BlockingOK
  <1>6. SortedBy(sleeping, wake_up_time')
    <2>1. \A i \in DOMAIN sleeping : sleeping[i] \in Tasks /\ sleeping[i] # active
      BY <1>5, SMTT(30) DEF Range
    <2> QED BY <1>3, <2>1 DEF IInv, SleepersSorted, SortedBy
  <1> DEFINE date == wake_up_time'
  <1> HIDE DEF date
  <1>7. /\ InsertSorted(sleeping, active, date) \in Seq(Tasks)
        /\ Range(InsertSorted(sleeping, active, date)) = Range(sleeping) \cup {active}
        /\ IsInjective(InsertSorted(sleeping, active, date))
        /\ SortedBy(InsertSorted(sleeping, active, date), date)
    <2>1. date \in [Tasks -> Nat] /\ SortedBy(sleeping, date)
      BY <1>4, <1>6 DEF date
    <2> QED BY <1>5, <2>1, InsertSortedRange, SMTT(30)
  <1>8. sleeping' = InsertSorted(sleeping, active, date)
    BY DEF date
  <1>9. SleepersSorted'
    BY <1>7, <1>8 DEF SleepersSorted, date
  <1> QED BY <1>3, <1>7, <1>8, <1>9

\* scheduler_sleep.
LEMMA SleepInv == ASSUME IInv, NEW delay \in 0..(TimeMod - 1), Sleep(delay) PROVE IInv'
  <1> DEFINE st == [state EXCEPT ![active] = "SLEEPING"]
             rd == Dequeued(ready, active)
  <1>1. /\ Calls /\ active # Idle /\ preempt_count = 0
        /\ wake_up_time' = [wake_up_time EXCEPT ![active] = (delay + now) % TimeMod]
        /\ sleeping' = InsertSorted(sleeping, active, wake_up_time')
        /\ switch_out_active(st, rd, highest)
        /\ UNCHANGED <<preempt_count, need_resched, wq, now, walk, owes>>
    BY DEF Sleep, MayBlock, scheduler_sleep
  <1>2. /\ QueuesOK(rd, st) /\ Above(rd, st, highest)
        /\ st[active] = "SLEEPING" /\ \A u \in Tasks : u # active => st[u] = state[u]
    <2>1. "SLEEPING" \in States \ Runnable
      BY DEF States, Runnable
    <2> QED BY <1>1, <2>1, LeaveReady
  <1> HIDE DEF st, rd
  <1>3. Dispatched(st)
    BY <1>1, <1>2, SwitchOut DEF Calls
  <1>4. /\ wake_up_time' \in [Tasks -> 0..(TimeMod - 1)] /\ sleeping' \in Seq(Tasks)
        /\ Range(sleeping') = Range(sleeping) \cup {active}
        /\ IsInjective(sleeping') /\ SleepersSorted'
    BY <1>1, InsertSleep
  <1>5. BlockingOK(sleeping', wq', st)
    <2>1. /\ BlockingOK(sleeping, wq, state) /\ state[active] # "SLEEPING"
          /\ active \in Tasks /\ wq' = wq
      BY <1>1 DEF IInv, TypeOK
    <2>2. BlockingOK(sleeping', wq, st)
      BY <1>2, <1>4, <2>1 DEF BlockingOK
    <2> QED BY <2>1, <2>2
  <1>6. Aside
    <2>1. WalkInv' /\ OwesInv'
      BY <1>1 DEF IInv, WalkInv, WalkIsSound, OwesInv, Calls
    <2> QED BY <1>1, <1>4, <2>1 DEF IInv, TypeOK, Aside
  <1>7. need_resched' = FALSE
    BY <1>1, MayBlockFacts
  <1> QED BY <1>3, <1>5, <1>6, <1>7, AfterDispatch

\* scheduler_block_on.
LEMMA BlockOnInv == ASSUME IInv, NEW q \in Queues, BlockOn(q) PROVE IInv'
  <1> DEFINE st == [state EXCEPT ![active] = "BLOCKED"]
             rd == Dequeued(ready, active)
  <1>1. /\ Calls /\ active # Idle /\ preempt_count = 0
        /\ wq' = [wq EXCEPT ![q] = Append(@, active)]
        /\ switch_out_active(st, rd, highest)
        /\ UNCHANGED <<preempt_count, need_resched, sleeping, wake_up_time, now, walk, owes>>
    BY DEF BlockOn, MayBlock, scheduler_block_on
  <1>2. /\ QueuesOK(rd, st) /\ Above(rd, st, highest)
        /\ st[active] = "BLOCKED" /\ \A u \in Tasks : u # active => st[u] = state[u]
    <2>1. "BLOCKED" \in States \ Runnable
      BY DEF States, Runnable
    <2> QED BY <1>1, <2>1, LeaveReady
  <1> HIDE DEF st, rd
  <1>3. Dispatched(st)
    BY <1>1, <1>2, SwitchOut DEF Calls
  <1>4. BlockingOK(sleeping', wq', st)
    BY <1>1, <1>2, BlockMove DEF IInv, TypeOK, Blocking
  <1>5. Aside
    <2>1. SleepersSorted' /\ WalkInv' /\ OwesInv'
      BY <1>1 DEF IInv, SleepersSorted, WalkInv, WalkIsSound, OwesInv, Calls
    <2> QED BY <1>1, <2>1 DEF IInv, TypeOK, Aside
  <1>6. need_resched' = FALSE
    BY <1>1, MayBlockFacts
  <1> QED BY <1>3, <1>4, <1>5, <1>6, AfterDispatch

\* scheduler_block_on_locked, with or without the switch in spinlock_unlock.
LEMMA BlockOnLockedInv == ASSUME IInv, NEW q \in Queues, BlockOnLocked(q) PROVE IInv'
  <1> DEFINE st == [state EXCEPT ![active] = "BLOCKED"]
             rd == Dequeued(ready, active)
  <1>1. /\ Calls /\ active # Idle /\ preempt_count = 1
        /\ wq' = [wq EXCEPT ![q] = Append(@, active)]
        /\ preempt_count' = preempt_count - 1
        /\ IF preempt_count = 1 /\ need_resched
             THEN /\ need_resched' = FALSE
                  /\ rotate(st, rd)
                  /\ owes' = [owes EXCEPT ![active] = "switch"]
             ELSE /\ switch_out_active(st, rd, highest)
                  /\ UNCHANGED <<need_resched, owes>>
        /\ UNCHANGED <<sleeping, wake_up_time, now, walk>>
    BY DEF BlockOnLocked, scheduler_block_on_locked
  <1>2. /\ QueuesOK(rd, st) /\ Above(rd, st, highest)
        /\ st[active] = "BLOCKED" /\ \A u \in Tasks : u # active => st[u] = state[u]
    <2>1. "BLOCKED" \in States \ Runnable
      BY DEF States, Runnable
    <2> QED BY <1>1, <2>1, LeaveReady
  <1>3. need_resched => rd[highest] # <<>>
    <2> SUFFICES ASSUME need_resched PROVE rd[highest] # <<>>
      OBVIOUS
    <2>1. highest \in Priorities /\ ready[highest] # <<>> /\ highest < Prio[active]
      BY DEF IInv, TypeOK, Tracked, priority_higher
    <2>2. First(ready[highest]) # active
      <3>1. Prio[First(ready[highest])] = highest
        BY <2>1, FirstRunnable DEF IInv
      <3>2. highest \in Int
        BY <2>1, SMTT(30) DEF Priorities, PRIORITY_COUNT
      <3> QED BY <2>1, <3>1, <3>2, SMTT(30)
    <2>3. st \in [Tasks -> States] /\ st[active] \notin Runnable
      BY <1>2 DEF IInv, TypeOK, States, Runnable
    <2>4. QueuesOK(ready, state) /\ active \in Tasks
      BY DEF IInv, TypeOK
    <2> HIDE DEF st
    <2>5. \A p \in Priorities : ready[p] # <<>> /\ First(ready[p]) # active
            => Dequeued(ready, active)[p] # <<>>
      BY <1>2, <2>3, <2>4, DequeueOK, SMTT(30)
    <2> QED BY <2>1, <2>2, <2>5
  <1> HIDE DEF st, rd
  <1>4. Dispatched(st) /\ need_resched' = FALSE /\ owes' \in [Tasks -> Debts]
    <2>1. CASE need_resched
      <3>1. st[active] \notin Runnable
        BY <1>2 DEF Runnable
      <3>2. Dispatched(st)
        BY <1>1, <1>2, <1>3, <2>1, <3>1, RotateDispatches DEF Calls, IInv, TypeOK
      <3> QED BY <1>1, <2>1, <3>2 DEF IInv, TypeOK, Debts
    <2>2. CASE ~need_resched
      BY <1>1, <1>2, <2>2, SwitchOut DEF Calls, IInv, TypeOK
    <2> QED BY <2>1, <2>2
  <1>5. BlockingOK(sleeping', wq', st)
    BY <1>1, <1>2, BlockMove DEF IInv, TypeOK, Blocking
  <1>6. Aside
    <2>1. preempt_count' = 0 /\ preempt_count' \in 0..MaxPreempt
      BY <1>1, SchedulerAssumption, SMTT(30)
    <2>2. SleepersSorted' /\ WalkInv' /\ OwesInv'
      BY <1>1, <2>1 DEF IInv, SleepersSorted, WalkInv, WalkIsSound, OwesInv, Calls
    <2> QED BY <1>1, <1>4, <2>1, <2>2 DEF IInv, TypeOK, Aside
  <1> QED BY <1>4, <1>5, <1>6, AfterDispatch

\* The end of scheduler_block_on_locked after that switch.
LEMMA BlockOnLockedResumeInv == ASSUME IInv, BlockOnLockedResume PROVE IInv'
  <1>1. /\ owes[active] = "switch" /\ switch_out_active(state, ready, highest)
        /\ owes' = [owes EXCEPT ![active] = "nothing"]
        /\ UNCHANGED <<preempt_count, need_resched, sleeping, wake_up_time, wq, now, walk>>
    BY DEF BlockOnLockedResume, block_on_locked_resume
  <1>2. preempt_count = 0 /\ need_resched = FALSE
    BY <1>1, SMTT(30) DEF IInv, OwesInv, Tracked, TypeOK
  <1>3. Dispatched(state)
    BY <1>1, SwitchOut DEF IInv, TypeOK
  <1>4. active' = active
    <2>1. active = First(ready[highest]) /\ ready[highest] # <<>>
      BY <1>1, <1>2 DEF IInv, Tracked
    <2> QED BY <1>1, <2>1 DEF switch_out_active, refresh_highest_prio, do_ctx_switch
  <1>5. Aside
    <2>1. SleepersSorted' /\ WalkInv' /\ OwesInv'
      BY <1>1, <1>2, <1>4 DEF IInv, SleepersSorted, WalkInv, WalkIsSound, OwesInv
    <2> QED BY <1>1, <2>1 DEF IInv, TypeOK, Aside, Debts
  <1> QED BY <1>1, <1>2, <1>3, <1>5, AfterDispatch DEF IInv

\* scheduler_block_on_with_timeout.
LEMMA BlockOnWithTimeoutInv ==
  ASSUME IInv, NEW q \in Queues, NEW delay \in 0..(TimeMod - 1), BlockOnWithTimeout(q, delay)
  PROVE  IInv'
  <1> DEFINE st == [state EXCEPT ![active] = "SLEEPING"]
             sb == [state EXCEPT ![active] = "BLOCKED"]
             rd == Dequeued(ready, active)
  <1>1. /\ Calls /\ active # Idle /\ preempt_count = 0
        /\ wq' = [wq EXCEPT ![q] = Append(@, active)]
        /\ wake_up_time' = [wake_up_time EXCEPT ![active] = (delay + now) % TimeMod]
        /\ sleeping' = InsertSorted(sleeping, active, wake_up_time')
        /\ switch_out_active(st, rd, highest)
        /\ UNCHANGED <<preempt_count, need_resched, now, walk, owes>>
    BY DEF BlockOnWithTimeout, MayBlock, scheduler_block_on_with_timeout
  <1>2. /\ QueuesOK(rd, st) /\ Above(rd, st, highest)
        /\ st[active] = "SLEEPING" /\ \A u \in Tasks : u # active => st[u] = state[u]
    <2>1. "SLEEPING" \in States \ Runnable
      BY DEF States, Runnable
    <2> QED BY <1>1, <2>1, LeaveReady
  <1>3. /\ sb[active] = "BLOCKED" /\ \A u \in Tasks : u # active => sb[u] = state[u]
        /\ active \in Tasks
    BY DEF IInv, TypeOK
  <1> HIDE DEF st, rd, sb
  <1>4. Dispatched(st)
    BY <1>1, <1>2, SwitchOut DEF Calls
  <1>5. /\ wake_up_time' \in [Tasks -> 0..(TimeMod - 1)] /\ sleeping' \in Seq(Tasks)
        /\ Range(sleeping') = Range(sleeping) \cup {active}
        /\ IsInjective(sleeping') /\ SleepersSorted'
    BY <1>1, InsertSleep
  <1>6. BlockingOK(sleeping', wq', st)
    <2>1. BlockingOK(sleeping, wq', sb)
      BY <1>1, <1>3, BlockMove DEF IInv, TypeOK, Blocking
    <2> QED BY <1>2, <1>3, <1>5, <2>1 DEF BlockingOK
  <1>7. Aside
    <2>1. WalkInv' /\ OwesInv'
      BY <1>1 DEF IInv, WalkInv, WalkIsSound, OwesInv, Calls
    <2> QED BY <1>1, <1>5, <2>1 DEF IInv, TypeOK, Aside
  <1>8. need_resched' = FALSE
    BY <1>1, MayBlockFacts
  <1> QED BY <1>4, <1>6, <1>7, <1>8, AfterDispatch

\* scheduler_exit, which may wake the parent.
LEMMA ExitInv == ASSUME IInv, NEW q \in Queues, Exit(q) PROVE IInv'
  <1> DEFINE st == [state EXCEPT ![active] = "ZOMBIE"]
             rd == Dequeued(ready, active)
             parent == First(wq[q])
             rdw == Enqueued(rd, parent)
             hw == update_highest(highest, parent)
             stw == Woken(st, parent)
  <1>1. /\ Calls /\ active # Idle /\ preempt_count = 0
        /\ IF wq[q] = <<>>
             THEN switch_out_active(st, rd, highest) /\ UNCHANGED <<sleeping, wq>>
             ELSE /\ sleeping' = Without(sleeping, parent)
                  /\ wq' = RemovedFromWaitQueues(wq, parent)
                  /\ IF priority_higher(Prio[parent], Prio[active])
                       THEN /\ ready' = rdw
                            /\ highest' = hw
                            /\ do_ctx_switch(stw, parent)
                       ELSE switch_out_active(stw, rdw, hw)
        /\ UNCHANGED <<preempt_count, need_resched, wake_up_time, now, walk, owes>>
    BY DEF Exit, MayBlock, scheduler_exit
  <1>2. /\ QueuesOK(rd, st) /\ Above(rd, st, highest)
        /\ st \in [Tasks -> States] /\ st[active] = "ZOMBIE"
        /\ \A u \in Tasks : u # active => st[u] = state[u]
    <2>1. "ZOMBIE" \in States \ Runnable
      BY DEF States, Runnable
    <2> QED BY <1>1, <2>1, LeaveReady
  <1>3. need_resched' = FALSE /\ Prio[active] = highest /\ active \in Tasks
    BY <1>1, MayBlockFacts DEF Calls
  <1> HIDE DEF st
  <1>4. BlockingOK(sleeping, wq, st)
    BY <1>2, <1>3, StateAside DEF IInv, Blocking
  <1>5. /\ preempt_count' \in 0..MaxPreempt /\ wake_up_time' \in [Tasks -> 0..(TimeMod - 1)]
        /\ now' \in 0..MaxSeconds /\ walk' \in Seq(Tasks) /\ owes' \in [Tasks -> Debts]
        /\ WalkInv' /\ OwesInv'
    BY <1>1 DEF IInv, TypeOK, WalkInv, WalkIsSound, OwesInv, Calls
  <1>6. CASE wq[q] = <<>>
    <2>1. switch_out_active(st, rd, highest) /\ UNCHANGED <<sleeping, wq>>
      BY <1>1, <1>6
    <2>2. Dispatched(st)
      <3> HIDE DEF rd
      <3> QED BY <1>2, <1>3, <2>1, SwitchOut
    <2>3. Aside
      BY <1>1, <1>5, <2>1 DEF IInv, SleepersSorted, Aside
    <2> QED BY <1>3, <1>4, <2>1, <2>2, <2>3, AfterDispatch
  <1>7. CASE wq[q] # <<>>
    <2>1. /\ sleeping' = Without(sleeping, parent)
          /\ wq' = RemovedFromWaitQueues(wq, parent)
      BY <1>1, <1>7
    <2>2. parent \in Tasks /\ state[parent] \in Blocking
      <3>1. wq[q] \in Seq(Tasks)
        BY DEF IInv, TypeOK
      <3>2. Head(wq[q]) \in Range(wq[q]) /\ Head(wq[q]) \in Tasks
        BY <1>7, <3>1, RangeOf, SMTT(30)
      <3> QED BY <1>7, <3>2 DEF IInv, BlockingOK, Blocking, First
    <2> HIDE DEF parent
    <2>3. parent # active /\ st[parent] \in Blocking /\ st[parent] \notin Runnable
      BY <1>2, <2>2 DEF IInv, Blocking, Runnable
    <2>4. /\ stw \in [Tasks -> States] /\ stw[parent] = "RUNNING"
          /\ \A u \in Tasks : u # parent => stw[u] = st[u]
      BY <1>2, <2>2, <2>3 DEF Woken, States, Blocking
    <2> HIDE DEF rd, stw
    <2>5. /\ QueuesOK(rdw, stw)
          /\ rdw[Prio[parent]] # <<>>
          /\ First(rdw[Prio[parent]]) = IF rd[Prio[parent]] = <<>> THEN parent ELSE First(rd[Prio[parent]])
          /\ \A p \in Priorities : p # Prio[parent] => rdw[p] = rd[p]
      <3>1. stw[parent] \in Runnable
        BY <2>4 DEF Runnable
      <3> QED BY <1>2, <2>2, <2>3, <2>4, <3>1, EnqueueOK, SMTT(30)
    <2>6. /\ highest \in Priorities /\ Prio[parent] \in Priorities
          /\ \A p \in Priorities : p \in Int
      BY <2>2, SchedulerAssumption, SMTT(30) DEF IInv, TypeOK, Priorities, PRIORITY_COUNT
    <2>7. hw \in Priorities /\ hw <= highest /\ hw <= Prio[parent]
      BY <2>6, SMTT(30) DEF update_highest, priority_higher
    <2>8. Above(rdw, stw, hw)
      <3>1. ASSUME NEW p \in Priorities, p < hw PROVE rdw[p] = <<>>
        <4>1. p # Prio[parent] /\ p < highest
          BY <2>6, <2>7, <3>1, SMTT(30)
        <4> QED BY <1>2, <2>5, <4>1 DEF Above
      <3>2. stw[Idle] \in Runnable
        BY <1>2, <2>3, <2>4, SchedulerAssumption DEF Above, Runnable
      <3> QED BY <2>7, <3>1, <3>2 DEF Above
    <2>9. Dispatched(stw)
      <3>1. CASE priority_higher(Prio[parent], Prio[active])
        <4>1. ready' = rdw /\ highest' = hw /\ do_ctx_switch(stw, parent)
          BY <1>1, <1>7, <3>1
        <4>2. hw = Prio[parent] /\ rd[Prio[parent]] = <<>>
          BY <1>2, <1>3, <2>6, <3>1 DEF update_highest, priority_higher, Above
        <4>3. /\ active' = parent /\ state'[parent] = "RUNNING"
              /\ QueuesOK(rdw, state') /\ SameBlocking(stw, state')
          <5>1. stw[parent] \in Runnable
            BY <2>4 DEF Runnable
          <5> HIDE DEF rdw
          <5> QED BY <1>3, <2>2, <2>5, <4>1, <5>1, SwitchTo
        <4>4. First(ready'[highest']) = parent
          BY <2>5, <4>1, <4>2
        <4>5. Above(ready', state', highest')
          BY <2>8, <4>1, <4>3, SchedulerAssumption DEF Above, SameBlocking
        <4> HIDE DEF rdw
        <4> QED BY <2>2, <4>1, <4>3, <4>4, <4>5 DEF Dispatched
      <3>2. CASE ~priority_higher(Prio[parent], Prio[active])
        <4>1. switch_out_active(stw, rdw, hw)
          BY <1>1, <1>7, <3>2
        <4> HIDE DEF rdw, hw
        <4> QED BY <1>3, <2>5, <2>8, <4>1, SwitchOut
      <3> QED BY <3>1, <3>2
    <2>10. BlockingOK(sleeping', wq', stw)
      <3>1. stw[parent] \notin Blocking
        BY <2>4 DEF Blocking
      <3> QED BY <1>4, <2>1, <2>2, <2>4, <3>1, Unblock
    <2>11. SleepersSorted'
      BY <1>1, <2>1, WithoutSorted DEF IInv, TypeOK, SleepersSorted
    <2>12. Aside
      BY <1>5, <2>11 DEF Aside
    <2> QED BY <1>3, <2>9, <2>10, <2>12, AfterDispatch
  <1> QED BY <1>6, <1>7

\* task_destroy of another task.
LEMMA DestroyInv == ASSUME IInv, NEW t \in Tasks, Destroy(t) PROVE IInv'
  <1> DEFINE su == [state EXCEPT ![t] = "TERMINATED"]
  <1>1. /\ Calls /\ preempt_count = 0 /\ t # active /\ t # Idle
        /\ state' = su
        /\ ready' = Dequeued(ready, t)
        /\ sleeping' = Without(sleeping, t)
        /\ wq' = RemovedFromWaitQueues(wq, t)
        /\ owes' = [owes EXCEPT ![t] = "nothing"]
        /\ UNCHANGED <<active, highest, preempt_count, need_resched, wake_up_time, now, walk>>
    BY DEF Destroy, task_destroy
  <1>2. /\ su \in [Tasks -> States] /\ su[t] = "TERMINATED"
        /\ \A u \in Tasks : u # t => su[u] = state[u]
    BY DEF IInv, TypeOK, States
  <1>3. su[t] \notin Runnable /\ su[t] \notin Blocking
    BY <1>2 DEF Runnable, Blocking
  <1> HIDE DEF su
  <1>4. need_resched = FALSE /\ active = First(ready[highest]) /\ ready[highest] # <<>>
    BY <1>1, MayBlockFacts
  <1>5. /\ QueuesOK(ready', state')
        /\ \A p \in Priorities : ready[p] = <<>> => ready'[p] = <<>>
        /\ \A p \in Priorities : ready[p] # <<>> /\ First(ready[p]) # t
             => ready'[p] # <<>> /\ First(ready'[p]) = First(ready[p])
    <2>1. QueuesOK(ready, state) /\ state' = su /\ ready' = Dequeued(ready, t)
      BY <1>1 DEF IInv
    <2> QED BY <1>2, <1>3, <2>1, DequeueOK, SMTT(30)
  <1>6. Above(ready', state', highest')
    BY <1>1, <1>2, <1>5, SchedulerAssumption DEF IInv, Above
  <1>7. Tracked' /\ need_resched' \in BOOLEAN
    BY <1>1, <1>4, <1>5 DEF IInv, TypeOK, Tracked, Calls
  <1>8. active' \in Tasks /\ state'[active'] = "RUNNING"
    BY <1>1, <1>2 DEF IInv, TypeOK
  <1>9. BlockingOK(sleeping', wq', state')
    BY <1>1, <1>2, <1>3, Unblock DEF IInv
  <1>10. Aside
    <2>1. SleepersSorted'
      BY <1>1, WithoutSorted DEF IInv, TypeOK, SleepersSorted
    <2>2. WalkInv' /\ OwesInv'
      BY <1>1 DEF IInv, WalkInv, WalkIsSound, OwesInv, Calls
    <2> QED BY <1>1, <2>1, <2>2 DEF IInv, TypeOK, Aside, Debts
  <1> QED BY <1>5, <1>6, <1>7, <1>8, <1>9, <1>10, Assemble

\* time_irq_handler advances the clock.
LEMMA ClockInv == ASSUME IInv, Clock PROVE IInv'
  <1>1. /\ Interrupts
        /\ now' = IF now = MaxSeconds THEN 0 ELSE now + 1
        /\ UNCHANGED <<active, state, ready, highest, preempt_count, need_resched,
                       sleeping, wake_up_time, wq, walk, owes>>
    BY DEF Clock
  <1>2. now' \in 0..MaxSeconds
    BY <1>1, SchedulerAssumption, SMTT(30) DEF IInv, TypeOK
  <1>3. Tracked' /\ SleepersSorted' /\ OwesInv' /\ WalkInv'
    BY <1>1 DEF IInv, Tracked, SleepersSorted, OwesInv, WalkInv, WalkIsSound, Interrupts
  <1>4. Aside
    BY <1>1, <1>2, <1>3 DEF IInv, TypeOK, Aside
  <1> QED BY <1>1, <1>3, <1>4, Assemble DEF IInv, TypeOK
-----------------------------------------------------------------------------
\* Every entry point of the scheduler keeps the inductive invariant.
LEMMA NextInv == IInv /\ [Next]_vars => IInv'
  <1>1. ASSUME IInv, Next PROVE IInv'
    <2>1. CASE \E t \in Tasks : Admit(t) \/ Destroy(t)
      BY <1>1, <2>1, AdmitInv, DestroyInv
    <2>2. CASE \E q \in Queues : ReadyTask(q) \/ BlockOn(q) \/ BlockOnLocked(q) \/ Exit(q)
      BY <1>1, <2>2, ReadyTaskInv, BlockOnInv, BlockOnLockedInv, ExitInv
    <2>3. CASE \E delay \in 0..(TimeMod - 1) :
                 Sleep(delay) \/ \E q \in Queues : BlockOnWithTimeout(q, delay)
      BY <1>1, <2>3, SleepInv, BlockOnWithTimeoutInv
    <2>4. CASE DisablePreempt \/ EnablePreempt \/ Rotate
      BY <1>1, <2>4, DisablePreemptInv, EnablePreemptInv, RotateCallInv
    <2>6. CASE EnablePreemptDec \/ EnablePreemptTest \/ EnablePreemptClear \/ EnablePreemptRotate
      BY <1>1, <2>6, EnablePreemptStepsInv, EnablePreemptRotateInv
    <2>5. CASE WakeSleeping \/ WakeSleepingNext \/ BlockOnLockedResume \/ Clock
      BY <1>1, <2>5, WakeSleepingInv, WakeSleepingNextInv, BlockOnLockedResumeInv, ClockInv
    <2> QED BY <1>1, <2>1, <2>2, <2>3, <2>4, <2>5, <2>6 DEF Next
  <1>2. ASSUME IInv, UNCHANGED vars PROVE IInv'
    BY <1>2 DEF vars, IInv, TypeOK, QueuesOK, Above, Tracked, BlockingOK,
                SleepersSorted, WalkInv, WalkIsSound, OwesInv
  <1> QED BY <1>1, <1>2

\* The inductive invariant holds in every reachable state of the scheduler.
THEOREM Inductive == Spec => []IInv
  BY InitInv, NextInv, PTL DEF Spec

\* The state stays well typed; in particular no switch in scheduler.c follows
\* the NULL that clist_first returns for an empty ready queue.
THEOREM TypeCorrect == Spec => []TypeOK
  <1>1. IInv => TypeOK
    BY DEF IInv
  <1> QED BY <1>1, Inductive, PTL

\* A task is in the ready queue of its priority, once, exactly when it is READY
\* or RUNNING: ready_queue_enqueue and ready_queue_remove are always paired.
THEOREM ReadyQueuesCorrect == Spec => []ReadyQueuesMatchStates
  <1>1. IInv => ReadyQueuesMatchStates
    BY DEF IInv, QueuesOK, ReadyQueuesMatchStates, Runnable
  <1> QED BY <1>1, Inductive, PTL

\* The sleeping list and the wait queues agree with the states of the tasks, and
\* a task is on one wait queue at most: remove_from_blocking_queues unlinks all.
THEOREM BlockingQueuesCorrect == Spec => []BlockingQueuesMatchStates
  <1>1. IInv => BlockingQueuesMatchStates
    BY DEF IInv, BlockingOK, BlockingQueuesMatchStates, Waiting
  <1> QED BY <1>1, Inductive, PTL

\* highest_ready_tracking never hides a ready task and its queue's head runs,
\* unless a rescheduling is pending.
THEOREM TrackingCorrect == Spec => []HeadRuns
  <1>1. IInv => HeadRuns
    BY DEF IInv, Above, Tracked, HeadRuns, TypeOK
  <1> QED BY <1>1, Inductive, PTL

\* The idle task never leaves its ready queue, so switch_out_active always finds
\* a task to run.
THEOREM IdleAlwaysReady == Spec => [](Idle \in Range(ready[IDLE]))
  <1>1. IInv => Idle \in Range(ready[IDLE])
    BY SchedulerAssumption
    DEF IInv, QueuesOK, Above, Priorities, PRIORITY_COUNT, IDLE
  <1> QED BY <1>1, Inductive, PTL

\* With preemption enabled no ready task has a higher priority than the one
\* that runs, for any number of tasks and any assignment of priorities.
THEOREM PriorityScheduling == Spec => []HighestPriorityRuns
  <1>1. IInv => HighestPriorityRuns
    <2> SUFFICES ASSUME IInv, preempt_count = 0, owes[active] \notin Unlocking,
                        NEW t \in Tasks, state[t] \in Runnable
                 PROVE  ~priority_higher(Prio[t], Prio[active])
      BY DEF HighestPriorityRuns, Runnable
    <2>1. need_resched = FALSE /\ active = First(ready[highest]) /\ active \in Tasks
      BY SMTT(30) DEF IInv, Tracked, TypeOK, Unlocking
    <2>2. ready[highest] # <<>>
      BY DEF IInv, Tracked
    <2>3. Prio[active] = highest
      BY <2>1, <2>2, FirstRunnable DEF IInv, TypeOK
    <2>4. Prio[t] \in Priorities /\ t \in Range(ready[Prio[t]])
      BY SchedulerAssumption DEF IInv, QueuesOK
    <2>5. ~(Prio[t] < highest)
      <3>1. ready[Prio[t]] # <<>>
        BY <2>4, SMTT(30) DEF Range
      <3> QED BY <2>4, <3>1 DEF IInv, Above
    <2> QED BY <2>3, <2>5 DEF priority_higher
  <1> QED BY <1>1, Inductive, PTL

\* The switch_out_active that ends scheduler_block_on_locked goes back to the
\* task that calls it when that task was already switched out in between.
THEOREM OwedSwitchHarmless == Spec => []OwedSwitchIsToSelf
  <1>1. IInv => OwedSwitchIsToSelf
    <2> SUFFICES ASSUME IInv, owes[active] = "switch"
                 PROVE  First(ready[refresh_highest_prio(ready, highest)]) = active
      BY DEF OwedSwitchIsToSelf
    <2>1. need_resched = FALSE /\ active = First(ready[highest]) /\ active \in Tasks
      BY SMTT(30) DEF IInv, OwesInv, Tracked, TypeOK
    <2>2. ready[highest] # <<>>
      BY <2>1, SchedulerAssumption DEF First
    <2> QED BY <2>1, <2>2 DEF refresh_highest_prio
  <1> QED BY <1>1, Inductive, PTL

\* The sleeping list is sorted, and the loop of scheduler_wake_sleeping misses
\* no sleeper although its callback unlinks the node it visits.
THEOREM SleepersCorrect == Spec => []SleepersInOrder
  <1>1. IInv => SleepersInOrder
    BY DEF IInv, WalkInv, SleepersInOrder
  <1> QED BY <1>1, Inductive, PTL

\* No entry point of scheduler.c leaves a task while preemption is disabled: a
\* task that holds a spinlock keeps the processor.
THEOREM NoSwitchInside == Spec => NoSwitchWhenPreemptDisabled
  <1>1. ASSUME IInv, Next, active' # active PROVE preempt_count' = 0
    <2> USE <1>1
    <2>1. preempt_count \in Nat /\ need_resched \in BOOLEAN
      BY SchedulerAssumption, SMTT(30) DEF IInv, TypeOK
    <2>2. ASSUME NEW st, NEW t, check_and_preempt(st, t), preempt_count' = preempt_count
          PROVE  preempt_count' = 0
      BY <2>1, <2>2, SMTT(30) DEF check_and_preempt, NoSwitch
    <2>3. ASSUME NEW t, scheduler_ready_task(t) PROVE preempt_count' = 0
      BY <2>2, <2>3 DEF scheduler_ready_task
    <2>4. CASE \E t \in Tasks : Admit(t) \/ Destroy(t)
      BY <2>2, <2>4 DEF Admit, scheduler_admit, Destroy, task_destroy
    <2>5. CASE \E q \in Queues : ReadyTask(q) \/ BlockOn(q) \/ BlockOnLocked(q) \/ Exit(q)
      <3>1. CASE \E q \in Queues : ReadyTask(q)
        BY <2>3, <3>1 DEF ReadyTask
      <3>2. CASE \E q \in Queues : BlockOn(q) \/ BlockOnLocked(q) \/ Exit(q)
        BY <3>2, SMTT(30) DEF BlockOn, scheduler_block_on, BlockOnLocked,
                    scheduler_block_on_locked, Exit, scheduler_exit, MayBlock
      <3> QED BY <2>5, <3>1, <3>2
    <2>6. CASE \E delay \in 0..(TimeMod - 1) :
                 Sleep(delay) \/ \E q \in Queues : BlockOnWithTimeout(q, delay)
      BY <2>6 DEF Sleep, scheduler_sleep, BlockOnWithTimeout,
                  scheduler_block_on_with_timeout, MayBlock
    <2>7. CASE DisablePreempt \/ EnablePreempt \/ Rotate
      BY <2>1, <2>7, SMTT(30) DEF DisablePreempt, scheduler_disable_preempt, EnablePreempt,
                        scheduler_enable_preempt, Rotate, scheduler_rotate
    <2>8. CASE EnablePreemptDec \/ EnablePreemptTest \/ EnablePreemptClear \/ EnablePreemptRotate
      BY <2>8 DEF EnablePreemptDec, enable_preempt_dec, EnablePreemptTest, enable_preempt_test,
                  EnablePreemptClear, enable_preempt_clear, EnablePreemptRotate, enable_preempt_rotate
    <2>9. CASE WakeSleeping \/ WakeSleepingNext \/ BlockOnLockedResume \/ Clock
      <3>1. CASE WakeSleepingNext
        BY <2>3, <3>1 DEF WakeSleepingNext, wake_up_sleeping_cb
      <3>2. CASE WakeSleeping \/ BlockOnLockedResume \/ Clock
        BY <3>2 DEF WakeSleeping, Clock, BlockOnLockedResume, block_on_locked_resume,
                    IInv, OwesInv
      <3> QED BY <2>9, <3>1, <3>2
    <2> QED BY <2>4, <2>5, <2>6, <2>7, <2>8, <2>9 DEF Next
  <1>2. IInv /\ [Next]_vars => [active' # active => preempt_count' = 0]_vars
    BY <1>1
  <1> QED BY <1>2, Inductive, PTL DEF Spec, NoSwitchWhenPreemptDisabled

\* What FifoWakeUp says of a step
Fifo ==
  \A q \in Queues :
    /\ \A i, j \in DOMAIN wq'[q] :
         i < j /\ wq'[q][j] \in Range(wq[q]) => wq'[q][i] \in Range(wq[q])
    /\ \A i, j \in DOMAIN wq[q] :
         /\ i < j
         /\ wq[q][j] \notin Range(wq'[q])
         /\ state'[wq[q][j]] # "TERMINATED"
         /\ walk = <<>>
         => wq[q][i] \notin Range(wq'[q])

\* move_to_wq: the task joins the end of a wait queue.
LEMMA ArriveFifo ==
  ASSUME IInv, NEW r \in Queues, wq' = [wq EXCEPT ![r] = Append(@, active)]
  PROVE  Fifo
  <1>1. active \in Tasks /\ wq \in [Queues -> Seq(Tasks)]
    BY DEF IInv, TypeOK
  <1>2. ASSUME NEW q \in Queues
        PROVE  /\ wq[q] \in Seq(Tasks) /\ (wq'[q] = wq[q] \/ wq'[q] = Append(wq[q], active))
               /\ \A i \in DOMAIN wq[q] : wq[q][i] \in Range(wq[q]) /\ wq[q][i] \in Range(wq'[q])
    <2>1. wq[q] \in Seq(Tasks) /\ (wq'[q] = wq[q] \/ wq'[q] = Append(wq[q], active))
      BY <1>1
    <2>2. Range(Append(wq[q], active)) = Range(wq[q]) \cup {active}
      <3>1. wq[q] \in Seq(Tasks) /\ active \in Tasks
        BY <1>1
      <3> QED
        BY ONLY <3>1, AppendRange, SMTT(30)
    <2>3. Range(wq[q]) \subseteq Range(wq'[q])
      BY <2>1, <2>2
    <2> QED
      BY <2>1, <2>3, InRange, SMTT(30)
  <1>3. ASSUME NEW q \in Queues, NEW i \in DOMAIN wq'[q], NEW j \in DOMAIN wq'[q], i < j
        PROVE  wq'[q][i] \in Range(wq[q])
    <2>1. CASE wq'[q] = wq[q]
      BY <1>2, <2>1
    <2>2. CASE wq'[q] = Append(wq[q], active)
      <3>1. i \in DOMAIN wq[q] /\ wq'[q][i] = wq[q][i]
        BY <1>1, <1>2, <1>3, <2>2, SMTT(30)
      <3> QED
        BY <1>2, <3>1
    <2> QED
      BY <1>2, <2>1, <2>2
  <1> QED
    BY <1>2, <1>3 DEF Fifo

\* remove_from_blocking_queues: t leaves first of its queue, unless it is
\* destroyed or the loop over the sleepers wakes it.
LEMMA LeaveFifo ==
  ASSUME IInv, NEW t, wq' = RemovedFromWaitQueues(wq, t),
         \/ \A q \in Queues : t \in Range(wq[q]) => wq[q][1] = t
         \/ state'[t] = "TERMINATED"
         \/ walk # <<>>
  PROVE  Fifo
  <1>1. ASSUME NEW q \in Queues
        PROVE  /\ wq[q] \in Seq(Tasks) /\ IsInjective(wq[q])
               /\ wq'[q] \in Seq(Tasks) /\ Range(wq'[q]) = Range(wq[q]) \ {t}
    <2>1. wq[q] \in Seq(Tasks) /\ IsInjective(wq[q])
      BY DEF IInv, BlockingOK
    <2>2. wq'[q] = Without(wq[q], t)
      BY DEF RemovedFromWaitQueues
    <2>3. Without(wq[q], t) \in Seq(Tasks) /\ Range(Without(wq[q], t)) = Range(wq[q]) \ {t}
      BY <2>1, WithoutRange
    <2> QED
      BY <2>1, <2>2, <2>3
  <1>2. ASSUME NEW q \in Queues, NEW i \in DOMAIN wq'[q]
        PROVE  wq'[q][i] \in Range(wq[q])
    <2>1. wq'[q][i] \in Range(wq'[q])
      BY <1>1, <1>2, InRange, SMTT(30)
    <2> QED
      BY <1>1, <2>1
  <1>3. ASSUME NEW q \in Queues, NEW i \in DOMAIN wq[q], NEW j \in DOMAIN wq[q], i < j,
               wq[q][j] \notin Range(wq'[q]), state'[wq[q][j]] # "TERMINATED", walk = <<>>
        PROVE  FALSE
    <2>1. wq[q][j] \in Range(wq[q])
      BY <1>1, InRange, SMTT(30)
    <2>2. wq[q][j] = t
      BY <1>1, <1>3, <2>1
    <2>3. wq[q][1] = wq[q][j]
      BY <1>3, <2>1, <2>2
    <2>4. j = 1
      BY <1>1, <2>3, SMTT(30) DEF IsInjective
    <2> QED
      BY <1>1, <1>3, <2>4, SMTT(30)
  <1> QED
    BY <1>2, <1>3 DEF Fifo

\* The head of a wait queue is on no other.
LEMMA HeadOfOne ==
  ASSUME IInv, NEW q \in Queues, wq[q] # <<>>
  PROVE  \A r \in Queues : Head(wq[q]) \in Range(wq[r]) => wq[r][1] = Head(wq[q])
  <1>1. wq[q] \in Seq(Tasks)
        /\ \A r \in Queues : q # r => Range(wq[q]) \cap Range(wq[r]) = {}
    BY DEF IInv, BlockingOK
  <1>2. Head(wq[q]) \in Range(wq[q]) /\ Head(wq[q]) = wq[q][1]
    BY <1>1, RangeOf
  <1> QED
    BY <1>1, <1>2

\* mutex_unlock, sem_post and scheduler_exit serve a wait queue in the order of
\* arrival, for any number of tasks and queues.
THEOREM FifoCorrect == Spec => FifoWakeUp
  <1>1. IInv /\ [Next]_vars => [Fifo]_vars
    <2> SUFFICES ASSUME IInv, Next
                 PROVE  Fifo
      OBVIOUS
    <2>1. CASE wq' = wq
      <3>1. \A q \in Queues : wq[q] \in Seq(Tasks)
        BY DEF IInv, TypeOK
      <3> QED
        BY <2>1, <3>1, InRange, SMTT(30) DEF Fifo
    <2>2. CASE \/ DisablePreempt \/ EnablePreempt \/ Rotate \/ Clock
               \/ EnablePreemptDec \/ EnablePreemptTest \/ EnablePreemptClear
               \/ EnablePreemptRotate \/ WakeSleeping \/ BlockOnLockedResume
               \/ (\E t \in Tasks : Admit(t)) \/ \E delay \in 0..(TimeMod - 1) : Sleep(delay)
      BY <2>1, <2>2 DEF DisablePreempt, EnablePreempt, Rotate, Clock, EnablePreemptDec,
           EnablePreemptTest, EnablePreemptClear, EnablePreemptRotate, WakeSleeping,
           BlockOnLockedResume, Admit, Sleep, scheduler_disable_preempt,
           scheduler_enable_preempt, scheduler_rotate, enable_preempt_dec,
           enable_preempt_test, enable_preempt_clear, enable_preempt_rotate,
           block_on_locked_resume, scheduler_admit, scheduler_sleep
    <2>3. ASSUME NEW q \in Queues, BlockOn(q) \/ BlockOnLocked(q)
                   \/ \E delay \in 0..(TimeMod - 1) : BlockOnWithTimeout(q, delay)
          PROVE  Fifo
      BY <2>3, ArriveFifo DEF BlockOn, BlockOnLocked, BlockOnWithTimeout, scheduler_block_on,
           scheduler_block_on_locked, scheduler_block_on_with_timeout
    <2>4. ASSUME NEW q \in Queues, wq[q] # <<>>, wq' = RemovedFromWaitQueues(wq, Head(wq[q]))
          PROVE  Fifo
      BY <2>4, HeadOfOne, LeaveFifo
    <2>5. ASSUME NEW q \in Queues, ReadyTask(q)
          PROVE  Fifo
      BY <2>4, <2>5 DEF ReadyTask, scheduler_ready_task
    <2>6. ASSUME NEW q \in Queues, Exit(q)
          PROVE  Fifo
      BY <2>1, <2>4, <2>6 DEF Exit, scheduler_exit, First
    <2>7. CASE WakeSleepingNext
      BY <2>1, <2>7, LeaveFifo DEF WakeSleepingNext, wake_up_sleeping_cb, scheduler_ready_task
    <2>8. ASSUME NEW t \in Tasks, Destroy(t)
          PROVE  Fifo
      <3>1. state'[t] = "TERMINATED" /\ wq' = RemovedFromWaitQueues(wq, t)
        BY <2>8 DEF Destroy, task_destroy, IInv, TypeOK
      <3> QED
        BY <3>1, LeaveFifo
    <2> QED
      BY <2>2, <2>3, <2>5, <2>6, <2>7, <2>8 DEF Next
  <1> QED
    BY <1>1, Inductive, PTL DEF Spec, FifoWakeUp, Fifo
=============================================================================
