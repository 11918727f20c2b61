----------------------------- MODULE VirtioBlk -----------------------------
(***************************************************************************)
(* The virtio block driver (drivers/blk/virtio_blk.c) between the tasks    *)
(* that call virtio_blk_request, its interrupt handler and the device.     *)
(*                                                                         *)
(* A task of this module may be interrupted between any two actions (fs    *)
(* code runs in kernel threads too).  The handler runs without giving the  *)
(* processor away except where its sem_post may switch to the task that it *)
(* wakes, which may then make further requests before the handler goes on. *)
(* The semaphores are those of AbstractSync.                               *)
(***************************************************************************)
EXTENDS Integers, FiniteSets

CONSTANTS
  Tasks,
  NoTask,
  Num,     \* driver.vq.num, the size of the queue
  IdxMod   \* 2^16 in the code: the indices of the rings are uint16_t

VIRTIO_REQ_NUM_DESC == 3

\* A queue size of virtio is a power of two, which the width of an index is too.
ASSUME VirtioAssumption ==
  /\ NoTask \notin Tasks /\ IsFiniteSet(Tasks)
  /\ Num \in Nat \ {0, 1, 2} /\ IdxMod \in Nat \ {0} /\ IdxMod % Num = 0

VARIABLES
  pc,              \* of each task, the next statement of virtio_blk_request
  head, curr,      \* its req.head, and the local of release_desc_chain
  posted,          \* the count of its completion_sem
  desc,            \* the descriptors: req stands for addr and len
  free_head_idx,
  free_slots,
  inflight,
  vq_lock,         \* the task that holds the spinlock, or NoTask
  avail,           \* the ring the driver writes
  used,            \* the ring the device writes
  last_seen_used,
  handler,         \* none, loop or posted: where virtio_irq_handler is
  victim,          \* the task it interrupted, NoTask for one not of Tasks
  isr,             \* the interrupt status register
  dev_seen,        \* the device: the next entry of avail it reads
  taken,           \* the device: the requests it works on
  served           \* history: the tasks whose current request was served

driver == <<desc, free_head_idx, inflight, vq_lock, avail>>
irq == <<last_seen_used, handler, victim>>
device == <<used, isr, dev_seen, taken, served>>
vars == <<pc, head, curr, posted, free_slots, driver, irq, device>>

Descs == 0..(Num - 1)

\* The entry of a ring that was read, or never written: what it still holds is
\* not modelled, nothing may read it.
Stale == Num

\* The processor can go on with task t: the handler does not run, and it did
\* not interrupt t.  Preemption is off while vq_lock is held, also for the task
\* that the handler's sem_post switched to.
CanRun(t) ==
  /\ handler # "loop"
  /\ handler = "posted" => victim # t
  /\ vq_lock \in {NoTask, t}

At(t, s) == pc[t] = s /\ CanRun(t)
Goto(t, s) == pc' = [pc EXCEPT ![t] = s]
-----------------------------------------------------------------------------
Slots == Num \div VIRTIO_REQ_NUM_DESC

\* sem_wait(&driver.free_slots), and a fresh req
virtio_blk_request(t) ==
  /\ At(t, "idle") /\ free_slots > 0
  /\ free_slots' = free_slots - 1
  /\ posted' = [posted EXCEPT ![t] = 0]
  /\ served' = served \ {t}
  /\ Goto(t, "submit")
  /\ UNCHANGED <<head, curr, driver, irq, used, isr, dev_seen, taken>>

\* The descriptors a request takes from the free list
Chain(i) == <<i, desc[i].next, desc[desc[i].next].next>>

\* submit_req up to the write barrier
submit_req(t) ==
  /\ At(t, "submit")
  /\ LET c == Chain(free_head_idx)
     IN  /\ desc' = [desc EXCEPT
              ![c[1]] = [req |-> t, flags |-> "NEXT", next |-> c[2]],
              ![c[2]] = [req |-> t, flags |-> "NEXT", next |-> c[3]],
              ![c[3]] = [req |-> t, flags |-> "WRITE", next |-> 0]]
         /\ avail' = [avail EXCEPT !.ring[avail.idx % Num] = c[1]]
         /\ free_head_idx' = desc[c[3]].next
         /\ inflight' = [inflight EXCEPT ![c[1]] = t]
         /\ head' = [head EXCEPT ![t] = c[1]]
  /\ vq_lock' = t
  /\ Goto(t, "publish")
  /\ UNCHANGED <<curr, posted, free_slots, irq, device>>

\* submit_req after the barrier, and notify_device
Publish(t) ==
  /\ At(t, "publish")
  /\ avail' = [avail EXCEPT !.idx = (@ + 1) % IdxMod]
  /\ vq_lock' = NoTask
  /\ Goto(t, "wait")
  /\ UNCHANGED <<head, curr, posted, free_slots, desc, free_head_idx, inflight, irq, device>>

\* Faulty virtio_blk_request: it does not wait for the completion
CompletedEarly(t) ==
  /\ At(t, "wait")
  /\ Goto(t, "release")
  /\ UNCHANGED <<head, curr, posted, free_slots, driver, irq, device>>

\* sem_wait(&req.completion_sem)
Completed(t) ==
  /\ At(t, "wait") /\ posted[t] > 0
  /\ posted' = [posted EXCEPT ![t] = @ - 1]
  /\ Goto(t, "release")
  /\ UNCHANGED <<head, curr, free_slots, driver, irq, device>>

\* The loop of release_desc_chain, outside the lock, over chains of up to three
release_desc_chain(t) ==
  /\ At(t, "release")
  /\ LET c == Chain(head[t])
         n == IF desc[c[1]].flags # "NEXT" THEN 1 ELSE IF desc[c[2]].flags # "NEXT" THEN 2 ELSE 3
         passed == {c[i] : i \in 1..(n - 1)}
     IN  /\ desc' = [i \in Descs |-> IF i \in passed THEN [desc[i] EXCEPT !.flags = "NONE"]
                                     ELSE desc[i]]
         /\ curr' = [curr EXCEPT ![t] = c[n]]
  /\ Goto(t, "link")
  /\ UNCHANGED <<head, posted, free_slots, free_head_idx, inflight, vq_lock, avail, irq, device>>

\* Faulty release_desc_chain: the head is linked to the list instead of the last
LinkHead(t) ==
  /\ At(t, "link")
  /\ desc' = [desc EXCEPT ![head[t]].next = free_head_idx]
  /\ free_head_idx' = head[t]
  /\ Goto(t, "post")
  /\ UNCHANGED <<head, curr, posted, free_slots, inflight, vq_lock, avail, irq, device>>

\* Its critical section, in which nothing else touches what it changes
Link(t) ==
  /\ At(t, "link")
  /\ desc' = [desc EXCEPT ![curr[t]].next = free_head_idx]
  /\ free_head_idx' = head[t]
  /\ Goto(t, "post")
  /\ UNCHANGED <<head, curr, posted, free_slots, inflight, vq_lock, avail, irq, device>>

\* sem_post(&driver.free_slots), and the return: req and the locals are gone
PostSlot(t) ==
  /\ At(t, "post")
  /\ free_slots' = free_slots + 1
  /\ head' = [head EXCEPT ![t] = 0] /\ curr' = [curr EXCEPT ![t] = 0]
  /\ Goto(t, "idle")
  /\ UNCHANGED <<posted, driver, irq, device>>
-----------------------------------------------------------------------------
\* The tasks the interrupt can find running
Running(t) ==
  /\ t # NoTask => pc[t] # "idle" /\ ~(pc[t] = "wait" /\ posted[t] = 0)
  /\ vq_lock \in {NoTask, t}

\* The PLIC delivers the interrupt, not again before it is completed; reading
\* the status register deasserts it.
virtio_irq_handler ==
  /\ handler = "none" /\ isr
  /\ isr' = FALSE /\ handler' = "loop"
  /\ \E t \in Tasks \cup {NoTask} : Running(t) /\ victim' = t
  /\ UNCHANGED <<pc, head, curr, posted, free_slots, driver, last_seen_used, used, dev_seen, taken, served>>

\* dev_ack.id
Seen == used.ring[last_seen_used % Num]

\* The body of its loop up to sem_post
PostCompletion ==
  /\ handler = "loop" /\ last_seen_used # used.idx
  /\ posted' = [posted EXCEPT ![inflight[Seen]] = @ + 1]
  /\ handler' = "posted"
  /\ UNCHANGED <<pc, head, curr, free_slots, driver, last_seen_used, victim, device>>

\* Faulty handler: it does not count the entry as seen
AdvanceNot ==
  /\ handler = "posted" /\ vq_lock \in {NoTask, victim}
  /\ handler' = "loop"
  /\ UNCHANGED <<pc, head, curr, posted, free_slots, driver, last_seen_used, victim, device>>

\* last_seen_used++, once the interrupted task has the processor again: not
\* while another one holds vq_lock
Advance ==
  /\ handler = "posted" /\ vq_lock \in {NoTask, victim}
  /\ last_seen_used' = (last_seen_used + 1) % IdxMod
  /\ used' = [used EXCEPT !.ring[last_seen_used % Num] = Stale]
  /\ handler' = "loop"
  /\ UNCHANGED <<pc, head, curr, posted, free_slots, driver, victim, isr, dev_seen, taken, served>>

\* Faulty handler: it looks at the ring once
ReturnAtOnce ==
  /\ handler = "loop"
  /\ handler' = "none" /\ victim' = NoTask
  /\ UNCHANGED <<pc, head, curr, posted, free_slots, driver, last_seen_used, device>>

\* The loop ends, plic_handle_irq completes the interrupt.
IrqReturn ==
  /\ handler = "loop" /\ last_seen_used = used.idx
  /\ handler' = "none" /\ victim' = NoTask
  /\ UNCHANGED <<pc, head, curr, posted, free_slots, driver, last_seen_used, device>>
-----------------------------------------------------------------------------
\* The device takes the next request: it follows the chain.
DeviceTake ==
  /\ dev_seen # avail.idx
  /\ LET h == avail.ring[dev_seen % Num]
     IN  taken' = taken \cup {[head |-> h, req |-> desc[h].req]}
  /\ dev_seen' = (dev_seen + 1) % IdxMod
  /\ avail' = [avail EXCEPT !.ring[dev_seen % Num] = Stale]
  /\ UNCHANGED <<pc, head, curr, posted, free_slots, desc, free_head_idx, inflight, vq_lock,
                 irq, used, isr, served>>

\* The device serves one of the requests, in any order, and interrupts.
DeviceServe(r) ==
  /\ r \in taken
  /\ taken' = taken \ {r}
  /\ served' = served \cup {r.req}
  /\ used' = [ring |-> [used.ring EXCEPT ![used.idx % Num] = r.head],
              idx |-> (used.idx + 1) % IdxMod]
  /\ isr' = TRUE
  /\ UNCHANGED <<pc, head, curr, posted, free_slots, driver, irq, dev_seen>>
-----------------------------------------------------------------------------
\* init_free_list; the page of the queue is zeroed.
Init ==
  /\ pc = [t \in Tasks |-> "idle"]
  /\ head = [t \in Tasks |-> 0] /\ curr = [t \in Tasks |-> 0]
  /\ posted = [t \in Tasks |-> 0]
  /\ desc = [i \in Descs |->
               [req |-> NoTask, flags |-> "NONE", next |-> (i + 1) % Num]]
  /\ free_head_idx = 0 /\ free_slots = Slots
  /\ inflight = [i \in Descs |-> NoTask]
  /\ vq_lock = NoTask
  /\ avail = [ring |-> [i \in Descs |-> Stale], idx |-> 0]
  /\ used = [ring |-> [i \in Descs |-> Stale], idx |-> 0]
  /\ last_seen_used = 0 /\ handler = "none" /\ victim = NoTask
  /\ isr = FALSE /\ dev_seen = 0 /\ taken = {} /\ served = {}

Request(t) ==
  \/ virtio_blk_request(t) \/ submit_req(t) \/ Publish(t) \/ Completed(t)
  \/ release_desc_chain(t) \/ Link(t) \/ PostSlot(t)

Handler == virtio_irq_handler \/ PostCompletion \/ Advance \/ IrqReturn

Device == DeviceTake \/ \E r \in [head : Descs, req : Tasks] : DeviceServe(r)

Next == (\E t \in Tasks : Request(t)) \/ Handler \/ Device

Spec == Init /\ [][Next]_vars

\* A task that is ready again and again in a request gets the processor: it is
\* assumed that no task keeps it for ever, see ReadyTasksRun of KernelSync.  So
\* does the interrupted one, and the device works.
Fairness ==
  /\ \A t \in Tasks : SF_vars(pc[t] # "idle" /\ Request(t))
  /\ WF_vars(Handler) /\ WF_vars(DeviceTake)
  /\ \A t \in Tasks : WF_vars(\E h \in Descs : DeviceServe([head |-> h, req |-> t]))
-----------------------------------------------------------------------------
(* Properties.                                                             *)

Statements == {"idle", "submit", "publish", "wait", "release", "link", "post"}
Ring == [ring : [Descs -> Descs \cup {Stale}], idx : 0..(IdxMod - 1)]

\* The types of the driver's and of the device's state
TypeOK ==
  /\ pc \in [Tasks -> Statements]
  /\ head \in [Tasks -> Descs] /\ curr \in [Tasks -> Descs]
  /\ posted \in [Tasks -> 0..1]
  /\ desc \in [Descs -> [req : Tasks \cup {NoTask}, flags : {"NONE", "NEXT", "WRITE"},
                         next : Descs]]
  /\ free_head_idx \in Descs /\ free_slots \in 0..Slots
  /\ inflight \in [Descs -> Tasks \cup {NoTask}]
  /\ vq_lock \in Tasks \cup {NoTask}
  /\ avail \in Ring /\ used \in Ring
  /\ last_seen_used \in 0..(IdxMod - 1) /\ dev_seen \in 0..(IdxMod - 1)
  /\ handler \in {"none", "loop", "posted"}
  /\ victim \in Tasks \cup {NoTask}
  /\ isr \in BOOLEAN /\ served \subseteq Tasks
  /\ taken \subseteq [head : Descs, req : Tasks]

\* The requests whose chain is not in the free list
Owners == {t \in Tasks : pc[t] \in {"publish", "wait", "release", "link"}}

\* The chain of a request; its last descriptor points nowhere.
OwnChain(t) ==
  {head[t], desc[head[t]].next, desc[desc[head[t]].next].next}

\* The i-th descriptor of the free list
FreeDesc[i \in 0..Num] ==
  IF i = 0 THEN free_head_idx ELSE desc[FreeDesc[i - 1]].next

\* The descriptors the free list gives out
FreeDescs ==
  {FreeDesc[i] : i \in 0..(VIRTIO_REQ_NUM_DESC * (Slots - Cardinality(Owners)) - 1)}

\* The chains of the requests and what the free list gives out next are
\* disjoint: a descriptor the device works on is not handed out again.
ChainsAreDisjoint ==
  /\ TypeOK
  /\ \A t \in Owners : /\ Cardinality(OwnChain(t)) = VIRTIO_REQ_NUM_DESC
                       /\ OwnChain(t) \cap FreeDescs = {}
                       /\ \A u \in Owners \ {t} : OwnChain(t) \cap OwnChain(u) = {}
  /\ Cardinality(FreeDescs) = VIRTIO_REQ_NUM_DESC * (Slots - Cardinality(Owners))

\* What the device works on is the chain as submit_req wrote it, and the request
\* that virtio_irq_handler finds in inflight is one that waits: it is not on the
\* stack of a call that has returned.
RequestsAreAwaited ==
  /\ \A r \in taken : /\ pc[r.req] = "wait" /\ head[r.req] = r.head
                      /\ \A i \in OwnChain(r.req) : /\ desc[i].req = r.req
                                                    /\ desc[i].flags # "NONE"
  /\ handler = "loop" /\ last_seen_used # used.idx =>
       LET t == inflight[Seen]
       IN  t \in Tasks /\ pc[t] = "wait" /\ posted[t] = 0 /\ head[t] = Seen

Blk == INSTANCE AbstractBlk WITH
  request <- [t \in Tasks |->
    IF pc[t] \in {"idle", "submit", "publish"} THEN "none"
    ELSE IF t \in served THEN "served" ELSE "queued"]

\* A request returns after the device served it, once.
ImplementsBlk == Blk!Spec

\* A submitted request returns: no completion is lost, however the interrupts
\* of several completions fall together.  The one exception is a task that
\* virtio_irq_handler interrupted and never gives back: its loop goes on as long
\* as each task it wakes has its next request served before the next test.
RequestsReturn ==
  \A t \in Tasks : pc[t] = "wait" ~> (pc[t] = "idle" \/ [](victim = t))
=============================================================================
