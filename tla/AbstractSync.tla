---------------------------- MODULE AbstractSync ----------------------------
(***************************************************************************)
(* What mutex.h and semaphore.h promise, without queues, interrupts or a   *)
(* scheduler: sem_wait returns once for each resource posted, and          *)
(* mutex_lock returns only while no other task holds the mutex.            *)
(***************************************************************************)
EXTENDS Naturals

CONSTANTS Tasks, Sems, Mutexes

VARIABLES
  value,  \* the resources of each semaphore that no sem_wait has returned
  held    \* the mutexes that each task holds

vars == <<value, held>>

Init ==
  /\ value = [s \in Sems |-> 0]
  /\ held = [t \in Tasks |-> {}]

sem_post(s) == value' = [value EXCEPT ![s] = @ + 1] /\ UNCHANGED held

sem_wait(s) ==
  /\ value[s] > 0
  /\ value' = [value EXCEPT ![s] = @ - 1] /\ UNCHANGED held

mutex_lock(t, m) ==
  /\ \A u \in Tasks : m \notin held[u]
  /\ held' = [held EXCEPT ![t] = @ \cup {m}] /\ UNCHANGED value

mutex_unlock(t, m) ==
  /\ m \in held[t]
  /\ held' = [held EXCEPT ![t] = @ \ {m}] /\ UNCHANGED value

Next ==
  \/ \E s \in Sems : sem_post(s) \/ sem_wait(s)
  \/ \E t \in Tasks, m \in Mutexes : mutex_lock(t, m) \/ mutex_unlock(t, m)

Spec == Init /\ [][Next]_vars
=============================================================================
