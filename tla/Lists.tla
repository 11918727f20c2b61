------------------------------- MODULE Lists -------------------------------
(***************************************************************************)
(* The operations of lib/clist.c the kernel queues are built from, on      *)
(* sequences: the head sentinel's next is the first element.               *)
(***************************************************************************)
EXTENDS Integers, Sequences, Functions

\* q without its k-th element, and with t as its k-th element: RemoveAt and
\* InsertAt of SequencesExt, which would slow the proofs down
RemovedAt(q, k) == SubSeq(q, 1, k - 1) \o SubSeq(q, k + 1, Len(q))
InsertedAt(q, k, t) == SubSeq(q, 1, k - 1) \o <<t>> \o SubSeq(q, k, Len(q))

\* clist_remove, which the callers guard with clist_is_in_list
Without(q, t) ==
  IF \E i \in DOMAIN q : q[i] = t
    THEN RemovedAt(q, CHOOSE i \in DOMAIN q : q[i] = t)
    ELSE q

\* rotate_ready_queue: nothing to do on an empty or a one task queue
Rotated(q) == IF Len(q) <= 1 THEN q ELSE Append(Tail(q), Head(q))

\* The elements of q are in the order of their dates.
SortedBy(q, date) ==
  \A i, j \in DOMAIN q : i < j => date[q[i]] <= date[q[j]]

\* clist_insert_sorted with wake_up_cmp: before the first later sleeper
InsertSorted(q, t, date) ==
  LET k == CHOOSE k \in 1..(Len(q) + 1) :
             /\ k <= Len(q) => date[q[k]] > date[t]
             /\ \A i \in 1..(k - 1) : date[q[i]] <= date[t]
  IN  InsertedAt(q, k, t)
=============================================================================
