------------------------------- MODULE Clist -------------------------------
(***************************************************************************)
(* lib/clist.c, the circular lists every kernel queue is built from, at    *)
(* the level of their pointers: L is the memory of all heads and nodes.    *)
(* lists is what the other modules take the lists for, sequences; it       *)
(* changes by the operators of Lists.  clist_for_each_and_del is one step  *)
(* per iteration, its callback that of wake_up_all: the node goes to a     *)
(* ready queue.  Nothing else runs meanwhile.                              *)
(***************************************************************************)
EXTENDS Lists, FiniteSets, SequencesExt

CONSTANTS
  Heads, Nodes,
  Rank,            \* of each node, what clist_insert_sorted compares
  NULL

ASSUME ClistAssumption ==
  /\ Heads \cap Nodes = {}
  /\ NULL \notin Heads \cup Nodes
  /\ Rank \in [Nodes -> Int]

Cells == Heads \cup Nodes

VARIABLES
  links,           \* next, prev and in_list of every cell
  walk,            \* the locals of clist_for_each_and_del, NULL outside it
  lists            \* history: the elements of each list

clistvars == <<links, walk, lists>>

clist_init_node(L, n) ==
  [next |-> [L.next EXCEPT ![n] = n],
   prev |-> [L.prev EXCEPT ![n] = n],
   in_list |-> [L.in_list EXCEPT ![n] = FALSE]]

clist_empty(L, h) == L.next[h] = h

\* The node goes between the cell p and its next cell.
Linked(L, p, n, q) ==
  [next |-> [L.next EXCEPT ![n] = q, ![p] = n],
   prev |-> [L.prev EXCEPT ![n] = p, ![q] = n],
   in_list |-> [L.in_list EXCEPT ![n] = TRUE]]

clist_insert_before(L, pos, n) ==
  IF L.in_list[n] THEN L ELSE Linked(L, L.prev[pos], n, pos)

clist_insert_after(L, pos, n) ==
  IF L.in_list[n] THEN L ELSE Linked(L, pos, n, L.next[pos])

\* Faulty clist_remove: the next cell keeps its prev
remove_forward(L, n) ==
  IF ~L.in_list[n] THEN L
  ELSE clist_init_node([L EXCEPT !.next[L.prev[n]] = L.next[n]], n)

clist_remove(L, n) ==
  IF ~L.in_list[n] THEN L
  ELSE clist_init_node([L EXCEPT !.next[L.prev[n]] = L.next[n],
                                 !.prev[L.next[n]] = L.prev[n]], n)

\* The k-th cell from c along next or prev
From(step, c) ==
  LET at[k \in Nat] == IF k = 0 THEN c ELSE step[at[k - 1]]
  IN  at

\* The first cell after the head that is the head again or in S: the stop
\* of the loops of clist_find, clist_find_rev and clist_insert_sorted
Stop(step, h, S) ==
  LET at == From(step, h)
      k  == CHOOSE k \in 1..(Cardinality(Nodes) + 1) :
              /\ at[k] \in S \cup {h}
              /\ \A i \in 1..(k - 1) : at[i] \notin S \cup {h}
  IN  at[k]

OrNull(c, h) == IF c = h THEN NULL ELSE c

clist_first(L, h) == IF clist_empty(L, h) THEN NULL ELSE L.next[h]

clist_last(L, h) == IF clist_empty(L, h) THEN NULL ELSE L.prev[h]

\* pred is membership of S.
clist_find(L, h, S) == OrNull(Stop(L.next, h, S), h)

clist_find_rev(L, h, S) == OrNull(Stop(L.prev, h, S), h)

SortedPlace(L, h, n) == Stop(L.next, h, {m \in Nodes : Rank[m] > Rank[n]})
-----------------------------------------------------------------------------
InSome(n) == \E h \in Heads : n \in ToSet(lists[h])

NoWalk == walk = NULL /\ UNCHANGED walk

\* A node that is in a list is left there.
PutIn(h, n, q) == lists' = IF InSome(n) THEN lists ELSE [lists EXCEPT ![h] = q]

clist_push_back(h, n) ==
  /\ NoWalk
  /\ links' = clist_insert_before(links, h, n)
  /\ PutIn(h, n, Append(lists[h], n))

clist_push_front(h, n) ==
  /\ NoWalk
  /\ links' = clist_insert_after(links, h, n)
  /\ PutIn(h, n, <<n>> \o lists[h])

clist_insert_sorted(h, n) ==
  /\ NoWalk
  /\ links' = clist_insert_before(links, SortedPlace(links, h, n), n)
  /\ PutIn(h, n, InsertSorted(lists[h], n, Rank))

RemoveNode(n) ==
  /\ NoWalk
  /\ links' = clist_remove(links, n)
  /\ lists' = [h \in Heads |-> Without(lists[h], n)]

clist_pop_front(h) ==
  /\ NoWalk
  /\ ~clist_empty(links, h)
  /\ links' = clist_remove(links, links.next[h])
  /\ lists' = [lists EXCEPT ![h] = Tail(@)]

clist_for_each_and_del(h, ready) ==
  /\ walk = NULL /\ ready # h
  /\ walk' = [head |-> h, current |-> links.next[h], ready |-> ready]
  /\ links' = [next |-> [links.next EXCEPT ![h] = h],
               prev |-> [links.prev EXCEPT ![h] = h],
               in_list |-> links.in_list]
  /\ lists' = [lists EXCEPT ![ready] = @ \o lists[h], ![h] = <<>>]

\* next is read before the node leaves.
Iterate ==
  /\ walk # NULL
  /\ LET c == walk.current
     IN  \/ /\ c # walk.head
            /\ links' = clist_insert_before(clist_remove(links, c), walk.ready, c)
            /\ walk' = [walk EXCEPT !.current = links.next[c]]
         \/ /\ c = walk.head
            /\ walk' = NULL
            /\ UNCHANGED links
  /\ UNCHANGED lists

ClistInit ==
  /\ links = [next |-> [c \in Cells |-> c], prev |-> [c \in Cells |-> c],
              in_list |-> [n \in Nodes |-> FALSE]]
  /\ walk = NULL
  /\ lists = [h \in Heads |-> <<>>]

ClistNext ==
  \/ \E h \in Heads, n \in Nodes :
       clist_push_back(h, n) \/ clist_push_front(h, n) \/ clist_insert_sorted(h, n)
  \/ \E n \in Nodes : RemoveNode(n)
  \/ \E h \in Heads : clist_pop_front(h)
  \/ \E h, ready \in Heads : clist_for_each_and_del(h, ready)
  \/ Iterate

ClistSpec == ClistInit /\ [][ClistNext]_clistvars
-----------------------------------------------------------------------------
Along(step, h, q) ==
  LET at == From(step, h)
  IN  /\ \A k \in DOMAIN q : at[k] = q[k]
      /\ at[Len(q) + 1] = h

FirstIn(q, S) ==
  LET s == SelectSeq(q, LAMBDA n : n \in S) IN IF s = <<>> THEN NULL ELSE Head(s)

\* Outside clist_for_each_and_del the pointers of every list are its
\* sequence, along next and, reversed, along prev, and in_list says who is
\* in one, after any calls that insert, sort, pop, remove and drain; so
\* clist_find and clist_find_rev, on which the scheduler and the caches
\* depend, return the first and the last match whatever the predicate.
LinksAreLists ==
  walk = NULL =>
    /\ \A n \in Nodes : links.in_list[n] <=> InSome(n)
    /\ \A n \in Nodes : ~InSome(n) => links.next[n] = n /\ links.prev[n] = n
    /\ \A h \in Heads :
         /\ Along(links.next, h, lists[h])
         /\ Along(links.prev, h, Reverse(lists[h]))
         /\ \A S \in SUBSET Nodes :
              /\ clist_find(links, h, S) = FirstIn(lists[h], S)
              /\ clist_find_rev(links, h, S) = FirstIn(Reverse(lists[h]), S)
         /\ clist_first(links, h) = FirstIn(lists[h], Nodes)
         /\ clist_last(links, h) = FirstIn(Reverse(lists[h]), Nodes)
=============================================================================
