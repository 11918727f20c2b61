------------------------------- MODULE Pages --------------------------------
(***************************************************************************)
(* Pages and page tables: the allocator with its reference counts          *)
(* (core/memory/pages.c) and the sv39 trees (core/memory/vpages.c).        *)
(*                                                                         *)
(* Each operator is a function of the machine's memory M: a record of the  *)
(* counts, the set of free pages, what each page holds and whether the     *)
(* kernel panicked.  All of this runs with interrupts masked and does not  *)
(* block.  A page holds entries, if it is a table, and the value of its    *)
(* data.  The pages of the free list are alike: page_alloc takes the one   *)
(* with the smallest number.  An entry is the page it points to and its    *)
(* flags; PTE_V is that it is there, and PTE_A and PTE_D are not read.     *)
(* The translation buffer is flushed on every way to and from a program    *)
(* (trampoline.S) and holds nothing over a trap.                           *)
(***************************************************************************)
EXTENDS Integers, FiniteSetsExt, SequencesExt

CONSTANTS
  RamPages,    \* page numbers
  NoPage,
  Kernel,      \* the pages of the kernel's image: the trampoline's
  LEVELS,
  RcMod,       \* 2^8
  TRAPFRAME,   \* an address is the sequence of its indices, from the root on
  TRAMPOLINE,
  Values, Zero

ASSUME PagesAssumption ==
  /\ RamPages \subseteq Nat /\ IsFiniteSet(RamPages)
  /\ NoPage \notin RamPages \cup {Kernel} /\ Kernel \notin RamPages
  /\ LEVELS \in Nat \ {0} /\ RcMod \in Nat \ {0, 1} /\ Zero \in Values
  /\ {TRAPFRAME, TRAMPOLINE} \subseteq [1..LEVELS -> Nat]

RW == {"R", "W"}
NoEntries == [i \in {} |-> NoPage]

\* What walk_free reads in a page of the free list that had no such entries: next
\* and prev are even, in_list is a valid entry, no leaf, and points to address 0.
FreeNode == [i \in {2} |-> [pg |-> NoPage, fl |-> {}]]

\* page_init, of a machine with n pages
page_init(n) ==
  [rc |-> [p \in RamPages \cup {Kernel} |-> 0], free |-> {p \in RamPages : p <= n},
   pte |-> [p \in RamPages |-> FreeNode], data |-> [p \in RamPages |-> Zero], panic |-> FALSE]
-----------------------------------------------------------------------------
(* pages.c.                                                                *)

\* Faulty page_get: the count of a page that is shared stays
get_once(M, p) == [M EXCEPT !.rc[p] = 1]

page_get(M, p) == [M EXCEPT !.rc[p] = (@ + 1) % RcMod]

\* What page_alloc returns and does
NewPage(M) == IF M.free = {} THEN NoPage ELSE Min(M.free)
page_alloc(M) ==
  IF M.free = {} THEN M
  ELSE page_get([M EXCEPT !.free = @ \ {NewPage(M)}, !.pte[NewPage(M)] = NoEntries,
                          !.data[NewPage(M)] = Zero], NewPage(M))

\* push_free writes the node of the free list into the page.
page_put(M, p) ==
  IF M.rc[p] = 0 THEN [M EXCEPT !.panic = TRUE]
  ELSE IF M.rc[p] > 1 THEN [M EXCEPT !.rc[p] = @ - 1]
  ELSE [M EXCEPT !.rc[p] = 0, !.free = @ \cup {p}, !.pte[p] = FreeNode]
-----------------------------------------------------------------------------
(* vpages.c.                                                               *)

\* The result of an operation that may fail
Ok(M) == [m |-> M, ok |-> TRUE]
Failed(M) == [m |-> M, ok |-> FALSE]

SetEntry(M, table, i, p, flags) ==
  [M EXCEPT !.pte[table] = [j \in DOMAIN @ \cup {i} |-> IF j = i THEN [pg |-> p, fl |-> flags] ELSE @[j]]]

\* A level of the loop of vpage_map, on the memory, the table and the tables
\* it made.  On failure these are put, and stay in the entries above them.
MapLevel(a, i) ==
  LET new == NewPage(a.m)
  IN CASE a.table = NoPage -> a
       [] a.table # NoPage /\ i \in DOMAIN a.m.pte[a.table] ->
            [a EXCEPT !.table = a.m.pte[a.table][i].pg]
       [] a.table # NoPage /\ i \notin DOMAIN a.m.pte[a.table] /\ new = NoPage ->
            [a EXCEPT !.m = FoldLeft(page_put, a.m, a.made), !.table = NoPage]
       [] OTHER -> [m |-> SetEntry(page_alloc(a.m), a.table, i, new, {}),
                    table |-> new, made |-> Append(a.made, new)]

vpage_map(M, root, va, p, flags) ==
  LET Install(a) == IF a.table = NoPage THEN Failed(a.m)
                    ELSE Ok(SetEntry(a.m, a.table, Last(va), p, flags))
  IN Install(FoldLeft(MapLevel, [m |-> M, table |-> root, made |-> <<>>], Front(va)))

is_a_next_lvl_ptr(e) == e.fl \cap {"R", "W", "X"} = {}

\* A loop over the valid entries of a table, in their order
ForEntries(Visit(_, _), start, table) ==
  MapThenFoldSet(LAMBDA i, a : Visit(a, i), start, LAMBDA i : i, Max, DOMAIN table)

\* walk_free: the leaves that are not shared with the kernel, then the table.
\* The kernel does not map address 0: reading a table there is a fault, on which
\* kerneltrap panics.
RECURSIVE walk_free(_, _, _)
walk_free(M, table, lvl) ==
  LET Visit(m, i) ==
        LET e == M.pte[table][i]
        IN IF lvl > 0 /\ is_a_next_lvl_ptr(e) THEN walk_free(m, e.pg, lvl - 1)
           ELSE [(IF "G" \in e.fl \/ is_a_next_lvl_ptr(e) THEN m ELSE page_put(m, e.pg))
                 EXCEPT !.pte[table] = [j \in DOMAIN @ \ {i} |-> @[j]]]
  IN IF table = NoPage THEN [M EXCEPT !.panic = TRUE]
     ELSE page_put(ForEntries(Visit, M, M.pte[table]), table)

vpage_tree_free(M, root) == IF root = NoPage THEN M ELSE walk_free(M, root, LEVELS - 1)

\* walk_leaf: the table with the entry of va, if it has one.  The leaves
\* vpage_map makes are at level 0.
RECURSIVE walk_leaf(_, _, _)
walk_leaf(M, table, va) ==
  IF Head(va) \notin DOMAIN M.pte[table] THEN NoPage
  ELSE IF Len(va) = 1 THEN table ELSE walk_leaf(M, M.pte[table][Head(va)].pg, Tail(va))

Leaf(M, root, va) == M.pte[walk_leaf(M, root, va)][Last(va)]
Mapped(M, root, va) == walk_leaf(M, root, va) # NoPage

vpage_unmmap(M, root, va) ==
  LET table == walk_leaf(M, root, va)
  IN IF table = NoPage THEN M
     ELSE [page_put(M, M.pte[table][Last(va)].pg)
           EXCEPT !.pte[table] = [j \in DOMAIN @ \ {Last(va)} |-> @[j]]]

\* The last task to have a page takes it; another gets a copy.
vpage_handle_cow(M, root, va) ==
  LET table == walk_leaf(M, root, va)
      e == M.pte[table][Last(va)]
      new == NewPage(M)
      Give(m, p) == SetEntry(m, table, Last(va), p, (e.fl \ {"COW"}) \cup {"W"})
  IN CASE table = NoPage \/ "COW" \notin e.fl -> Failed(M)
       [] M.rc[e.pg] = 1 -> Ok(Give(M, e.pg))
       [] M.rc[e.pg] # 1 /\ new = NoPage -> Failed(M)
       [] OTHER -> Ok(page_put(Give([page_alloc(M) EXCEPT !.data[new] = M.data[e.pg]], new), e.pg))

\* get_pa_from_va: the memory after it, and the page or NoPage
get_pa_from_va(M, root, va, needed) ==
  LET table == walk_leaf(M, root, va)
      cow == "W" \in needed /\ "COW" \in M.pte[table][Last(va)].fl
      r == IF cow THEN vpage_handle_cow(M, root, va) ELSE Ok(M)
      e == r.m.pte[table][Last(va)]
  IN IF table = NoPage THEN [m |-> M, page |-> NoPage]
     ELSE [m |-> r.m, page |-> IF r.ok /\ needed \subseteq e.fl THEN e.pg ELSE NoPage]

\* Faulty copy_level, of one entry: the source stays writable
copy_leaf_writable(a, dst, src, i, va) ==
  LET e == a.m.pte[src][i]
      r == vpage_map(page_get(a.m, e.pg), dst, va, e.pg, (e.fl \ {"W"}) \cup {"COW"})
  IN IF va = TRAPFRAME THEN a ELSE IF r.ok THEN r ELSE Failed(page_put(r.m, e.pg))

\* Faulty copy_level, of one entry: a trapframe is a page like the others
copy_any_leaf(a, dst, src, i, va) ==
  LET e == a.m.pte[src][i]
      fl == IF "W" \in e.fl THEN (e.fl \ {"W"}) \cup {"COW"} ELSE e.fl
      r == vpage_map(page_get(SetEntry(a.m, src, i, e.pg, fl), e.pg), dst, va, e.pg, fl)
  IN IF r.ok THEN r ELSE Failed(page_put(r.m, e.pg))

\* The leaf case of copy_level: a writable page is marked in both trees
copy_leaf(a, dst, src, i, va) ==
  LET e == a.m.pte[src][i]
      fl == IF "W" \in e.fl THEN (e.fl \ {"W"}) \cup {"COW"} ELSE e.fl
      r == vpage_map(page_get(SetEntry(a.m, src, i, e.pg, fl), e.pg), dst, va, e.pg, fl)
  IN IF va = TRAPFRAME THEN a ELSE IF r.ok THEN r ELSE Failed(page_put(r.m, e.pg))

RECURSIVE copy_level(_, _, _, _)
copy_level(a, dst, src, va) ==
  LET Copy(b, i) ==
        IF ~b.ok THEN b
        ELSE IF is_a_next_lvl_ptr(b.m.pte[src][i])
             THEN copy_level(b, dst, b.m.pte[src][i].pg, Append(va, i))
             ELSE copy_leaf(b, dst, src, i, Append(va, i))
  IN ForEntries(Copy, a, a.m.pte[src])

vpage_tree_copy(M, dst, src) == copy_level(Ok(M), dst, src, <<>>)
=============================================================================
