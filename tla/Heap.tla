-------------------------------- MODULE Heap --------------------------------
(***************************************************************************)
(* lib/tinyalloc.c, the kernel's calloc and free: a used list, a free list *)
(* kept sorted by address and coalesced, a stock of blank block headers    *)
(* and a top that moves as blocks are carved.  Addresses count from the    *)
(* end of the headers.  A header carries no state while it is blank, so    *)
(* fresh is their number; the order of the used list is never read.        *)
(***************************************************************************)
EXTENDS Integers, FiniteSets, SequencesExt

CONSTANTS
  heap_limit,
  heap_max_blocks,
  heap_split_thresh,
  heap_alignment,
  Requests         \* the sizes callers ask for

ASSUME HeapAssumption ==
  /\ {heap_limit, heap_max_blocks, heap_split_thresh, heap_alignment} \subseteq Nat \ {0}
  /\ Requests \subseteq Nat \ {0}

VARIABLES
  free, used, fresh, top,
  held             \* the callers: the address and the size of what each was given

heapvars == <<free, used, fresh, top, held>>

End(b) == b.addr + b.size

Aligned(num) == ((num + heap_alignment - 1) \div heap_alignment) * heap_alignment

\* Faulty insert_block: as the new head, what TA_DISABLE_COMPACT does
insert_first(f, b) == <<b>> \o f

\* Before the first block that does not start below b
insert_block(f, b) ==
  LET k == CHOOSE k \in 1..(Len(f) + 1) :
             /\ k <= Len(f) => b.addr <= f[k].addr
             /\ \A i \in 1..(k - 1) : f[i].addr < b.addr
  IN  InsertAt(f, k, b)

\* Every run of adjacent blocks becomes one block.
compact(f) ==
  LET join(g, b) == IF g # <<>> /\ End(Last(g)) = b.addr
                      THEN [g EXCEPT ![Len(g)].size = @ + b.size]
                      ELSE Append(g, b)
  IN  FoldLeft(join, <<>>, f)

\* insert_block, compact and the headers release_blocks gives back
Inserted(f, b, blank) ==
  LET g == insert_block(f, b)
  IN  /\ free' = compact(g)
      /\ fresh' = blank + Len(g) - Len(compact(g))

IsTop(b, num) == End(b) >= top /\ b.addr + num <= heap_limit

\* The first block the loop of alloc_block takes
FirstFit(num) ==
  {k \in DOMAIN free :
     /\ IsTop(free[k], num) \/ free[k].size >= num
     /\ \A i \in 1..(k - 1) : ~IsTop(free[i], num) /\ free[i].size < num}

Give(b, asked) ==
  /\ used' = used \cup {b}
  /\ held' = held \cup {[addr |-> b.addr, size |-> asked]}

ResizeTop(k, num, asked) ==
  LET b == free[k]
  IN  /\ IsTop(b, num)
      /\ free' = RemoveAt(free, k)
      /\ top' = b.addr + num
      /\ Give([b EXCEPT !.size = num], asked)
      /\ UNCHANGED fresh

Splits(b, num) == ~IsTop(b, num) /\ fresh > 0 /\ b.size - num >= heap_split_thresh

Split(k, num, asked) ==
  LET b == free[k]
  IN  /\ Splits(b, num)
      /\ Inserted(RemoveAt(free, k), [addr |-> b.addr + num, size |-> b.size - num],
                  fresh - 1)
      /\ Give([b EXCEPT !.size = num], asked)
      /\ UNCHANGED top

Whole(k, num, asked) ==
  LET b == free[k]
  IN  /\ ~IsTop(b, num) /\ ~Splits(b, num)
      /\ free' = RemoveAt(free, k)
      /\ Give(b, asked)
      /\ UNCHANGED <<fresh, top>>

\* No free block matches: a new block at the top, or NULL and no change
Carve(num, asked) ==
  /\ FirstFit(num) = {}
  /\ fresh > 0 /\ top + num <= heap_limit
  /\ fresh' = fresh - 1
  /\ top' = top + num
  /\ Give([addr |-> top, size |-> num], asked)
  /\ UNCHANGED free

alloc_block(asked) ==
  LET num == Aligned(asked)
  IN  \/ \E k \in FirstFit(num) :
           ResizeTop(k, num, asked) \/ Split(k, num, asked) \/ Whole(k, num, asked)
      \/ Carve(num, asked)

\* The header of the address goes from the used list to the free list.
ta_free(addr) ==
  \E b \in {c \in used : c.addr = addr} :
    /\ used' = used \ {b}
    /\ held' = {h \in held : h.addr # addr}
    /\ Inserted(free, b, fresh)
    /\ UNCHANGED top

HeapInit ==
  /\ free = <<>> /\ used = {} /\ held = {}
  /\ fresh = heap_max_blocks
  /\ top = 0

HeapNext ==
  \/ \E asked \in Requests : alloc_block(asked)
  \/ \E h \in held : ta_free(h.addr)

HeapSpec == HeapInit /\ [][HeapNext]_heapvars
-----------------------------------------------------------------------------
Blocks == used \cup ToSet(free)

Disjoint(B) == \A b, c \in B : b # c => End(b) <= c.addr \/ End(c) <= b.addr

\* The blocks, used and free, tile the heap from its base to top with no
\* gap and no overlap, whatever order they were carved, split, resized,
\* freed and merged in; no two free blocks are adjacent and none is left
\* above another's address; no header is lost, which is what ta_check asks;
\* and what each caller was given lies in a used block of its own.
HeapIsTiled ==
  /\ top <= heap_limit
  /\ \A b \in Blocks : b.size > 0 /\ End(b) <= top
  /\ Disjoint(Blocks)
  /\ \A x \in 0..(top - 1) : \E b \in Blocks : b.addr <= x /\ x < End(b)
  /\ \A i \in 1..(Len(free) - 1) : End(free[i]) < free[i + 1].addr
  /\ heap_max_blocks = Len(free) + Cardinality(used) + fresh
  /\ Cardinality(held) = Cardinality(used)
  /\ \A h \in held : \E b \in used : b.addr = h.addr /\ h.size <= b.size
=============================================================================
