------------------------------ MODULE MCMemory ------------------------------
(* Three tasks, and one program, which has a page of data.                 *)
EXTENDS Memory

CONSTANTS t1, t2, t3

MCTasks == {t1, t2, t3}
MCPages == 1..15
MCSizes == 12..15
MCTrapframe == <<1, 0, 8>>
MCTrampoline == <<1, 0, 9>>
MCStack == <<1, 0, 7>>
MCThreadTrapframe == [t \in MCTasks |-> CASE t = t1 -> <<1, 0, 1>> [] t = t2 -> <<1, 0, 2>> [] OTHER -> <<1, 0, 3>>]
MCKernelMap == <<[va |-> <<1, 0, 0>>, fl |-> {"R", "W", "X"}], [va |-> MCTrampoline, fl |-> {"X", "R"}]>>
MCIoVas == {<<1, 0, 6>>}
MCSegments == <<[va |-> <<1, 0, 5>>, fl |-> {"R", "W"}, read |-> TRUE, val |-> 1]>>
MCValues == {0, 1}

\* Pages are alike: a page is told by where the trees and the tasks refer to it.
RECURSIVE Below(_, _, _)
Below(name, p, lvl) ==
  {<<name, p>>} \cup
  (IF lvl = 0 THEN {}
   ELSE UNION {Below(Append(name, i), mem.pte[p][i].pg, lvl - 1) : i \in DOMAIN mem.pte[p]})

Named ==
  UNION {Below(<<t, "root">>, root[t], LEVELS) : t \in {t \in Tasks : root[t] # NoPage}}
  \cup UNION {Below(<<t, "old">>, loading[t].root, LEVELS) : t \in {t \in Tasks : loading[t].root # NoPage}}
  \cup {<<<<t, "tframe">>, tframe_pa[t]>> : t \in Tasks}
  \cup {<<<<t, "page">>, loading[t].page>> : t \in Tasks}

PageView(p, named) ==
  [names |-> {n[1] : n \in {n \in named : n[2] = p}}, rc |-> mem.rc[p], data |-> mem.data[p],
   flags |-> {<<i, mem.pte[p][i].fl>> : i \in DOMAIN mem.pte[p]}]

View ==
  LET named == Named
      seen == {n[2] : n \in named} \cap RamPages
  IN <<{va \in IoVas : Mapped(mem, kroot, va)}, pc, tframe_va, faults, mem.panic, mem.rc[Kernel], Cardinality(mem.free),
       [t \in Tasks |-> loading[t].k], {PageView(p, named) : p \in seen}>>
=============================================================================
