--------------------------- MODULE AbstractMemory ---------------------------
(***************************************************************************)
(* What the memory of processes promises: every process has its own copy   *)
(* of each user page, which fork copies, a thread shares and exec replaces *)
(* by the image of the program.                                            *)
(***************************************************************************)
CONSTANTS
  Tasks, Spaces, NoSpace, Values,
  Writable,  \* the addresses a program may store to
  Stack,
  Loaded     \* what exec puts at each user address

VARIABLES
  space,     \* of each task: the name of its address space
  cells      \* what it reads at each address

Live(t) == space[t] # NoSpace
Fresh(s) == \A w \in Tasks : space[w] # s

Init ==
  /\ space = [t \in Tasks |-> NoSpace]
  /\ cells = [t \in Tasks |-> Loaded]

\* t and the threads of its process see a new value at an address.
Store(t) ==
  /\ Live(t) /\ UNCHANGED space
  /\ \E seen \in {cells'[t]} : \E va \in Writable :
       /\ \A w \in DOMAIN seen \ {va} : seen[w] = cells[t][w]
       /\ seen[va] \in Values
       /\ cells' = [u \in Tasks |-> IF space[u] = space[t] THEN seen ELSE cells[u]]

\* u becomes a process or a thread of t's, and sees what t sees.
Clone(t, u) ==
  /\ Live(t) /\ ~Live(u)
  /\ LET s == space'[u] IN /\ s \in Spaces /\ (s = space[t] \/ Fresh(s))
                           /\ space' = [space EXCEPT ![u] = s]
  /\ cells' = [cells EXCEPT ![u] = cells[t]]

\* exec, or the first program of a task: the arguments are on the stack.
Load(t) ==
  /\ LET s == space'[t] IN s \in Spaces /\ Fresh(s) /\ space' = [space EXCEPT ![t] = s]
  /\ \E v \in Values : cells' = [cells EXCEPT ![t] = [Loaded EXCEPT ![Stack] = v]]

Leave(t) ==
  /\ Live(t) /\ space' = [space EXCEPT ![t] = NoSpace]
  /\ cells' = [cells EXCEPT ![t] = Loaded]

Next ==
  \E t \in Tasks :
    \/ Store(t)
    \/ \E u \in Tasks : Clone(t, u)
    \/ Load(t) \/ Leave(t)

Spec == Init /\ [][Next]_<<space, cells>>
=============================================================================
