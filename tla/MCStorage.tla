------------------------------ MODULE MCStorage -----------------------------
(* The task table, with the idle task, init, a first user task and its     *)
(* descendants; and, apart from it and from each other, two tasks that have *)
(* open files, two callers that share two buffers for three blocks, and    *)
(* the blocks of a file that has an indirect block from mkfs and of one    *)
(* that the kernel created.                                                *)
EXTENDS Lifecycle, Files, BCache, Inodes, TLC

CONSTANTS idle, init, ta, tb, tc, td, t1, t2, na, nd, nc, long, f1, f2, zero, one

MCSlots == {idle, init, ta, tb, tc, td}

MCTasks == {t1, t2}
MCISlots == 0..3
MCInos == 0..5
MCNames == {na, nd, nc, long}
MCLong == {long}
MCPaths == {<<nd, na>>, <<long>>}
MCConsole == <<nc>>
MCFSlots == 0..1

MCData == 2..6
MCIndir == (f1 :> 2) @@ (f2 :> 0)
MCLens == (f1 :> 4) @@ (f2 :> 2)

VARIABLE part

storage == <<part, vars, filesvars, bcachevars, inodevars>>

StorageInit ==
  /\ part \in {"lifecycle", "files", "bcache", "inodes"}
  /\ Init /\ FilesInit /\ BCacheInit /\ InodesInit
  /\ pc[t1] = "boot"
  /\ part # "bcache" => disk = CHOOSE k \in [Blks -> Vals] : TRUE

StorageNext ==
  /\ UNCHANGED part
  /\ \/ part = "lifecycle" /\ Next /\ UNCHANGED <<filesvars, bcachevars, inodevars>>
     \/ part = "files" /\ FilesNext /\ UNCHANGED <<vars, bcachevars, inodevars>>
     \/ part = "bcache" /\ BCacheNext /\ UNCHANGED <<vars, filesvars, inodevars>>
     \/ part = "inodes" /\ InodesNext /\ UNCHANGED <<vars, filesvars, bcachevars>>

StorageSpec == StorageInit /\ [][StorageNext]_storage

\* Task structures are alike: a task is told by its place in the table.  No living
\* task refers to one that is not there (ParentIsLive, while programs are orderly).
Place(t) == SelectInSeq(table, LAMBDA s : s = t)
TaskView ==
  <<next_pid, active_task,
    [i \in DOMAIN table |->
       LET t == table[i]
       IN <<st[t], pid[t], tgid[t], user[t], want[t], Place(parent[t]),
            [j \in DOMAIN zombies[t] |-> Place(zombies[t][j])]>>]>>

\* Two tasks that have files are alike.
FilesView ==
  <<slot, icache, itab, ibm, ftable, dents, holder, faults,
    {<<fdtable[t], pc[t], loc[t], t \in dead, {s \in ISlots : m[s] = t}>> : t \in Tasks}>>

View ==
  CASE part = "lifecycle" -> <<part, TaskView>>
    [] part = "files" -> <<part, FilesView>>
    [] OTHER -> <<part, bcachevars, inodevars>>
=============================================================================
