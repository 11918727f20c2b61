---------------------------- MODULE MCKernelSync ----------------------------
(* Two workers, one a kernel thread and one in user mode, with a mutex.    *)
EXTENDS KernelSync

CONSTANTS idle, clockd, tickd, kt, user, clock, tick, io, mutex

MCTasks == {idle, clockd, tickd, kt, user}
MCPrio == [t \in MCTasks |-> CASE t = idle -> 3 [] t \in {clockd, tickd} -> 0
                               [] OTHER -> 1]
MCKThreads == {idle, clockd, tickd, kt}
MCSems == {clock, tick, io}
MCMutexes == {mutex}
MCQueues == {clock, tick, io, mutex}
MCSpawns == [t \in MCTasks |-> CASE t = idle -> <<clockd, tickd, kt>>
                                 [] t = kt -> <<user>> [] OTHER -> <<>>]
=============================================================================
