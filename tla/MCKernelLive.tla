---------------------------- MODULE MCKernelLive ----------------------------
(* Two workers in user mode that share a mutex.                            *)
EXTENDS KernelSync

CONSTANTS idle, clockd, tickd, u1, u2, clock, tick, io, mutex

MCTasks == {idle, clockd, tickd, u1, u2}
MCPrio == [t \in MCTasks |-> CASE t = idle -> 3 [] t \in {clockd, tickd} -> 0
                               [] OTHER -> 1]
MCKThreads == {idle, clockd, tickd}
MCSems == {clock, tick, io}
MCMutexes == {mutex}
MCQueues == {clock, tick, io, mutex}
MCSpawns == [t \in MCTasks |-> IF t = idle THEN <<clockd, tickd, u1, u2>> ELSE <<>>]
=============================================================================
