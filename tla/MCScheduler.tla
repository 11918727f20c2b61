---------------------------- MODULE MCScheduler ----------------------------
(* A small instance of Scheduler: the idle task, the HIGH tick daemon, two  *)
(* NORMAL tasks; the number of the scheduler's states is finite.            *)
EXTENDS Scheduler, TLC

CONSTANTS idle, tickd, u1, u2, none, q1, q2

MCTasks == {idle, tickd, u1, u2}
MCPrio == [t \in MCTasks |-> CASE t = idle  -> IDLE
                               [] t = tickd -> HIGH
                               [] OTHER     -> NORMAL]
MCQueues == {q1, q2}
MCSymmetry == Permutations({u1, u2}) \cup Permutations(MCQueues)
=============================================================================
