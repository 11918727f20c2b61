------------------------------ MODULE MCInodes ------------------------------
(* A file that mkfs gave an indirect block and one created by the kernel.  *)
EXTENDS Inodes, TLC

CONSTANTS f1, f2, zero, one

MCFiles == {f1, f2}
MCVals == {zero, one}
MCData == 2..7
MCNoIndir == [f \in MCFiles |-> 0]
MCLongLens == [f \in MCFiles |-> 3]
=============================================================================
