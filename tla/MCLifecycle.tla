---------------------------- MODULE MCLifecycle ----------------------------
(* The idle task, init, a first user task and its descendants.             *)
EXTENDS Lifecycle, TLC

CONSTANTS idle, init, a, b, c, d

MCSlots == {idle, init, a, b, c, d}
MCSymmetry == Permutations({a, b, c, d})
=============================================================================
