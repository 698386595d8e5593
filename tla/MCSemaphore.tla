---------------------------- MODULE MCSemaphore ----------------------------
(***************************************************************************)
(* Three fibers, requests of 0, 1 and 2 units against a counter of 2 that  *)
(* deposits can raise to 3 and consume() can take to -1.                   *)
(***************************************************************************)
EXTENDS Semaphore, TLC

CONSTANTS f1, f2, f3

MCFibers == {f1, f2, f3}
MCMinCount == -1
Symmetry == Permutations(MCFibers)
============================================================================
