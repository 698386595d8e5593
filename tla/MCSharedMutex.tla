---------------------------- MODULE MCSharedMutex ---------------------------
(***************************************************************************)
(* Four fibers: two readers can be inside while a writer and a further     *)
(* reader wait.  Liveness is checked, so there is no symmetry reduction.   *)
(***************************************************************************)
EXTENDS SharedMutex

CONSTANTS f1, f2, f3, f4

MCFibers == {f1, f2, f3, f4}
============================================================================
