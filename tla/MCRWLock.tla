------------------------------ MODULE MCRWLock ------------------------------
(***************************************************************************)
(* Four fibers on a lock of five units: more units than fibers, as in the  *)
(* code, where max_ops is the largest intmax_t.  MinCount and MaxSupply    *)
(* bound operations the rwlock does not call.                              *)
(***************************************************************************)
EXTENDS RWLock

CONSTANTS f1, f2, f3, f4

MCFibers == {f1, f2, f3, f4}
=============================================================================
