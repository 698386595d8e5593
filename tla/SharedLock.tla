----------------------------- MODULE SharedLock -----------------------------
(***************************************************************************)
(* What a readers-writer lock promises its callers, whatever its queueing: *)
(* shared_mutex ("a future that becomes ready when no exclusive access is  *)
(* granted to anyone", "... no access, shared or exclusive, is granted to  *)
(* anyone") and rwlock.  One call may give one lock back and grant any     *)
(* number of requests.                                                     *)
(***************************************************************************)
CONSTANT Fibers

VARIABLES
  want,   \* the access each fiber asks for, "none" when it does not wait
  hold    \* the access each fiber was granted

Access == {"none", "shared", "exclusive"}

SharedLockInit ==
  /\ want = [f \in Fibers |-> "none"]
  /\ hold = [f \in Fibers |-> "none"]

(* Nobody shares the lock with a fiber that has it exclusively.            *)
Compatible(h) ==
  \A f, g \in Fibers : h[f] = "exclusive" /\ g # f => h[g] = "none"

Request(f, mode) ==
  /\ want[f] = "none" /\ hold[f] = "none"
  /\ want' = [want EXCEPT ![f] = mode]
  /\ UNCHANGED hold

(* lock() that does not wait.                                              *)
Take(f, mode) ==
  /\ want[f] = "none" /\ hold[f] = "none"
  /\ hold' = [hold EXCEPT ![f] = mode]
  /\ Compatible(hold')
  /\ UNCHANGED want

(* f gives its lock back and the requests of S are granted.                *)
Release(f, S) ==
  /\ hold[f] # "none"
  /\ \A g \in S : want[g] # "none"
  /\ hold' = [g \in Fibers |-> IF g \in S THEN want[g]
                               ELSE IF g = f THEN "none" ELSE hold[g]]
  /\ want' = [g \in Fibers |-> IF g \in S THEN "none" ELSE want[g]]
  /\ Compatible(hold')

SharedLockNext ==
  \E f \in Fibers :
     \/ \E mode \in {"shared", "exclusive"} : Request(f, mode) \/ Take(f, mode)
     \/ \E S \in SUBSET Fibers : Release(f, S)

SharedLockSpec == SharedLockInit /\ [][SharedLockNext]_<<want, hold>>
=============================================================================
