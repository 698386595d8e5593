------------------------------- MODULE RWLock -------------------------------
(***************************************************************************)
(* rwlock.h: a readers-writer lock made of one semaphore with max_ops      *)
(* units; a reader takes one unit, a writer all of them.  The state is     *)
(* that of Semaphore; asked[f] says which lock f waits for or holds.  The  *)
(* rwlock never times out a wait, breaks its semaphore, or uses units      *)
(* objects.                                                                *)
(***************************************************************************)
EXTENDS Semaphore

max_ops == InitCount

(* max_ops is the largest intmax_t: no program has more fibers than that.  *)
ASSUME RWLockAssumption ==
  /\ max_ops > 1
  /\ Cardinality(Fibers) <= max_ops
  /\ {1, max_ops} \subseteq Requests

ReadLock(f) == Wait(f, 1, FALSE)

WriteLock(f) == Wait(f, max_ops, FALSE)

TryReadLock(f) == TryWait(f, 1)

TryWriteLock(f) == TryWait(f, max_ops)

(* Mutant: read_unlock() signals all the units, as write_unlock() does.    *)
ReadUnlockAll(f) ==
  /\ asked[f] = 1 /\ fut[f] = "ready"
  /\ Signal(max_ops, [fut EXCEPT ![f] = "none"])
  /\ asked' = [asked EXCEPT ![f] = 0]
  /\ UNCHANGED <<ex, held, supply>>

(* read_unlock() and write_unlock() signal what the matching lock took.    *)
ReadUnlock(f) == asked[f] = 1 /\ GiveBack(f)

(* Mutant: write_unlock() signals one unit, as read_unlock() does.         *)
WriteUnlockOne(f) ==
  /\ asked[f] = max_ops /\ fut[f] = "ready"
  /\ Signal(1, [fut EXCEPT ![f] = "none"])
  /\ asked' = [asked EXCEPT ![f] = 0]
  /\ UNCHANGED <<ex, held, supply>>

WriteUnlock(f) == asked[f] = max_ops /\ GiveBack(f)

RWNext ==
  \E f \in Fibers : \/ ReadLock(f) \/ WriteLock(f)
                    \/ TryReadLock(f) \/ TryWriteLock(f)
                    \/ ReadUnlock(f) \/ WriteUnlock(f)

(* A fiber that holds the lock unlocks it in the end.                      *)
RWFairness == \A f \in Fibers : WF_semVars(ReadUnlock(f) \/ WriteUnlock(f))

RWSpec == SemInit /\ [][RWNext]_semVars /\ RWFairness
-----------------------------------------------------------------------------
AccessOf(f) == IF asked[f] = max_ops THEN "exclusive" ELSE "shared"

Want == [f \in Fibers |-> IF fut[f] = "waiting" THEN AccessOf(f) ELSE "none"]

Hold == [f \in Fibers |-> IF fut[f] = "ready" THEN AccessOf(f) ELSE "none"]

Lock == INSTANCE SharedLock WITH want <- Want, hold <- Hold

(* Counting to max_ops gives a readers-writer lock: whatever the order of  *)
(* waits, tries and unlocks, the units a writer takes keep everybody else  *)
(* out, and one unlock grants only requests that fit together.             *)
RWImplementsSharedLock == Lock!SharedLockSpec

(* rwlock.h:86-87 and 101-103: after an unlock one of the waiting fibers   *)
(* is allowed to proceed.  Nobody is left waiting on a free lock, and a    *)
(* waiting reader only waits because of a writer, inside or queued before. *)
RWFrontIsBlocked ==
  fifo.list # <<>> =>
    \E f \in Fibers :
       fut[f] = "ready" /\ "exclusive" \in {AccessOf(f), AccessOf(FifoFront(fifo).fiber)}

(* Every lock request is granted in the end.                               *)
RWEventuallyGranted ==
  \A f \in Fibers : fut[f] = "waiting" ~> fut[f] = "ready"
=============================================================================
