---------------------------- MODULE SharedMutex -----------------------------
(***************************************************************************)
(* shared_mutex.h: shared_mutex and the wrappers with_shared / with_lock.  *)
(* The reactor does not preempt, so a call of a member function is one     *)
(* action; set_value() on a waiter's promise queues the waiter's           *)
(* continuation, which runs in a later action (Enter).                     *)
(***************************************************************************)
EXTENDS Integers, Sequences, FiniteSets

CONSTANT Fibers   \* the fibers that use the mutex

ASSUME FibersAssumption == IsFiniteSet(Fibers)

VARIABLES
  readers,   \* _readers
  writer,    \* _writer
  waiters,   \* _waiters: whose promise it is, and for_write
  pc,        \* where each fiber is in its use of the mutex
  write      \* write[f]: f's current lock is exclusive

vars == <<readers, writer, waiters, pc, write>>

(* "granted": the lock's future is ready and its continuation is queued;   *)
(* "inside": the function protected by the lock runs.                      *)
Places == {"outside", "waiting", "granted", "inside"}

Init ==
  /\ readers = 0
  /\ writer = FALSE
  /\ waiters = <<>>
  /\ pc = [f \in Fibers |-> "outside"]
  /\ write = [f \in Fibers |-> FALSE]
-----------------------------------------------------------------------------
Enqueue(f, forWrite) ==
  /\ waiters' = Append(waiters, [fiber |-> f, for_write |-> forWrite])
  /\ pc' = [pc EXCEPT ![f] = "waiting"]
  /\ UNCHANGED <<readers, writer>>

(* Mutant: a reader does not queue behind a waiting writer.                *)
LockSharedBarging(f) ==
  /\ pc[f] = "outside"
  /\ write' = [write EXCEPT ![f] = FALSE]
  /\ \/ /\ ~writer
        /\ readers' = readers + 1
        /\ pc' = [pc EXCEPT ![f] = "granted"]
        /\ UNCHANGED <<writer, waiters>>
     \/ writer /\ Enqueue(f, FALSE)

LockShared(f) ==
  /\ pc[f] = "outside"
  /\ write' = [write EXCEPT ![f] = FALSE]
  /\ \/ /\ ~writer /\ waiters = <<>>
        /\ readers' = readers + 1
        /\ pc' = [pc EXCEPT ![f] = "granted"]
        /\ UNCHANGED <<writer, waiters>>
     \/ (writer \/ waiters # <<>>) /\ Enqueue(f, FALSE)

(* Mutant: the exclusive lock only looks at the other writers.             *)
LockIgnoringReaders(f) ==
  /\ pc[f] = "outside"
  /\ write' = [write EXCEPT ![f] = TRUE]
  /\ \/ /\ ~writer
        /\ writer' = TRUE
        /\ pc' = [pc EXCEPT ![f] = "granted"]
        /\ UNCHANGED <<readers, waiters>>
     \/ writer /\ Enqueue(f, TRUE)

(* lock() does not look at _waiters.                                       *)
Lock(f) ==
  /\ pc[f] = "outside"
  /\ write' = [write EXCEPT ![f] = TRUE]
  /\ \/ /\ readers = 0 /\ ~writer
        /\ writer' = TRUE
        /\ pc' = [pc EXCEPT ![f] = "granted"]
        /\ UNCHANGED <<readers, waiters>>
     \/ (readers > 0 \/ writer) /\ Enqueue(f, TRUE)

(* The continuation that with_shared / with_lock attached to the future.   *)
Enter(f) ==
  /\ pc[f] = "granted"
  /\ pc' = [pc EXCEPT ![f] = "inside"]
  /\ UNCHANGED <<readers, writer, waiters, write>>

(* Mutant: the woken waiters stay in the queue.                            *)
GrantAndKeep(f, g) ==
  /\ waiters' = waiters
  /\ pc' = [h \in Fibers |->
             IF \E i \in 1..g : waiters[i].fiber = h THEN "granted"
             ELSE IF h = f THEN "outside" ELSE pc[h]]

(* The first g waiters leave the queue with their promise set, f is out.   *)
Grant(f, g) ==
  /\ waiters' = SubSeq(waiters, g + 1, Len(waiters))
  /\ pc' = [h \in Fibers |->
             IF \E i \in 1..g : waiters[i].fiber = h THEN "granted"
             ELSE IF h = f THEN "outside" ELSE pc[h]]

(* n is how many waiters for shared access head the queue.                 *)
LeadingShared(n) ==
  /\ \A i \in 1..n : ~waiters[i].for_write
  /\ n < Len(waiters) => waiters[n + 1].for_write

(* Mutant: only the front waiter is looked at, as if the loop were an if.  *)
WakeOne(f, r) ==
  IF waiters = <<>>
  THEN Grant(f, 0) /\ readers' = r /\ writer' = FALSE
  ELSE IF waiters[1].for_write
       THEN /\ Grant(f, IF r = 0 THEN 1 ELSE 0)
            /\ readers' = r /\ writer' = (r = 0)
       ELSE Grant(f, 1) /\ readers' = r + 1 /\ writer' = FALSE

(* wake(), called by f with _readers = r and _writer = false: the waiters  *)
(* for shared access at the head get in together; a waiter for exclusive   *)
(* access gets in alone, when nobody else is in.                           *)
Wake(f, r) ==
  \E n \in 0..Len(waiters) :
     /\ LeadingShared(n)
     /\ \/ /\ n < Len(waiters) /\ r + n = 0
           /\ Grant(f, 1) /\ readers' = r /\ writer' = TRUE
        \/ /\ n = Len(waiters) \/ r + n > 0
           /\ Grant(f, n) /\ readers' = r + n /\ writer' = FALSE

(* Mutant: the reader count is not taken down.                             *)
UnlockSharedUncounted(f) ==
  /\ pc[f] = "inside" /\ ~write[f]
  /\ Wake(f, readers)
  /\ UNCHANGED write

UnlockShared(f) ==
  /\ pc[f] = "inside" /\ ~write[f]
  /\ Wake(f, readers - 1)
  /\ UNCHANGED write

Unlock(f) ==
  /\ pc[f] = "inside" /\ write[f]
  /\ Wake(f, readers)
  /\ UNCHANGED write

Next ==
  \E f \in Fibers : \/ LockShared(f) \/ Lock(f) \/ Enter(f)
                    \/ UnlockShared(f) \/ Unlock(f)

(* The reactor runs every task it queued, and the protected function ends. *)
Fairness ==
  \A f \in Fibers : WF_vars(Enter(f)) /\ WF_vars(UnlockShared(f) \/ Unlock(f))

Spec == Init /\ [][Next]_vars
FairSpec == Spec /\ Fairness
-----------------------------------------------------------------------------
Holding(f) == pc[f] \in {"granted", "inside"}
SharedHolders == {f \in Fibers : Holding(f) /\ ~write[f]}
ExclusiveHolders == {f \in Fibers : Holding(f) /\ write[f]}

TypeOK ==
  /\ readers \in Nat
  /\ writer \in BOOLEAN
  /\ waiters \in Seq([fiber : Fibers, for_write : BOOLEAN])
  /\ pc \in [Fibers -> Places]
  /\ write \in [Fibers -> BOOLEAN]

(* A fiber that was granted exclusive access is alone, from the step that  *)
(* sets its promise, long before its continuation runs, to its unlock().   *)
MutualExclusion ==
  \A f \in ExclusiveHolders, g \in Fibers : Holding(g) => g = f

(* _readers and _writer tell exactly who is in, whatever mix of immediate  *)
(* grants and wake-ups let them in: an uncounted reader would admit a      *)
(* writer, a reader counted twice would keep writers out for ever.         *)
HoldersCounted ==
  /\ readers = Cardinality(SharedHolders)
  /\ writer <=> ExclusiveHolders # {}

(* _waiters holds each waiting fiber once, with the access it asked for,   *)
(* and nobody else: no promise is dropped by a wake-up or set twice.       *)
QueueConsistent ==
  /\ \A i \in 1..Len(waiters) :
        /\ pc[waiters[i].fiber] = "waiting"
        /\ waiters[i].for_write = write[waiters[i].fiber]
  /\ \A i, j \in 1..Len(waiters) :
        waiters[i].fiber = waiters[j].fiber => i = j
  /\ \A f \in Fibers : pc[f] = "waiting" =>
        \E i \in 1..Len(waiters) : waiters[i].fiber = f

(* The waiter at the front really has to wait: nobody is queued on a mutex *)
(* it could take.  wake() only runs in unlock(), so a waiter left there    *)
(* with nobody inside is never woken; and lock(), which does not look at   *)
(* the queue, can only overtake when this fails.                           *)
FrontIsBlocked ==
  waiters # <<>> => writer \/ (waiters[1].for_write /\ readers > 0)

(* No lock is granted past the queue: a step that lets f in leaves no      *)
(* fiber waiting that was queued before it.                                *)
NoOvertaking ==
  [][\A f \in Fibers :
        (pc'[f] = "granted" /\ pc[f] # "granted") =>
           \A i \in 1..Len(waiters) :
              (\A j \in 1..i : waiters[j].fiber # f) =>
                 pc'[waiters[i].fiber] # "waiting"]_vars

(* Every request is granted in the end, reader or writer, however many     *)
(* others keep coming.                                                     *)
EventuallyGranted == \A f \in Fibers : pc[f] = "waiting" ~> Holding(f)

(* The mutex implements the abstract lock.                                 *)
AccessOf(f) == IF write[f] THEN "exclusive" ELSE "shared"
Want == [f \in Fibers |-> IF pc[f] = "waiting" THEN AccessOf(f) ELSE "none"]
Hold == [f \in Fibers |-> IF Holding(f) THEN AccessOf(f) ELSE "none"]
Abstract == INSTANCE SharedLock WITH want <- Want, hold <- Hold
ImplementsSharedLock == Abstract!SharedLockSpec
=============================================================================
