------------------------------ MODULE Semaphore ------------------------------
(***************************************************************************)
(* semaphore.h: basic_semaphore, semaphore_units, get_units, consume_units *)
(* and with_semaphore, used by fibers of one reactor.  The reactor never   *)
(* preempts, so each call is one action; setting a promise only queues the *)
(* continuation, so no user code runs inside a call.                       *)
(*                                                                         *)
(* A fiber calls the semaphore one request at a time.  The future of its   *)
(* last request is fut[f]; the semaphore_units object it owns holds        *)
(* held[f] units.  What a promise that is set does to its future is the    *)
(* business of Future.tla.                                                 *)
(***************************************************************************)
EXTENDS Integers, FiniteSets, ExpiringFifo

CONSTANTS
  Fibers,      \* the fibers that use the semaphore
  Requests,    \* the sizes a fiber asks for
  InitCount,   \* the constructor's count
  MinCount,    \* bound: consume() does not take the counter below it
  MaxSupply,   \* bound: deposits stop when this many units exist
  MaxEntries   \* bound: entries of the wait list, the expired ones included

ASSUME SemaphoreAssumption ==
  /\ IsFiniteSet(Fibers)
  /\ Requests \subseteq Nat
  /\ InitCount \in Nat
  /\ MinCount \in Int /\ MaxSupply \in Nat /\ MaxEntries \in Nat

VARIABLES
  count,   \* _count
  ex,      \* _ex is set
  fifo,    \* _wait_list
  fut,     \* what became of each fiber's last request
  asked,   \* the nr of that request while it is waiting or ready
  held,    \* _n of the fiber's semaphore_units object
  supply   \* history: units that exist, wherever they are

semVars == <<count, ex, fifo, fut, asked, held, supply>>

Futures == {"none", "waiting", "ready", "failed"}

SemInit ==
  /\ count = InitCount
  /\ ex = FALSE
  /\ fifo = EmptyFifo
  /\ fut = [f \in Fibers |-> "none"]
  /\ asked = [f \in Fibers |-> 0]
  /\ held = [f \in Fibers |-> 0]
  /\ supply = InitCount
------------------------------------------------------------------------------
HasAvailableUnits(c, nr) == c >= 0 /\ c >= nr

(* Mutant: a request barges past the waiters when it fits.                 *)
MayBarge(nr) == HasAvailableUnits(count, nr)

MayProceed(nr) == HasAvailableUnits(count, nr) /\ IsEmpty(fifo)

(* The sum of h[x] over the x of S, counted one by one.                    *)
Total(h, S) == Cardinality(UNION {{x} \X (1..h[x]) : x \in S})

(* Mutant: signal() wakes one waiter at most.                              *)
GrantOne(c, q) ==
  IF ~IsEmpty(q) /\ HasAvailableUnits(c, FifoFront(q).nr)
  THEN [count |-> c - FifoFront(q).nr,
        fifo  |-> PopFront(q),
        woken |-> {FifoFront(q).fiber}]
  ELSE [count |-> c, fifo |-> q, woken |-> {}]

(* What the entries of the list asked for.                                 *)
Sizes(q) == [i \in 1..Len(q.list) |-> q.list[i].nr]

(* The live entries that the loop of signal() reaches: what they and those *)
(* before them ask for is there.                                           *)
Granted(c, q) ==
  {i \in LiveAt(q) : HasAvailableUnits(c, Total(Sizes(q), LiveAt(q) \intersect 1..i))}

(* The loop of signal(): count, wait list and answered fibers at its end.  *)
GrantLoop(c, q) ==
  LET granted == Granted(c, q)
      last == CHOOSE i \in granted : \A j \in granted : j <= i
  IN  [count |-> c - Total(Sizes(q), granted),
       fifo  |-> IF granted = {} THEN q
                 ELSE DropExpiredFront([list |-> SubSeq(q.list, last + 1, Len(q.list)),
                                        size |-> q.size - Cardinality(granted)]),
       woken |-> {q.list[i].fiber : i \in granted}]

(* signal(nr), for a fiber that leaves the futures as f0.                  *)
Signal(nr, f0) ==
  IF ex
  THEN /\ fut' = f0
       /\ UNCHANGED <<count, fifo>>
  ELSE LET s == GrantLoop(count + nr, fifo)
       IN  /\ count' = s.count
           /\ fifo' = s.fifo
           /\ fut' = [f \in Fibers |-> IF f \in s.woken THEN "ready" ELSE f0[f]]
------------------------------------------------------------------------------
Callable(f) == fut[f] \notin {"waiting", "ready"}

(* Mutant: a broken semaphore still queues.                                *)
WaitIgnoringBroken(f, nr, timed) ==
  /\ Callable(f)
  /\ asked' = [asked EXCEPT ![f] = nr]
  /\ IF MayProceed(nr)
     THEN /\ count' = count - nr
          /\ fut' = [fut EXCEPT ![f] = "ready"]
          /\ UNCHANGED fifo
     ELSE /\ Len(fifo.list) < MaxEntries
          /\ fut' = [fut EXCEPT ![f] = "waiting"]
          /\ fifo' = PushBack(fifo, [fiber |-> f, nr |-> nr, timed |-> timed,
                                live |-> TRUE])
          /\ UNCHANGED count
  /\ UNCHANGED <<ex, held, supply>>

(* wait(timeout, nr); timed = FALSE is wait(nr), whose timeout is          *)
(* time_point::max().                                                      *)
Wait(f, nr, timed) ==
  /\ Callable(f)
  /\ \/ /\ MayProceed(nr)
        /\ count' = count - nr
        /\ asked' = [asked EXCEPT ![f] = nr]
        /\ fut' = [fut EXCEPT ![f] = "ready"]
        /\ UNCHANGED fifo
     \/ /\ ~MayProceed(nr) /\ ex
        /\ fut' = [fut EXCEPT ![f] = "failed"]
        /\ UNCHANGED <<count, fifo, asked>>
     \/ /\ ~MayProceed(nr) /\ ~ex
        /\ Len(fifo.list) < MaxEntries
        /\ asked' = [asked EXCEPT ![f] = nr]
        /\ fut' = [fut EXCEPT ![f] = "waiting"]
        /\ fifo' = PushBack(fifo, [fiber |-> f, nr |-> nr, timed |-> timed,
                                live |-> TRUE])
        /\ UNCHANGED count
  /\ UNCHANGED <<ex, held, supply>>

(* try_wait(nr) that returns true; when it returns false nothing changes.  *)
TryWait(f, nr) ==
  /\ Callable(f)
  /\ MayProceed(nr)
  /\ count' = count - nr
  /\ asked' = [asked EXCEPT ![f] = nr]
  /\ fut' = [fut EXCEPT ![f] = "ready"]
  /\ UNCHANGED <<ex, fifo, held, supply>>

(* A fiber that called wait() or try_wait() itself returns its units with  *)
(* signal(nr).                                                             *)
GiveBack(f) ==
  /\ fut[f] = "ready"
  /\ Signal(asked[f], [fut EXCEPT ![f] = "none"])
  /\ asked' = [asked EXCEPT ![f] = 0]
  /\ UNCHANGED <<ex, held, supply>>

(* signal(nr) by someone who took nothing: new units.                      *)
Deposit(nr) ==
  /\ supply + nr <= MaxSupply
  /\ Signal(nr, fut)
  /\ supply' = IF ex THEN supply ELSE supply + nr
  /\ UNCHANGED <<ex, asked, held>>

(* ~semaphore_units: signal(_n), unless _n is 0.                           *)
DropUnits(n, f0) ==
  IF n > 0 THEN Signal(n, f0) ELSE fut' = f0 /\ UNCHANGED <<count, fifo>>

(* The continuation of get_units() builds the units object and assigns it  *)
(* to the fiber's, which gives back what that one held.                    *)
TakeUnits(f) ==
  /\ fut[f] = "ready"
  /\ DropUnits(held[f], [fut EXCEPT ![f] = "none"])
  /\ held' = [held EXCEPT ![f] = asked[f]]
  /\ asked' = [asked EXCEPT ![f] = 0]
  /\ UNCHANGED <<ex, supply>>

(* consume_units(nr) into the fiber's empty units object.  consume() is a  *)
(* no-op on a broken semaphore; the units object is built all the same.    *)
Consume(f, nr) ==
  /\ held[f] = 0
  /\ count - nr >= MinCount
  /\ count' = IF ex THEN count ELSE count - nr
  /\ held' = [held EXCEPT ![f] = nr]
  /\ UNCHANGED <<ex, fifo, fut, asked, supply>>

(* The units object goes out of scope.                                     *)
DestroyUnits(f) ==
  /\ held[f] > 0
  /\ DropUnits(held[f], fut)
  /\ held' = [held EXCEPT ![f] = 0]
  /\ UNCHANGED <<ex, asked, supply>>

(* Mutant: the moved-from object keeps its units.                          *)
MoveUnitsAndKeep(f, g) ==
  /\ f # g /\ held[g] > 0
  /\ DropUnits(held[f], fut)
  /\ held' = [held EXCEPT ![f] = held[g]]
  /\ UNCHANGED <<ex, asked, supply>>

(* units(f) = std::move(units(g)).                                         *)
MoveUnits(f, g) ==
  /\ f # g /\ held[g] > 0
  /\ DropUnits(held[f], fut)
  /\ held' = [held EXCEPT ![f] = held[g], ![g] = 0]
  /\ UNCHANGED <<ex, asked, supply>>

(* release(): the units are forgotten and never come back.                 *)
ReleaseUnits(f) ==
  /\ held[f] > 0
  /\ held' = [held EXCEPT ![f] = 0]
  /\ supply' = IF ex THEN supply ELSE supply - held[f]
  /\ UNCHANGED <<count, ex, fifo, fut, asked>>

(* The timer of the i-th entry: expiry_handler, then the fifo's own part.  *)
TimeOut(i) ==
  /\ i \in Expirable(fifo)
  /\ fut' = [fut EXCEPT ![fifo.list[i].fiber] = "failed"]
  /\ asked' = [asked EXCEPT ![fifo.list[i].fiber] = 0]
  /\ fifo' = Expire(fifo, i)
  /\ UNCHANGED <<count, ex, held, supply>>

(* The fibers that hold a live entry of the wait list.                     *)
Queued == {fifo.list[i].fiber : i \in LiveAt(fifo)}

(* broken(xp): every waiter of the list gets the exception.                *)
Broken ==
  /\ ex' = TRUE
  /\ count' = 0
  /\ fut' = [f \in Fibers |-> IF f \in Queued THEN "failed" ELSE fut[f]]
  /\ asked' = [f \in Fibers |-> IF f \in Queued THEN 0 ELSE asked[f]]
  /\ fifo' = EmptyFifo
  /\ UNCHANGED <<held, supply>>

SemNext ==
  \/ \E f \in Fibers, nr \in Requests :
        \/ \E timed \in BOOLEAN : Wait(f, nr, timed)
        \/ TryWait(f, nr)
        \/ Consume(f, nr)
  \/ \E f \in Fibers : \/ GiveBack(f) \/ TakeUnits(f)
                       \/ DestroyUnits(f) \/ ReleaseUnits(f)
  \/ \E f, g \in Fibers : MoveUnits(f, g)
  \/ \E nr \in Requests : Deposit(nr)
  \/ \E i \in 1..Len(fifo.list) : TimeOut(i)
  \/ Broken

SemSpec == SemInit /\ [][SemNext]_semVars
------------------------------------------------------------------------------
(* expiring_fifo's invariant: the front is never an expired entry, so      *)
(* front() never reads a disengaged payload; and _size counts exactly the  *)
(* live entries, so empty() answers for them whatever mix of expiries and  *)
(* grants came before.                                                     *)
FrontNeverExpired ==
  /\ fifo.list # <<>> => FifoFront(fifo).live
  /\ fifo.size = Cardinality(LiveAt(fifo))

(* A request waits exactly when the wait list has one live entry for it:   *)
(* no promise is lost by the list and none is answered twice (granted and  *)
(* timed out, or timed out and broken); and the list's own invariant holds.*)
WaitersAreQueued ==
  /\ FrontNeverExpired
  /\ \A f \in Fibers : fut[f] = "waiting" <=> f \in Queued
  /\ Cardinality(Queued) = Cardinality(LiveAt(fifo))

(* The fibers whose request was granted and that did not act on it yet.    *)
Ready == {f \in Fibers : fut[f] = "ready"}

(* Until the semaphore is broken no unit is lost or made: the counter, the *)
(* requests granted but not yet picked up and the units objects add up to  *)
(* the units that exist, through waits, timeouts, moves and destructions.  *)
UnitsConserved ==
  ~ex => count + Total(asked, Ready) + Total(held, Fibers) = supply

(* A broken semaphore keeps nobody waiting and hands out no unit again,    *)
(* whatever is signalled to it afterwards.                                 *)
BrokenKeepsNobody == ex => count = 0 /\ fifo = EmptyFifo

(* Service is in FIFO order: no step makes a request ready while a request *)
(* that was queued before it (or before it came) still waits.              *)
GrantsInOrder ==
  [][\A f \in Fibers :
        (fut'[f] = "ready" /\ fut[f] # "ready") =>
          LET ahead == {i \in LiveAt(fifo) : f \in Queued =>
                          \A j \in LiveAt(fifo) :
                             fifo.list[j].fiber = f => i < j}
          IN  \A i \in ahead : fut'[fifo.list[i].fiber] # "waiting"]_semVars

FrontFits ==
  ~IsEmpty(fifo) /\ HasAvailableUnits(count, FifoFront(fifo).nr)

(* Whatever is signalled, released, moved or broken, the step hands out    *)
(* all it can: only the expiry of the waiter at the front can leave a      *)
(* waiter at the front whose request fits.                                 *)
OnlyExpiryStrands ==
  [][(FrontFits' /\ ~FrontFits) => \E i \in Expirable(fifo) : TimeOut(i)]_semVars

(* What wait() documents (semaphore.h:137-138): the future becomes ready   *)
(* when sufficient units are available to satisfy the request.  It does    *)
(* not: a timeout at the front wakes nobody.                               *)
ServedWhenAvailable == ~FrontFits
==============================================================================
