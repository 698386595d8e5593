------------------------------ MODULE ObjPool -------------------------------
(***************************************************************************)
(* utility/object_pool.h: obj_pool, a lock-free ring of idle objects that  *)
(* several threads fill (put_raw) and empty (get_raw).                     *)
(*                                                                         *)
(* A thread reserves a position of the ring with a compare-and-swap on     *)
(* _prod_head (_cons_head), uses the slot, and makes its work visible to   *)
(* the other side by moving _prod_tail (_cons_tail) past the position,     *)
(* after the threads that reserved earlier positions.  Every atomic load,  *)
(* store and exchange is one action; a load of two atomics is two actions. *)
(* The machine is an x86: the relaxed accesses of the code are taken in    *)
(* program order, and a weak exchange fails only when the values differ.   *)
(***************************************************************************)
EXTENDS Naturals, Sequences, FiniteSets

CONSTANTS
  Threads,     \* the threads that use the pool
  Getters,     \* those that may call get()
  Objects,     \* addresses of objects
  None,        \* nullptr
  Slots,       \* POOL_SIZE, a power of two
  Wrap,        \* the counters are taken modulo Wrap (2^32 in the code)
  Start,       \* the value the counters start from (0 in the code)
  Pooled,      \* the objects in the ring at the start, oldest first
  Owned,       \* the objects each thread has at the start
  MaxCalls     \* bound on the calls made

(* With a ring's length fewer calls than Wrap no counter comes round to a  *)
(* value a stalled thread still remembers: in the code this takes 2^32     *)
(* calls.  A run may start, as object_pool_e_t does, from a filled pool.   *)
ASSUME PoolAssumption ==
  /\ IsFiniteSet(Threads) /\ Getters \subseteq Threads
  /\ None \notin Objects
  /\ Slots \in Nat \ {0} /\ Wrap \in Nat /\ Start \in 0..(Wrap - 1)
  /\ MaxCalls \in Nat /\ MaxCalls + Slots <= Wrap /\ Slots < Wrap
  /\ Wrap % Slots = 0
  /\ Pooled \in Seq(Objects) /\ Len(Pooled) < Slots
  /\ \A i, j \in 1..Len(Pooled) : Pooled[i] = Pooled[j] => i = j
  /\ Owned \in [Threads -> SUBSET Objects]
  /\ \A t, u \in Threads : t # u => Owned[t] \intersect Owned[u] = {}
  /\ \A t \in Threads, i \in 1..Len(Pooled) : Pooled[i] \notin Owned[t]

VARIABLES
  prod_head, prod_tail,   \* _prod_head, _prod_tail
  cons_head, cons_tail,   \* _cons_head, _cons_tail
  objs,                   \* _objs
  pc,                     \* where each thread is in put_raw() or get_raw()
  head,                   \* its local prod_head or cons_head
  tail,                   \* its local prod_tail
  ptr,                    \* the object in its hands: put's argument, get's ret
  owns,                   \* the objects it holds a unique_ptr to
  live,                   \* the objects allocated and not destroyed
  open,                   \* the pool has not been destroyed
  calls                   \* how many calls were made

counters == <<prod_head, prod_tail, cons_head, cons_tail>>
locals == <<pc, head, tail, ptr>>
vars == <<counters, objs, locals, owns, live, open, calls>>

MASK == Slots - 1

Plus(a, b) == (a + b) % Wrap
Minus(a, b) == (a + Wrap - b) % Wrap
Slot(i) == i % Slots

PoolInit ==
  /\ prod_head = Plus(Start, Len(Pooled)) /\ prod_tail = prod_head
  /\ cons_head = Start /\ cons_tail = Start
  /\ objs = [i \in 0..MASK |->
               LET n == (i + Slots - Slot(Start)) % Slots IN
               IF n < Len(Pooled) THEN Pooled[n + 1] ELSE None]
  /\ pc = [t \in Threads |-> "idle"]
  /\ head = [t \in Threads |-> Start]
  /\ tail = [t \in Threads |-> Start]
  /\ ptr = [t \in Threads |-> None]
  /\ owns = Owned
  /\ live = {Pooled[i] : i \in 1..Len(Pooled)} \union UNION {Owned[t] : t \in Threads}
  /\ open = TRUE
  /\ calls = 0

Goto(t, from, to) == pc[t] = from /\ pc' = [pc EXCEPT ![t] = to]

(* The locals go out of scope; they are reset, to tell fewer states apart. *)
Leave(t, from) ==
  /\ Goto(t, from, "idle")
  /\ head' = [head EXCEPT ![t] = Start]
  /\ tail' = [tail EXCEPT ![t] = Start]
-----------------------------------------------------------------------------
(* put_raw(), called by the deleter of a unique_ptr that get() returned.   *)
Put(t) ==
  /\ open /\ calls < MaxCalls
  /\ Goto(t, "idle", "put_head")
  /\ \E o \in owns[t] :
        /\ ptr' = [ptr EXCEPT ![t] = o]
        /\ owns' = [owns EXCEPT ![t] = @ \ {o}]
  /\ calls' = calls + 1
  /\ UNCHANGED <<counters, objs, head, tail, live, open>>

LoadProdHead(t) ==
  /\ Goto(t, "put_head", "put_free")
  /\ head' = [head EXCEPT ![t] = prod_head]
  /\ UNCHANGED <<counters, objs, tail, ptr, owns, live, open, calls>>

(* Mutant: the ring is taken for full while a slot is left.                *)
FreeEntriesShort(t) == Minus(Plus(MASK - 1, cons_tail), head[t])

(* Mutant: all POOL_SIZE slots are used.                                   *)
FreeEntriesPlusOne(t) == Minus(Plus(Slots, cons_tail), head[t])

FreeEntries(t) == Minus(Plus(MASK, cons_tail), head[t])

(* Mutant: the object that finds no room is forgotten.                     *)
DropInstead(t) ==
  \/ /\ FreeEntries(t) = 0
     /\ Leave(t, "put_free")
     /\ ptr' = [ptr EXCEPT ![t] = None]
     /\ UNCHANGED <<counters, objs, owns, live, open, calls>>
  \/ /\ FreeEntries(t) # 0
     /\ Goto(t, "put_free", "put_cas")
     /\ UNCHANGED <<counters, objs, head, tail, ptr, owns, live, open, calls>>

(* The load of _cons_tail and the decision: no room, the object is         *)
(* destroyed, or room.                                                     *)
LoadConsTail(t) ==
  \/ /\ FreeEntries(t) = 0
     /\ Leave(t, "put_free")
     /\ live' = live \ {ptr[t]}
     /\ ptr' = [ptr EXCEPT ![t] = None]
     /\ UNCHANGED <<counters, objs, owns, open, calls>>
  \/ /\ FreeEntries(t) # 0
     /\ Goto(t, "put_free", "put_cas")
     /\ UNCHANGED <<counters, objs, head, tail, ptr, owns, live, open, calls>>

(* Mutant: the head is stored without the comparison.                      *)
StoreProdHead(t) ==
  /\ Goto(t, "put_cas", "put_slot")
  /\ prod_head' = Plus(head[t], 1)
  /\ UNCHANGED <<prod_tail, cons_head, cons_tail, objs, head, tail, ptr, owns,
                 live, open, calls>>

CasProdHead(t) ==
  /\ prod_head = head[t]
  /\ Goto(t, "put_cas", "put_slot")
  /\ prod_head' = Plus(head[t], 1)
  /\ UNCHANGED <<prod_tail, cons_head, cons_tail, objs, head, tail, ptr, owns,
                 live, open, calls>>

(* The exchange fails, and the loop starts over.                           *)
CasFails(t) ==
  /\ \/ prod_head # head[t] /\ Goto(t, "put_cas", "put_head")
     \/ cons_head # head[t] /\ Goto(t, "get_cas", "get_tail")
  /\ head' = [head EXCEPT ![t] = Start]
  /\ tail' = [tail EXCEPT ![t] = Start]
  /\ UNCHANGED <<counters, objs, ptr, owns, live, open, calls>>

StoreSlot(t) ==
  /\ Goto(t, "put_slot", "put_tail")
  /\ objs' = [objs EXCEPT ![Slot(head[t])] = ptr[t]]
  /\ ptr' = [ptr EXCEPT ![t] = None]
  /\ UNCHANGED <<counters, head, tail, owns, live, open, calls>>

(* Mutant: a thread publishes without waiting for earlier positions.       *)
PublishAtOnce(t) ==
  /\ Leave(t, "put_tail")
  /\ prod_tail' = Plus(head[t], 1)
  /\ UNCHANGED <<prod_head, cons_head, cons_tail, objs, ptr, owns,
                 live, open, calls>>

(* Mutant: the thread waits for its own position to be published.          *)
PublishAfterItself(t) ==
  /\ prod_tail = Plus(head[t], 1)
  /\ Leave(t, "put_tail")
  /\ prod_tail' = Plus(head[t], 1)
  /\ UNCHANGED <<prod_head, cons_head, cons_tail, objs, ptr, owns,
                 live, open, calls>>

(* The end of the spin on _prod_tail and the store that follows it.        *)
PublishProdTail(t) ==
  /\ prod_tail = head[t]
  /\ Leave(t, "put_tail")
  /\ prod_tail' = Plus(head[t], 1)
  /\ UNCHANGED <<prod_head, cons_head, cons_tail, objs, ptr, owns,
                 live, open, calls>>
-----------------------------------------------------------------------------
InGet == {t \in Threads :
            pc[t] \in {"get_tail", "get_head", "get_cas", "get_slot", "get_done"}}

(* get() and get_raw(), while an address is left for each of them.         *)
Get(t) ==
  /\ t \in Getters /\ open /\ calls < MaxCalls
  /\ Cardinality(live) + Cardinality(InGet) < Cardinality(Objects)
  /\ Goto(t, "idle", "get_tail")
  /\ calls' = calls + 1
  /\ UNCHANGED <<counters, objs, head, tail, ptr, owns, live, open>>

LoadProdTail(t) ==
  /\ Goto(t, "get_tail", "get_head")
  /\ tail' = [tail EXCEPT ![t] = prod_tail]
  /\ UNCHANGED <<counters, objs, head, ptr, owns, live, open, calls>>

(* The load of _cons_head and the decision: an empty pool makes a new      *)
(* object, at any address that is not in use.                              *)
LoadConsHead(t) ==
  \/ /\ Minus(tail[t], cons_head) = 0
     /\ Leave(t, "get_head")
     /\ \E o \in Objects \ live :
           /\ live' = live \union {o}
           /\ owns' = [owns EXCEPT ![t] = @ \union {o}]
     /\ UNCHANGED <<counters, objs, ptr, open, calls>>
  \/ /\ Minus(tail[t], cons_head) # 0
     /\ Goto(t, "get_head", "get_cas")
     /\ head' = [head EXCEPT ![t] = cons_head]
     /\ tail' = [tail EXCEPT ![t] = Start]
     /\ UNCHANGED <<counters, objs, ptr, owns, live, open, calls>>

CasConsHead(t) ==
  /\ cons_head = head[t]
  /\ Goto(t, "get_cas", "get_slot")
  /\ cons_head' = Plus(head[t], 1)
  /\ UNCHANGED <<prod_head, prod_tail, cons_tail, objs, head, tail, ptr, owns,
                 live, open, calls>>

LoadSlot(t) ==
  /\ Goto(t, "get_slot", "get_done")
  /\ ptr' = [ptr EXCEPT ![t] = objs[Slot(head[t])]]
  /\ UNCHANGED <<counters, objs, head, tail, owns, live, open, calls>>

(* The end of the spin on _cons_tail, the store, and the object, built     *)
(* again in place when get() has arguments, in its unique_ptr (which owns  *)
(* nothing when the slot was never written).                               *)
PublishConsTail(t) ==
  /\ cons_tail = head[t]
  /\ Leave(t, "get_done")
  /\ cons_tail' = Plus(head[t], 1)
  /\ owns' = [owns EXCEPT ![t] = @ \union ({ptr[t]} \ {None})]
  /\ ptr' = [ptr EXCEPT ![t] = None]
  /\ UNCHANGED <<prod_head, prod_tail, cons_head, objs, live, open,
                 calls>>

(* A unique_ptr is moved to another thread.                                *)
HandOver(t, u, o) ==
  /\ t # u /\ pc[t] = "idle" /\ o \in owns[t]
  /\ owns' = [owns EXCEPT ![t] = @ \ {o}, ![u] = @ \union {o}]
  /\ UNCHANGED <<counters, objs, locals, live, open, calls>>

(* Mutant: the destructor destroys one object, without the loop.           *)
DestroyOne ==
  /\ open /\ \A t \in Threads : pc[t] = "idle" /\ owns[t] = {}
  /\ open' = FALSE
  /\ live' = live \ {objs[Slot(cons_head)]}
  /\ UNCHANGED <<counters, objs, locals, owns, calls>>

(* ~obj_pool(), after the last call; the unique_ptrs, whose deleters refer *)
(* to the pool, are gone too.                                              *)
Destroy ==
  /\ open /\ \A t \in Threads : pc[t] = "idle" /\ owns[t] = {}
  /\ open' = FALSE
  /\ live' = live \ {objs[Slot(i)] : i \in {j \in 0..(Wrap - 1) :
                        Minus(j, cons_head) < Minus(prod_tail, cons_head)}}
  /\ UNCHANGED <<counters, objs, locals, owns, calls>>

PutStep(t) ==
  \/ LoadProdHead(t) \/ LoadConsTail(t) \/ CasProdHead(t) \/ StoreSlot(t)
  \/ PublishProdTail(t)
GetStep(t) ==
  \/ LoadProdTail(t) \/ LoadConsHead(t) \/ CasConsHead(t) \/ LoadSlot(t)
  \/ PublishConsTail(t)

PoolNext ==
  \/ \E t \in Threads :
        \/ Put(t) \/ PutStep(t) \/ Get(t) \/ GetStep(t) \/ CasFails(t)
        \/ \E u \in Threads, o \in owns[t] : HandOver(t, u, o)
  \/ Destroy

(* The system schedules every thread.                                      *)
PoolFairness ==
  \A t \in Threads : WF_vars(PutStep(t) \/ GetStep(t) \/ CasFails(t))

PoolSpec == PoolInit /\ [][PoolNext]_vars
FairPoolSpec == PoolSpec /\ PoolFairness
-----------------------------------------------------------------------------
Hands(t) == owns[t] \union ({ptr[t]} \ {None})

(* The positions whose slot holds an object: written and not yet read.     *)
Occupied ==
  {i \in 0..(Wrap - 1) :
     \/ Minus(i, cons_head) < Minus(prod_tail, cons_head)
     \/ \E t \in Threads : /\ pc[t] \in {"put_tail", "get_slot"}
                           /\ i = head[t]}

Stored == IF open THEN {objs[Slot(i)] : i \in Occupied} ELSE {}

(* The ring is never reserved past its capacity and readers never pass     *)
(* writers, although each side decides on a value of the other side's      *)
(* counter that may be old when its exchange succeeds.                     *)
RingInOrder ==
  LET from(i) == Minus(i, cons_tail) IN
  /\ from(cons_head) <= from(prod_tail)
  /\ from(prod_tail) <= from(prod_head)
  /\ from(prod_head) <= MASK

(* An object is in one place: the hands of one thread or one position of   *)
(* the ring.  Two threads given the same object would both write to it.    *)
OneOwnerEach ==
  /\ \A t, u \in Threads : t # u => Hands(t) \intersect Hands(u) = {}
  /\ \A t \in Threads : ptr[t] \notin owns[t] /\ Hands(t) \intersect Stored = {}
  /\ open => \A i, j \in Occupied : objs[Slot(i)] = objs[Slot(j)] => i = j

(* No object is leaked, used or pooled after it was destroyed, or left     *)
(* behind by the destructor.                                               *)
NothingLost == live = Stored \union UNION {Hands(t) : t \in Threads}

(* The comment at the top of the header: while the pool is not full it     *)
(* destroys no object, however old the counters are that a put looked at.  *)
DestroysOnlyWhenFull ==
  [][(open' /\ ~(live \subseteq live')) => Minus(prod_head, cons_tail) = MASK]_vars

(* Every put and get returns: a thread that spins until earlier positions  *)
(* are published is not left spinning.                                     *)
EveryCallReturns == \A t \in Threads : pc[t] # "idle" ~> pc[t] = "idle"

(* obj_pool_test.cpp, object_pool_e_t: once every unique_ptr is gone, as   *)
(* many objects were allocated and not destroyed as size() tells.          *)
AccountsBalance ==
  (open /\ \A t \in Threads : pc[t] = "idle" /\ owns[t] = {}) =>
     Cardinality(live) = Minus(prod_tail, cons_head)
=============================================================================
