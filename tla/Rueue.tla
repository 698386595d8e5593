------------------------------- MODULE Rueue -------------------------------
(***************************************************************************)
(* rueue (src/src/rueue.h): the growing ring queue.  data is an array of   *)
(* cap cells, cap a power of two; beg and end are free-running counters of *)
(* the width of size_t, reduced to a cell only when a cell is touched      *)
(* (mask), so size() is a subtraction that may wrap.  A cell holds an item *)
(* or is Raw, memory without a constructed object: the code pairs every    *)
(* construct with a destroy by hand.                                       *)
(*                                                                         *)
(* Every operation is an operator on ring records, so that the properties  *)
(* can compare it, on every reachable ring and every legal argument, with  *)
(* what a double-ended queue does to the sequence of its items.  Positions *)
(* are offsets from begin(); the iterator an operation returns is the      *)
(* counter it carries.  Operations that throw change nothing.              *)
(***************************************************************************)
EXTENDS Integers, Sequences

CONSTANTS
    RQueues,     \* the names of the queue objects
    RItems,      \* the items
    Raw,         \* an unconstructed cell
    Width,       \* the counters are numbers modulo Width (2^64 in the code)
    Caps,        \* the sizes of an allocation: the powers of two from 32 on
    MaxItems,    \* bound: the items a queue holds
    MaxArgs      \* bound: the items a call adds

\* What mask() needs of the powers of two, and that memory ends before the
\* counters do.
ASSUME RueueAssumption ==
    /\ Raw \notin RItems
    /\ {Width, MaxItems, MaxArgs} \subseteq Nat /\ MaxArgs > 0
    /\ MaxItems + MaxArgs < Width
    /\ \A c \in Caps : c \in 1..Width /\ Width % c = 0
    /\ \A n \in 0..MaxItems + MaxArgs : \E c \in Caps : n <= c

VARIABLE rq       \* queue name -> ring record (struct impl)

NullRing == [data |-> <<>>, beg |-> 0, end |-> 0, cap |-> 0]

Wrap(i)    == i % Width
RSize(r)   == Wrap(r.end - r.beg)
Mask(r, i) == IF r.cap = 0 THEN i ELSE i % r.cap
RItem(r, i) == r.data[Mask(r, i)]

\* The items from front to back, as operator[] and the iterators give them.
Items(r) == [k \in 1..RSize(r) |-> RItem(r, Wrap(r.beg + k - 1))]

\* The cells from counter at on hold the members of s.
Store(r, at, s) ==
    [r EXCEPT !.data = [c \in DOMAIN @ |->
        LET k == (c - at) % r.cap IN IF k < Len(s) THEN s[k + 1] ELSE @[c]]]

Raws(n)           == [k \in 1..n |-> Raw]
DestroyIndex(r, at, n) == Store(r, at, Raws(n))

SizePolicy(n) ==
    CHOOSE c \in Caps : n <= c /\ \A d \in Caps : n <= d => c <= d

\* Fresh memory of c cells with s constructed from cell 0 on.
Allocated(s, c) ==
    [data |-> [i \in 0..c - 1 |-> IF i < Len(s) THEN s[i + 1] ELSE Raw],
     beg |-> 0, end |-> Len(s), cap |-> c]

(* Mutant: the items are copied by cell instead of from begin(). *)
ReallocByCell(r, n) == Allocated([k \in 1..RSize(r) |-> r.data[k - 1]], SizePolicy(n))
Realloc(r, n)    == Allocated(Items(r), SizePolicy(n))
Reserve(r, n)    == IF r.cap >= n THEN r ELSE Realloc(r, n)
MayRealloc(r, n) == IF RSize(r) + n > r.cap THEN Reserve(r, RSize(r) + n) ELSE r
Destroy(r)       == [DestroyIndex(r, r.beg, RSize(r)) EXCEPT !.beg = 0, !.end = 0]

PushBack(r, v) ==
    LET a == MayRealloc(r, 1)
    IN  [Store(a, a.end, <<v>>) EXCEPT !.end = Wrap(@ + 1)]
PushFront(r, v) ==
    LET a == MayRealloc(r, 1)
    IN  [Store(a, Wrap(a.beg - 1), <<v>>) EXCEPT !.beg = Wrap(@ - 1)]
PopBack(r) ==
    IF RSize(r) = 0 THEN r
    ELSE [DestroyIndex(r, Wrap(r.end - 1), 1) EXCEPT !.end = Wrap(@ - 1)]
PopFront(r) ==
    IF RSize(r) = 0 THEN r
    ELSE [DestroyIndex(r, r.beg, 1) EXCEPT !.beg = Wrap(@ + 1)]

\* The size and the range constructors, and assign().
Constructed(s)   == LET r == Realloc(NullRing, Len(s))
                IN  [Store(r, 0, s) EXCEPT !.end = Len(s)]
Assign(r, s) == LET a == Reserve(Destroy(r), Len(s))
                IN  IF s = <<>> THEN a ELSE [Store(a, 0, s) EXCEPT !.end = Len(s)]

\* The copy constructor: a new allocation, even for an empty queue.
CopyOf(other) == Allocated(Items(other), SizePolicy(RSize(other)))

(* Mutant: the cells that the move leaves behind are not destroyed. *)
CloseFrontLeaking(r, i, j) ==
    [Store(r, Wrap(r.beg + j - i), SubSeq(Items(r), 1, i)) EXCEPT !.beg = Wrap(@ + j - i)]

(* erase(first,last) at offsets i and j, erase(where) at offset i: the     *)
(* shorter side is moved over the gap and the cells it leaves are          *)
(* destroyed.  .it is the returned iterator.                               *)
CloseFront(r, i, j) ==
    LET moved == Store(r, Wrap(r.beg + j - i), SubSeq(Items(r), 1, i))
    IN  [DestroyIndex(moved, r.beg, j - i) EXCEPT !.beg = Wrap(@ + j - i)]
CloseBack(r, i, j) ==
    LET tail  == SubSeq(Items(r), j + 1, RSize(r))
        moved == Store(r, Wrap(r.beg + i), tail)
        last  == Wrap(r.beg + i + Len(tail))
    IN  [DestroyIndex(moved, last, j - i) EXCEPT !.end = last]

EraseRange(r, i, j) ==
    IF i = j THEN [ring |-> r, it |-> Wrap(r.beg + j)]
    ELSE IF i < RSize(r) - j
         THEN [ring |-> CloseFront(r, i, j), it |-> Wrap(r.beg + j)]
         ELSE [ring |-> CloseBack(r, i, j),  it |-> Wrap(r.beg + i)]
EraseAt(r, i) ==
    [ring |-> IF i < RSize(r) - i THEN CloseFront(r, i, i + 1)
                                  ELSE CloseBack(r, i, i + 1),
     it   |-> Wrap(r.beg + i)]

\* insert() of the values s before offset i: room first, then the shorter
\* side makes way.
InsertN(r, i, s) ==
    LET n == Len(s)
        a == Reserve(r, RSize(r) + n)
        pos == Wrap(a.beg + i)
        head == SubSeq(Items(a), 1, i)
        tail == SubSeq(Items(a), i + 1, RSize(a))
    IN  IF n = 0 THEN [ring |-> r, it |-> Wrap(r.beg + i)]
        ELSE IF i < RSize(a) - i
        THEN [ring |-> [Store(a, Wrap(a.beg - n), head \o s) EXCEPT !.beg = Wrap(@ - n)],
              it   |-> Wrap(pos - n)]
        ELSE [ring |-> [Store(a, pos, s \o tail) EXCEPT !.end = Wrap(@ + n)],
              it   |-> pos]

\* Iterators compare by their distance from begin().
Before(r, x, y) == Wrap(x - r.beg) < Wrap(y - r.beg)
\* The guard of erase(where) and of insert() of one value.
OutOfRange(r, x, limit) == Before(r, limit, x) \/ Before(r, x, r.beg)

----------------------------------------------------------------------------
\* The argument sequences the model passes.
Arguments  == UNION {[1..n -> RItems] : n \in 0..MaxArgs}
Offsets(r) == 0..RSize(r)

Becomes(q, r) == rq' = [rq EXCEPT ![q] = r]

RPush(q) == /\ RSize(rq[q]) < MaxItems
            /\ \E v \in RItems : \/ Becomes(q, PushBack(rq[q], v))
                                 \/ Becomes(q, PushFront(rq[q], v))
RPop(q) == Becomes(q, PopBack(rq[q])) \/ Becomes(q, PopFront(rq[q]))
RErase(q) ==
    \E i \in Offsets(rq[q]) :
        \/ i < RSize(rq[q]) /\ Becomes(q, EraseAt(rq[q], i).ring)
        \/ \E j \in i..RSize(rq[q]) : Becomes(q, EraseRange(rq[q], i, j).ring)
RInsert(q) ==
    \E i \in Offsets(rq[q]), s \in Arguments :
        RSize(rq[q]) + Len(s) <= MaxItems /\ Becomes(q, InsertN(rq[q], i, s).ring)
RAssign(q) ==
    \E s \in Arguments :
        /\ Len(s) <= MaxItems
        /\ Becomes(q, Assign(rq[q], s)) \/ Becomes(q, Constructed(s))
RClear(q)   == Becomes(q, Destroy(rq[q]))
RReserve(q) == \E n \in 0..MaxItems : Becomes(q, Reserve(rq[q], n))

\* Copy and move assignment (destroy, then construct in place), swap().
RCopy(q, p) == q # p /\ Becomes(q, CopyOf(rq[p]))
RMove(q, p) == q # p /\ rq' = [rq EXCEPT ![q] = rq[p], ![p] = NullRing]
RSwap(q, p) == q # p /\ rq' = [rq EXCEPT ![q] = rq[p], ![p] = rq[q]]

RueueInit == rq = [q \in RQueues |-> NullRing]
RueueNext ==
    \E q \in RQueues :
        \/ RPush(q) \/ RPop(q) \/ RErase(q) \/ RInsert(q)
        \/ RAssign(q) \/ RClear(q) \/ RReserve(q)
        \/ \E p \in RQueues : RCopy(q, p) \/ RMove(q, p) \/ RSwap(q, p)
RueueSpec == RueueInit /\ [][RueueNext]_rq

----------------------------------------------------------------------------
(* A cell is constructed exactly when a counter in [beg,end) reaches it,   *)
(* and no two of those counters reach the same cell: no operation leaks an *)
(* object, destroys one twice or hands out raw memory, wherever the        *)
(* counters stand and whichever half an erase or insert moved.             *)
CellsConstructed ==
    \A q \in RQueues :
        LET r == rq[q]
            live == {Mask(r, Wrap(r.beg + k)) : k \in 0..RSize(r) - 1}
        IN  /\ RSize(r) <= r.cap
            /\ \A c \in 0..r.cap - 1 : (r.data[c] # Raw) <=> c \in live

\* s with its items i+1..j replaced by t.
Splice(s, i, j, t) == SubSeq(s, 1, i) \o t \o SubSeq(s, j + 1, Len(s))

(* On every reachable ring every operation does to the items what the      *)
(* double-ended queue of the standard library does, across reallocation    *)
(* and across the wrap of the counters and of the ring.                    *)
OperationsMatchDeque ==
    \A q \in RQueues :
        LET r == rq[q]
            s == Items(r)
            n == Len(s)
        IN  /\ Items(PopBack(r))  = SubSeq(s, 1, n - 1)
            /\ Items(PopFront(r)) = SubSeq(s, 2, n)
            /\ Items(CopyOf(r)) = s /\ Items(Destroy(r)) = <<>>
            /\ \A v \in RItems : /\ Items(PushBack(r, v))  = Append(s, v)
                                 /\ Items(PushFront(r, v)) = <<v>> \o s
            /\ \A t \in Arguments :
                  /\ Items(Assign(r, t)) = t
                  /\ \A i \in 0..n : Items(InsertN(r, i, t).ring) = Splice(s, i, i, t)
            /\ \A i \in 0..n, j \in 0..n :
                  i <= j => Items(EraseRange(r, i, j).ring) = Splice(s, i, j, <<>>)
            /\ \A i \in 0..n - 1 : Items(EraseAt(r, i).ring) = Splice(s, i, i + 1, <<>>)

(* The iterator an operation returns stands on the first inserted value,   *)
(* or on the item after the last erased one (end() if there is none) --    *)
(* except that erase(where) in the front half returns the counter of the   *)
(* erased cell, one before it (rueue.h:472-481): for the first item that   *)
(* is one before begin().  The range guards reject exactly the positions   *)
(* outside [begin, end].                                                   *)
IteratorsMatchDeque ==
    \A q \in RQueues :
        LET r == rq[q]
            n == RSize(r)
            StandsAt(o, i) == o.it = Wrap(o.ring.beg + i)
        IN  /\ \A i \in 0..n, t \in Arguments : StandsAt(InsertN(r, i, t), i)
            /\ \A i \in 0..n, j \in 0..n : i <= j => StandsAt(EraseRange(r, i, j), i)
            /\ \A i \in 0..n - 1 : StandsAt(EraseAt(r, i), IF 2 * i < n THEN i - 1 ELSE i)
            /\ \A x \in 0..Width - 1 :
                  OutOfRange(r, x, r.end) <=> x \notin {Wrap(r.beg + i) : i \in 0..n}

(* The three together: the ring is a double-ended queue whose objects are  *)
(* constructed and destroyed in pairs.                                     *)
RueueIsADeque == CellsConstructed /\ OperationsMatchDeque /\ IteratorsMatchDeque
============================================================================
