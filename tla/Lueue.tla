------------------------------- MODULE Lueue -------------------------------
(***************************************************************************)
(* lueue (src/src/lueue.h): a FIFO queue as a linked chain of blocks.      *)
(* Items enter the last block and leave the first; a block whose items     *)
(* are all gone is kept on a free list of at most one (FREE_BLOCK_NUM) or  *)
(* released.  _nblock only serves size() and reserve().                    *)
(*                                                                         *)
(* may_allocate() asks whether the last block HOLDS BlockItems items, not  *)
(* whether its end has reached the array's end: a single block that was    *)
(* popped from can be full at its end and still be taken for free.  The    *)
(* next push then constructs past items[], which is undefined: the queue   *)
(* is marked overrun and the model does nothing more with it.              *)
(***************************************************************************)
EXTENDS Integers, Sequences, SequencesExt, FiniteSetsExt

CONSTANTS
    LQueues,      \* the names of the queue objects
    LItems,       \* the items
    BlockItems,   \* BLOCK_ITEM_SIZE
    SizeWidth,    \* _nblock is a number modulo SizeWidth (2^64 in the code)
    MaxHeld,      \* bound: the items all the queues hold together
    MaxReserve,   \* bound: the largest argument of reserve()
    MaxMoves      \* bound: the moves one queue takes part in

ASSUME LueueAssumption ==
    /\ BlockItems \in Nat \ {0} /\ {MaxHeld, MaxReserve, MaxMoves} \subseteq Nat
    /\ SizeWidth \in Nat /\ SizeWidth > MaxHeld + BlockItems
    /\ IsFiniteSet(LQueues)

FreeBlockNum == 1

VARIABLES lq,      \* queue name -> the chain, _nblock, _nfblock, overrun
          moved,   \* history: queue name -> the moves it took part in
          kept     \* history: queue name -> the items it owes, in order
lvars == <<lq, moved, kept>>

\* A block keeps its live items only; beg and end are the code's.
NewBlock   == [items |-> <<>>, beg |-> 0, end |-> 0]
EmptyQueue == [chain |-> <<>>, nblock |-> 0, nfree |-> 0, overrun |-> FALSE]

LContents(r) == FlattenSeq([k \in DOMAIN r.chain |-> r.chain[k].items])
LEmpty(r)    == r.chain = <<>>
Modulo(n)    == n % SizeWidth

\* size(): the first and the last block are counted, the others are full.
LSize(r) ==
    LET head == Head(r.chain)
        tail == Last(r.chain)
    IN  IF r.chain = <<>> THEN 0
        ELSE IF Len(r.chain) = 1 THEN head.end - head.beg
        ELSE Modulo(head.end - head.beg + tail.end - tail.beg
                       + (r.nblock - 2) * BlockItems)

(* Mutant: a block from the free list keeps its beg and end.               *)
NewBackBlockStale(r) ==
    [r EXCEPT !.chain = Append(@, IF r.nfree > 0
                                  THEN [NewBlock EXCEPT !.beg = BlockItems, !.end = BlockItems]
                                  ELSE NewBlock),
              !.nfree = IF @ > 0 THEN @ - 1 ELSE @,
              !.nblock = Modulo(@ + 1)]
NewBackBlock(r) ==
    [r EXCEPT !.chain = Append(@, NewBlock),
              !.nfree = IF @ > 0 THEN @ - 1 ELSE @,
              !.nblock = Modulo(@ + 1)]
DeleteFrontBlock(r) ==
    [r EXCEPT !.chain = Tail(@),
              !.nfree = IF @ < FreeBlockNum THEN @ + 1 ELSE @,
              !.nblock = Modulo(@ - 1)]
MayAllocate(r) ==
    IF LEmpty(r) \/ Last(r.chain).end - Last(r.chain).beg >= BlockItems
    THEN NewBackBlock(r) ELSE r

LPushBack(r, v) ==
    LET a == MayAllocate(r)
        n == Len(a.chain)
        last == a.chain[n]
    IN  IF last.end >= BlockItems
        THEN [a EXCEPT !.overrun = TRUE]
        ELSE [a EXCEPT !.chain[n] = [last EXCEPT !.items = Append(@, v), !.end = @ + 1]]

LPopFront(r) ==
    LET first == r.chain[1]
        a == [r EXCEPT !.chain[1] = [first EXCEPT !.items = Tail(@), !.beg = @ + 1]]
    IN  IF a.chain[1].beg = a.chain[1].end THEN DeleteFrontBlock(a) ELSE a

\* clear(): pops until the chain is gone; one block may stay on the list.
LClear(r) ==
    [r EXCEPT !.chain = <<>>, !.nblock = Modulo(@ - Len(r.chain)),
              !.nfree = IF r.chain = <<>> THEN @ ELSE Max({@, FreeBlockNum})]

BlocksFor(n) == (n + BlockItems - 1) \div BlockItems
LReserve(r, n) ==
    LET need == Modulo(BlocksFor(n) - r.nblock)
    IN  IF n <= Modulo((r.nblock + r.nfree) * BlockItems) \/ need <= r.nfree THEN r
        ELSE [r EXCEPT !.nfree = need]

\* The move constructor takes the chain, but zeroes its own counters and
\* free list where it means to zero the other's.
MovedTo(other)   == [other EXCEPT !.nblock = 0, !.nfree = 0]
MovedFrom(other) == [other EXCEPT !.chain = <<>>]

----------------------------------------------------------------------------
Usable(q) == ~lq[q].overrun
HeldItems == Cardinality({p \in LQueues \X (1..MaxHeld) : p[2] <= Len(kept[p[1]])})

LSet(q, r, s) == /\ lq' = [lq EXCEPT ![q] = r]
                 /\ kept' = [kept EXCEPT ![q] = s]
                 /\ UNCHANGED moved

DoPush(q) ==
    /\ Usable(q) /\ HeldItems < MaxHeld
    /\ \E v \in LItems :
          LET r == LPushBack(lq[q], v)
          IN  LSet(q, r, IF r.overrun THEN kept[q] ELSE Append(kept[q], v))
DoPop(q) ==
    Usable(q) /\ ~LEmpty(lq[q]) /\ LSet(q, LPopFront(lq[q]), Tail(kept[q]))
DoClear(q)   == Usable(q) /\ LSet(q, LClear(lq[q]), <<>>)
DoReserve(q) ==
    /\ Usable(q)
    /\ \E n \in 0..MaxReserve : LSet(q, LReserve(lq[q], n), kept[q])
\* operator=(lueue&&): the destructor clears, the move constructor follows.
DoMove(q, p) ==
    /\ q # p /\ Usable(q) /\ Usable(p)
    /\ moved[q] < MaxMoves /\ moved[p] < MaxMoves
    /\ lq' = [lq EXCEPT ![q] = MovedTo(lq[p]), ![p] = MovedFrom(lq[p])]
    /\ kept' = [kept EXCEPT ![q] = kept[p], ![p] = <<>>]
    /\ moved' = [moved EXCEPT ![q] = @ + 1, ![p] = @ + 1]

LueueInit == /\ lq = [q \in LQueues |-> EmptyQueue]
             /\ kept = [q \in LQueues |-> <<>>]
             /\ moved = [q \in LQueues |-> 0]
LueueNext ==
    \E q \in LQueues :
        \/ DoPush(q) \/ DoPop(q) \/ DoClear(q) \/ DoReserve(q)
        \/ \E p \in LQueues : DoMove(q, p)
LueueSpec == LueueInit /\ [][LueueNext]_lvars

----------------------------------------------------------------------------
(* The chain holds the items in the order they were pushed, block after    *)
(* block, through recycled blocks, clear() and moves, and size() counts    *)
(* them -- unless the queue took part in a move: the wrong counters are    *)
(* zeroed there (lueue.h:62-64), so size() of a chain of two or more       *)
(* blocks is off until the counters meet again.                            *)
QueueKeepsItems ==
    \A q \in LQueues :
        /\ LContents(lq[q]) = kept[q]
        /\ moved[q] = 0 => /\ lq[q].nblock = Len(lq[q].chain)
                             /\ LSize(lq[q]) = Len(kept[q])

(* Only the single block of a queue that was popped from can be pushed     *)
(* past its end: a chain of several blocks always has room in the last one *)
(* or gets a new one, and never an empty block in the middle, which size() *)
(* and front() rely on.                                                    *)
OverrunNeedsAPoppedBlock ==
    \A q \in LQueues :
        LET c == lq[q].chain
        IN  /\ lq[q].overrun => Len(c) = 1 /\ c[1].beg > 0
            /\ \A k \in DOMAIN c :
                  /\ c[k].beg < c[k].end /\ c[k].end <= BlockItems
                  /\ k > 1 => c[k].beg = 0
                  /\ k < Len(c) => c[k].end = BlockItems

(* Both: the queue is a FIFO queue as long as it was not overrun.          *)
LueueIsAFifo == QueueKeepsItems /\ OverrunNeedsAPoppedBlock
============================================================================
