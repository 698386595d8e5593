------------------------------- MODULE Buffer -------------------------------
(***************************************************************************)
(* buffer (src/src/buffer.h): a view [at + off, at + off + size) of a      *)
(* block of memory and the cleaner that keeps the block, with the cleaners *)
(* a program handles next to it.  A block is named by the action that      *)
(* frees it.  Slices share the cleaner; moves, trims and detach_cleaner()  *)
(* change one side only.  Offsets and sizes are passed as the interface    *)
(* means them: share(pos,size) and trim() do not check them.               *)
(***************************************************************************)
EXTENDS Cleaner

CONSTANTS
    Cleaners,     \* cleaner variables of the program
    Buffers,      \* buffer variables of the program
    BlockLen      \* bytes of a block

ASSUME BufferAssumption ==
    /\ BlockLen \in Nat \ {0}
    /\ IsFiniteSet(Acts) /\ IsFiniteSet(Cleaners) /\ IsFiniteSet(Buffers)

VARIABLES heap,       \* the impls and the actions run
          cl,         \* cleaner variable -> handle
          buf,        \* buffer variable -> [at, off, size, cl]
          detached    \* history: the blocks whose cleaner was detached
bvars == <<heap, cl, buf, detached>>

NoBlock    == "none"
NullBuffer == [at |-> NoBlock, off |-> 0, size |-> 0, cl |-> Empty]
\* The view of the same block with another extent.
Cut(v, off, size) == [at |-> v.at, off |-> off, size |-> size, cl |-> v.cl]

HandlesHeld == {cl[c] : c \in Cleaners} \cup {buf[b].cl : b \in Buffers}
Unregistered(a) == IsFresh(heap, HandlesHeld, a)

\* operator=(cleaner&&) / operator=(buffer&&): the old value is destroyed,
\* then the new one moves in.  h is the heap with the new value in it.
PutCleaner(c, x, h, clNow) ==
    /\ cl' = [clNow EXCEPT ![c] = x]
    /\ heap' = Release(h, clNow[c])
PutBuffer(b, x, h, bufNow) ==
    /\ buf' = [bufNow EXCEPT ![b] = x]
    /\ heap' = Release(h, bufNow[b].cl)

----------------------------------------------------------------------------
(* The cleaner's own operations.                                           *)
MakeRawCleaner(c, a) ==
    /\ Unregistered(a) /\ PutCleaner(c, RawPtr(a), heap, cl)
    /\ UNCHANGED <<buf, detached>>
\* The chained cleaner moves from the variable d into the new impl.
MakeCleaner(c, d, a) ==
    /\ Unregistered(a)
    /\ PutCleaner(c, Counted(a), MakeCounted(heap, cl[d], a), [cl EXCEPT ![d] = Empty])
    /\ UNCHANGED <<buf, detached>>
ShareCleaner(c, d) ==
    /\ PutCleaner(c, Promoted(cl[d]), Share(heap, cl[d]), [cl EXCEPT ![d] = Promoted(@)])
    /\ UNCHANGED <<buf, detached>>
MoveCleaner(c, d) ==
    /\ c # d
    /\ heap' = Release(heap, cl[c])
    /\ cl' = [cl EXCEPT ![c] = cl[d], ![d] = Empty]
    /\ UNCHANGED <<buf, detached>>
DropCleaner(c) ==
    PutCleaner(c, Empty, heap, cl) /\ UNCHANGED <<buf, detached>>

(* The buffer's operations.                                                *)
NewBuffer(b, a) ==
    /\ Unregistered(a)
    /\ PutBuffer(b, [at |-> a, off |-> 0, size |-> BlockLen, cl |-> RawPtr(a)], heap, buf)
    /\ UNCHANGED <<cl, detached>>
\* buffer(data, size, cleaner): the block of the cleaner's first action.
WrapBuffer(b, c) ==
    /\ cl[c] # Empty
    /\ PutBuffer(b, [at |-> cl[c].act, off |-> 0, size |-> BlockLen, cl |-> cl[c]], heap, buf)
    /\ cl' = [cl EXCEPT ![c] = Empty]
    /\ UNCHANGED detached
\* The move constructor.
MoveBuffer(b, d) ==
    /\ b # d
    /\ heap' = Release(heap, buf[b].cl)
    /\ buf' = [buf EXCEPT ![b] = buf[d], ![d] = NullBuffer]
    /\ UNCHANGED <<cl, detached>>
DropBuffer(b) ==
    PutBuffer(b, NullBuffer, heap, buf) /\ UNCHANGED <<cl, detached>>

\* A new view of d's block that shares its cleaner.
View(b, d, off, size) ==
    /\ PutBuffer(b, [Cut(buf[d], off, size) EXCEPT !.cl = Promoted(@)],
                 Share(heap, buf[d].cl), [buf EXCEPT ![d].cl = Promoted(@)])
    /\ UNCHANGED <<cl, detached>>
ShareBuffer(b, d) == View(b, d, buf[d].off, buf[d].size)
ShareSlice(b, d) ==
    \E pos \in 0..buf[d].size : \E size \in 0..buf[d].size - pos :
        View(b, d, buf[d].off + pos, size)
\* front(s)& checks s and then returns the WHOLE view (buffer.h:87).
FrontOfLvalue(b, d) ==
    \E s \in 0..buf[d].size : View(b, d, buf[d].off, buf[d].size)
\* front(s)&&: the temporary itself, cut to s.
FrontOfRvalue(b, d) ==
    /\ b # d
    /\ \E s \in 0..buf[d].size :
          buf' = [buf EXCEPT ![b] = Cut(buf[d], buf[d].off, s), ![d] = NullBuffer]
    /\ heap' = Release(heap, buf[b].cl)
    /\ UNCHANGED <<cl, detached>>

TrimFront(b) ==
    /\ \E n \in 1..buf[b].size :
          buf' = [buf EXCEPT ![b] = Cut(buf[b], buf[b].off + n, buf[b].size - n)]
    /\ UNCHANGED <<heap, cl, detached>>
Trim(b) ==
    /\ \E n \in 1..buf[b].size : buf' = [buf EXCEPT ![b] = Cut(buf[b], buf[b].off, buf[b].size - n)]
    /\ UNCHANGED <<heap, cl, detached>>

\* detach_cleaner(): the view stays, the block is now the caller's care.
DetachCleaner(b, c) ==
    /\ PutCleaner(c, buf[b].cl, heap, cl)
    /\ buf' = [buf EXCEPT ![b].cl = Empty]
    /\ detached' = detached \cup {buf[b].at}

----------------------------------------------------------------------------
BufferInit ==
    /\ heap = EmptyHeap
    /\ cl = [c \in Cleaners |-> Empty]
    /\ buf = [b \in Buffers |-> NullBuffer]
    /\ detached = {}
BufferNext ==
    \/ \E c \in Cleaners :
          \/ DropCleaner(c)
          \/ \E a \in Acts : MakeRawCleaner(c, a)
          \/ \E d \in Cleaners : \/ ShareCleaner(c, d) \/ MoveCleaner(c, d)
                                 \/ \E a \in Acts : MakeCleaner(c, d, a)
    \/ \E b \in Buffers :
          \/ DropBuffer(b) \/ TrimFront(b) \/ Trim(b)
          \/ \E a \in Acts : NewBuffer(b, a)
          \/ \E c \in Cleaners : WrapBuffer(b, c) \/ DetachCleaner(b, c)
          \/ \E d \in Buffers : \/ ShareBuffer(b, d) \/ ShareSlice(b, d)
                                \/ FrontOfLvalue(b, d) \/ FrontOfRvalue(b, d)
                                \/ MoveBuffer(b, d)
BufferSpec == BufferInit /\ [][BufferNext]_bvars

----------------------------------------------------------------------------
\* The live owners of action a: variables, buffers and undeleted impls.
Owners(a) ==
    LET Owns(h) == h \in {RawPtr(a), Counted(a)}
    IN  Cardinality({c \in Cleaners : Owns(cl[c])})
      + Cardinality({b \in Buffers : Owns(buf[b].cl)})
      + Cardinality({x \in Acts : heap.impl[x].refs > 0 /\ Owns(heap.impl[x].next)})

(* An action runs once, at the moment its last owner goes and never while  *)
(* an owner is left; the count of an impl is the number of its owners, a   *)
(* raw pointer has exactly one; and an impl's action runs before the       *)
(* actions chained behind it.  Sharing, promoting, moving and chaining in  *)
(* any order.                                                              *)
ActionRunsWithTheLastOwner ==
    /\ IsInjective(heap.ran)
    /\ \A a \in ToSet(heap.ran) : Owners(a) = 0
    /\ \A a \in Acts :
          /\ heap.impl[a].refs > 0 => Owners(a) = heap.impl[a].refs
          /\ Owners(a) = 0 /\ a \notin ToSet(heap.ran) => Unregistered(a)
          /\ \A i, j \in DOMAIN heap.ran :
                heap.impl[heap.ran[i]].next \in {RawPtr(heap.ran[j]), Counted(heap.ran[j])}
                    => i < j

(* A view never leaves its block, and the block is not freed while a view  *)
(* that was not cut off from its cleaner by detach_cleaner() looks at it.  *)
ViewsOfLiveMemory ==
    \A b \in Buffers :
        buf[b].size > 0 =>
            /\ buf[b].off + buf[b].size <= BlockLen
            /\ buf[b].at \in detached \/ buf[b].at \notin ToSet(heap.ran)

(* Both: memory lives exactly as long as somebody owns it.                 *)
OwnersKeepMemory == ActionRunsWithTheLastOwner /\ ViewsOfLiveMemory
============================================================================
