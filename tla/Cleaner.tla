------------------------------ MODULE Cleaner ------------------------------
(***************************************************************************)
(* cleaner (src/src/cleaner.h): ownership of an action to run at the end.  *)
(* A cleaner is empty, or a tagged raw pointer (one owner, the action is   *)
(* free()), or a pointer to a counted impl that holds an action and the    *)
(* next cleaner of a chain.  Actions name what is to be done: the free()   *)
(* of one block, one lambda, the destruction of one object; at most one    *)
(* impl exists per action, so an impl is named by its action.              *)
(*                                                                         *)
(* The operators work on a heap [impl, ran]: impl[a] is [refs, next] and   *)
(* keeps its next after the impl is deleted; ran is the sequence of the    *)
(* actions run.                                                            *)
(***************************************************************************)
EXTENDS Integers, Sequences, SequencesExt, FiniteSets

CONSTANT Acts         \* the actions

Empty      == [tag |-> "empty"]
RawPtr(a)     == [tag |-> "raw", act |-> a]
Counted(a) == [tag |-> "counted", act |-> a]
Handles    == {Empty} \cup {RawPtr(a) : a \in Acts} \cup {Counted(a) : a \in Acts}

EmptyHeap == [impl |-> [a \in Acts |-> [refs |-> 0, next |-> Empty]], ran |-> <<>>]

\* What ~cleaner() sets off: an impl whose last reference goes runs its
\* action, then its member next is destroyed in turn (gone, in this order);
\* an impl that keeps other owners is where this stops (left).
Unwind(impl, h) ==
    LET f[x \in Handles] ==
          IF x = Empty THEN [gone |-> <<>>, left |-> {}]
          ELSE IF x.tag = "raw" THEN [gone |-> <<x.act>>, left |-> {}]
          ELSE IF impl[x.act].refs > 1 THEN [gone |-> <<>>, left |-> {x.act}]
          ELSE LET rest == f[impl[x.act].next]
               IN  [gone |-> <<x.act>> \o rest.gone, left |-> rest.left]
    IN  f[h]

\* ~cleaner()
Release(heap, h) ==
    LET u == Unwind(heap.impl, h)
        RefsOf(a) == IF a \in ToSet(u.gone) THEN 0
                     ELSE heap.impl[a].refs - (IF a \in u.left THEN 1 ELSE 0)
    IN  [ran  |-> heap.ran \o u.gone,
         impl |-> [a \in Acts |-> [heap.impl[a] EXCEPT !.refs = RefsOf(a)]]]

\* share(): promotes a raw pointer to a free_cleaner_impl, then counts one
\* more owner.  The promoted handle replaces the cleaner's own.
Promoted(h) == IF h.tag = "raw" THEN Counted(h.act) ELSE h
(* Mutant: the promoted pointer is not counted as an owner itself.         *)
ShareUncounted(heap, h) ==
    IF h = Empty THEN heap
    ELSE IF h.tag = "raw" THEN [heap EXCEPT !.impl[h.act] = [refs |-> 1, next |-> Empty]]
    ELSE [heap EXCEPT !.impl[h.act].refs = @ + 1]
Share(heap, h) ==
    IF h = Empty THEN heap
    ELSE IF h.tag = "raw" THEN [heap EXCEPT !.impl[h.act] = [refs |-> 2, next |-> Empty]]
    ELSE [heap EXCEPT !.impl[h.act].refs = @ + 1]

\* make_lambda_cleaner / make_object_cleaner / make_free_cleaner(next, ...).
MakeCounted(heap, next, a) ==
    [heap EXCEPT !.impl[a] = [refs |-> 1, next |-> next]]

\* An action nobody has registered yet.
IsFresh(heap, held, a) ==
    /\ a \notin ToSet(heap.ran) /\ heap.impl[a].refs = 0 /\ RawPtr(a) \notin held
    /\ \A x \in Acts : heap.impl[x].next # RawPtr(a)
============================================================================
