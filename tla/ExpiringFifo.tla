---------------------------- MODULE ExpiringFifo ----------------------------
(***************************************************************************)
(* expiring_fifo.h: the FIFO of waiters behind basic_semaphore and         *)
(* shared_future.  An entry whose timer fired stays in the list with its   *)
(* payload disengaged (live = FALSE) until it reaches the front; _size     *)
(* counts the engaged entries only.                                        *)
(*                                                                         *)
(* A fifo is a record [list, size]; an entry is a record with at least the *)
(* fields live (the optional is engaged) and timed (push_back was given a  *)
(* timeout below time_point::max(), so the entry owns an armed timer).     *)
(***************************************************************************)
EXTENDS Naturals, Sequences

EmptyFifo == [list |-> <<>>, size |-> 0]

IsEmpty(f) == f.size = 0

FifoFront(f) == f.list[1]

LiveAt(f) == {i \in 1..Len(f.list) : f.list[i].live}

(* Mutant: the loop is forgotten, an expired entry may become the front.   *)
KeepExpiredFront(f) == f

(* Mutant: expired entries leave the front through pop_front(), which      *)
(* counts them out a second time.                                          *)
DropAndUncount(f) ==
  LET dead == {n \in 0..Len(f.list) : \A i \in 1..n : ~f.list[i].live}
      n    == CHOOSE n \in dead : \A m \in dead : m <= n
  IN  [list |-> SubSeq(f.list, n + 1, Len(f.list)), size |-> f.size - n]

(* while (!_list.empty() && !_list.front().payload) _list.pop_front();     *)
DropExpiredFront(f) ==
  LET dead == {n \in 0..Len(f.list) : \A i \in 1..n : ~f.list[i].live}
      n    == CHOOSE n \in dead : \A m \in dead : m <= n
  IN  [f EXCEPT !.list = SubSeq(f.list, n + 1, Len(f.list))]

(* The new entry's payload is engaged: e.live.                             *)
PushBack(f, e) == [list |-> Append(f.list, e), size |-> f.size + 1]

PopFront(f) ==
  DropExpiredFront([list |-> Tail(f.list), size |-> f.size - 1])

(* The indices of the entries whose timer may still fire: popping an entry *)
(* destroys its timer, and the timer is one-shot.                          *)
Expirable(f) == {i \in LiveAt(f) : f.list[i].timed}

(* Mutant: the callback answers the promise and leaves the payload there. *)
ExpireInPlace(f, i) == f

(* The timer callback, after it called _on_expiry on the payload.          *)
Expire(f, i) ==
  DropExpiredFront([list |-> [f.list EXCEPT ![i].live = FALSE],
                    size |-> f.size - 1])
=============================================================================
