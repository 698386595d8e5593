-------------------------------- MODULE Fueue --------------------------------
(***************************************************************************)
(* fueue.h: a bounded queue with a producer and a consumer, as pipe.h uses *)
(* it (consume() and set_max_size() are not used there).  The reactor never*)
(* preempts: a call is one action.  When the queue has to wait, the rest   *)
(* of the call is a continuation that runs later, when other calls may     *)
(* have come between: the consumer or the producer is "woken" meanwhile.   *)
(***************************************************************************)
EXTENDS Naturals, Sequences

CONSTANTS
  Values,      \* what the queue carries
  Max,         \* _max
  None,        \* no value
  Exception,   \* the outcome of a failed pop
  Visible      \* an exception given to a promise<> shows in its future

VARIABLES
  q,           \* _q
  ex,          \* _ex is set
  not_empty,   \* _not_empty is engaged
  not_full,    \* _not_full is engaged
  consumer,    \* the consumer's outstanding pop_eventually()
  producer,    \* the producer's outstanding push_eventually()
  pending,     \* the data captured by the latter
  got,         \* what the last pop returned
  wrote        \* what the last push returned

fueueVars ==
  <<q, ex, not_empty, not_full, consumer, producer, pending, got, wrote>>

(* "aborted": the promise got an exception, the continuation that passes   *)
(* it on is queued; "asserted": that continuation ended the program.       *)
CallStates == {"idle", "waiting", "woken", "aborted", "asserted"}

FueueInit ==
  /\ q = <<>> /\ ex = FALSE
  /\ not_empty = FALSE /\ not_full = FALSE
  /\ consumer = "idle" /\ producer = "idle"
  /\ pending = None /\ got = None /\ wrote = "none"

(* Mutant: full only when the bound is passed.                             *)
FullTooLate == Len(q) > Max

Full == Len(q) >= Max
Empty == q = <<>>

notify_not_empty ==
  /\ not_empty' = FALSE
  /\ consumer' = IF not_empty THEN "woken" ELSE consumer

notify_not_full ==
  /\ not_full' = FALSE
  /\ producer' = IF not_full THEN "woken" ELSE producer

push(x) ==
  IF Len(q) < Max THEN q' = Append(q, x) /\ notify_not_empty
                  ELSE UNCHANGED <<q, not_empty, consumer>>

(* Mutant: the size is looked at after the pop.                            *)
pop_then_test ==
  /\ IF Len(q) - 1 = Max THEN notify_not_full
     ELSE UNCHANGED <<not_full, producer>>
  /\ q' = Tail(q)
  /\ got' = Head(q)

pop ==
  /\ IF Len(q) = Max THEN notify_not_full
     ELSE UNCHANGED <<not_full, producer>>
  /\ q' = Tail(q)
  /\ got' = Head(q)

(* pop_eventually() with not_empty().                                      *)
pop_eventually ==
  /\ \/ /\ ~Empty
        /\ pop
        /\ UNCHANGED <<not_empty, consumer>>
     \/ /\ Empty
        /\ not_empty' = TRUE
        /\ consumer' = "waiting"
        /\ got' = None
        /\ UNCHANGED <<q, not_full, producer>>
  /\ UNCHANGED <<ex, pending, wrote>>

(* The continuation of pop_eventually().                                   *)
PopContinues ==
  /\ consumer = "woken"
  /\ consumer' = "idle"
  /\ IF ex THEN /\ got' = Exception
                /\ UNCHANGED <<q, not_full, producer>>
           ELSE pop
  /\ UNCHANGED <<ex, not_empty, pending, wrote>>

(* push_eventually() with not_full().                                      *)
push_eventually(x) ==
  /\ \/ /\ Full
        /\ not_full' = TRUE
        /\ producer' = "waiting"
        /\ pending' = x
        /\ wrote' = "none"
        /\ UNCHANGED <<q, not_empty, consumer>>
     \/ /\ ~Full
        /\ q' = Append(q, x)
        /\ notify_not_empty
        /\ wrote' = "ok"
        /\ UNCHANGED <<not_full, producer, pending>>
  /\ UNCHANGED <<ex, got>>

(* The continuation of push_eventually(): it does not look at the size.    *)
PushContinues ==
  /\ producer = "woken"
  /\ producer' = "idle"
  /\ q' = Append(q, pending)
  /\ notify_not_empty
  /\ pending' = None /\ wrote' = "ok"
  /\ UNCHANGED <<ex, not_full, got>>

(* The continuation that passes the exception of abort() on to the future  *)
(* of push_eventually().  future_state<>::set_exception() leaves the state *)
(* "future" (future.h:227): failed() is false, and get_value() asserts     *)
(* that there is a result.  Visible states what future.h:313 documents.    *)
PushFails ==
  /\ producer = "aborted"
  /\ IF Visible
     THEN producer' = "idle" /\ pending' = None /\ wrote' = "broken"
     ELSE producer' = "asserted" /\ UNCHANGED <<pending, wrote>>
  /\ UNCHANGED <<q, ex, not_empty, not_full, consumer, got>>

abort ==
  /\ q' = <<>> /\ ex' = TRUE
  /\ producer' = IF not_full THEN "aborted" ELSE producer
  /\ consumer' = IF not_empty THEN "aborted" ELSE consumer
  /\ not_full' = FALSE /\ not_empty' = FALSE
  /\ UNCHANGED <<pending, got, wrote>>
==============================================================================
