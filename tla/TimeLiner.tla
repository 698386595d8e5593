----------------------------- MODULE TimeLiner -----------------------------
(***************************************************************************)
(* time_liner (src/src/time_liner.h) and the timers it orders              *)
(* (src/src/timer.h, reactor_timer.cpp).  A timer sits in the list         *)
(* numbered by the highest bit in which its timestamp differs from _last,  *)
(* the time of the last expire(); list Digits holds those already due.     *)
(* The order inside a list is not used and lists are sets.                 *)
(*                                                                         *)
(* The reactor's add_timer() and del_timer(), which the timer calls, are   *)
(* not in the repository: they are taken to be insert() and remove().      *)
(* Somebody is assumed to call expire() with the current time and to mark  *)
(* an expired timer as neither armed nor queued before it calls it back.   *)
(***************************************************************************)
EXTENDS Integers, FiniteSets, FiniteSetsExt

CONSTANTS
    Timers,
    Digits,       \* value bits of a timestamp (63 in the code)
    Horizon       \* bound: the largest time and timeout

\* The powers of 2.
Pow2[b \in 0..Digits] == IF b = 0 THEN 1 ELSE 2 * Pow2[b - 1]

ASSUME TimeLinerAssumption ==
    Digits \in Nat \ {0} /\ Horizon \in Nat /\ Horizon < Pow2[Digits] - 1

VARIABLES
    lists,     \* _lists: 0..Digits -> set of timers
    bits,      \* _bits: the indices whose bit is set
    last,      \* _last
    next,      \* _next: the time the owner of the liner will call expire()
    now,       \* the clock
    tm,        \* timer -> [armed, queued, expiry]
    loose,     \* history: timers that left the lists by expire() or clear()
    guessed,   \* history: _next comes from get_last_non_empty_index()
    stuck      \* "no", "loop" (expire() does not return), "erase" (a timer
               \* is erased from a list it is not in: undefined)
linevars == <<lists, bits, last, next, now, tm, loose, guessed, stuck>>

MaxTs   == Pow2[Digits] - 1
Indices == 0..Digits
Bit(x, b) == (x \div Pow2[b]) % 2

\* clz(ts ^ _last) over Digits + 1 bits.
GetIndex(base, ts) ==
    IF ts <= base THEN Digits
    ELSE Digits - Max({b \in 0..Digits - 1 : Bit(ts, b) # Bit(base, b)})

\* The code subtracts from the digits of the timestamp, not of the bitset.
GetLastNonEmptyIndex(set) == Max(set) - 1

Expiries(S) == {tm[t].expiry : t \in S}
Queued      == UNION {lists[i] : i \in Indices}

Disarmed == [armed |-> FALSE, queued |-> FALSE, expiry |-> 0]
Armed(ts) == [armed |-> TRUE, queued |-> TRUE, expiry |-> ts]

----------------------------------------------------------------------------
Running == stuck = "no"

\* engine().add_timer(): insert()
InsertTimer(t, ts) ==
    LET i == GetIndex(last, ts)
    IN  /\ lists' = [lists EXCEPT ![i] = @ \cup {t}]
        /\ bits' = bits \cup {i}
        /\ next' = Min({next, ts})

(* Mutant: the bit of a list outlives its last timer.                      *)
RemoveKeepingBit(t) ==
    LET i == GetIndex(last, tm[t].expiry)
    IN  /\ lists' = [lists EXCEPT ![i] = @ \ {t}]
        /\ bits' = bits /\ next' = next
        /\ stuck' = IF t \in Queued THEN "no" ELSE "erase"
\* engine().del_timer(): remove() by the timer's present index
RemoveTimer(t) ==
    LET i == GetIndex(last, tm[t].expiry)
    IN  /\ lists' = [lists EXCEPT ![i] = @ \ {t}]
        /\ bits' = IF lists[i] \ {t} = {} THEN bits \ {i} ELSE bits
        /\ next' = next
        /\ stuck' = IF t \in Queued THEN "no" ELSE "erase"

\* arm() asserts that the timer is not armed.
Arm(t) ==
    /\ Running /\ ~tm[t].armed
    /\ \E ts \in 0..Horizon :
          InsertTimer(t, ts) /\ tm' = [tm EXCEPT ![t] = Armed(ts)]
    /\ UNCHANGED <<last, now, loose, guessed, stuck>>
\* cancel(), and ~timer() of a queued timer (the variable is reused).
Cancel(t) ==
    /\ Running /\ tm[t].armed /\ tm[t].queued
    /\ RemoveTimer(t) /\ tm' = [tm EXCEPT ![t] = Disarmed]
    /\ UNCHANGED <<last, now, loose, guessed>>
\* rearm() of an armed timer: cancel(), then arm().
Rearm(t) ==
    /\ Running /\ tm[t].armed /\ t \in Queued
    /\ LET i == GetIndex(last, tm[t].expiry)
           without == [lists EXCEPT ![i] = @ \ {t}]
           set == IF without[i] = {} THEN bits \ {i} ELSE bits
       IN  \E ts \in 0..Horizon :
              LET j == GetIndex(last, ts)
              IN  /\ lists' = [without EXCEPT ![j] = @ \cup {t}]
                  /\ bits' = set \cup {j}
                  /\ next' = Min({next, ts})
                  /\ tm' = [tm EXCEPT ![t] = Armed(ts)]
    /\ UNCHANGED <<last, now, loose, guessed, stuck>>
\* timer(timer&&): the new timer takes the old one's place in its list.
MoveTimer(t, u) ==
    /\ Running /\ t # u /\ ~tm[u].armed /\ t \in Queued
    /\ tm' = [tm EXCEPT ![u] = tm[t],
                        ![t] = [armed |-> FALSE, queued |-> FALSE, expiry |-> tm[t].expiry]]
    /\ lists' = [i \in Indices |-> IF t \in lists[i] THEN (lists[i] \ {t}) \cup {u}
                                                     ELSE lists[i]]
    /\ UNCHANGED <<bits, last, next, now, loose, guessed, stuck>>

Tick == Running /\ now < Horizon /\ now' = now + 1
        /\ UNCHANGED <<lists, bits, last, next, tm, loose, guessed, stuck>>

(* expire(time): everything to the right of time's own list is due; the    *)
(* own list is split and what is not due is inserted again under the new   *)
(* _last.                                                                  *)
OwnIndex(time)  == GetIndex(last, time)
Right(time)     == {i \in bits : i > OwnIndex(time)}
(* Mutant: a timer due right now is left in the list.                      *)
OwnOverdue(time) == {t \in lists[OwnIndex(time)] : tm[t].expiry < time}
OwnDue(time)    == {t \in lists[OwnIndex(time)] : tm[t].expiry <= time}
Rest(time)      == lists[OwnIndex(time)] \ OwnDue(time)
ExpiredAt(time) == (UNION {lists[i] : i \in Right(time)}) \cup OwnDue(time)

\* Inserting again into the own list: while (!l.empty()) never ends.
LoopsAt(time) == \E t \in Rest(time) : GetIndex(time, tm[t].expiry) = OwnIndex(time)

ListsAfter(time) ==
    [i \in Indices |->
        (IF i \in Right(time) \cup {OwnIndex(time)} THEN {} ELSE lists[i])
            \cup {t \in Rest(time) : GetIndex(time, tm[t].expiry) = i}]
BitsAfter(time) ==
    (bits \ (Right(time) \cup {OwnIndex(time)}))
        \cup {GetIndex(time, tm[t].expiry) : t \in Rest(time)}
NextAfter(time) ==
    LET other == GetLastNonEmptyIndex(BitsAfter(time))
    IN  IF Rest(time) # {} THEN Min(Expiries(Rest(time)))
        ELSE IF BitsAfter(time) = {} THEN MaxTs
        ELSE Min({MaxTs} \cup Expiries(ListsAfter(time)[other]))

Expire ==
    /\ Running
    /\ IF LoopsAt(now)
       THEN /\ stuck' = "loop"
            /\ UNCHANGED <<lists, bits, last, next, loose, guessed>>
       ELSE /\ lists' = ListsAfter(now) /\ bits' = BitsAfter(now)
            /\ next' = NextAfter(now) /\ last' = now
            /\ loose' = loose \cup ExpiredAt(now)
            /\ guessed' = (Rest(now) = {} /\ BitsAfter(now) # {})
            /\ stuck' = stuck
    /\ UNCHANGED <<now, tm>>

\* Outside the repository: an expired timer is called back, and may be armed
\* again (a periodic one is).
Complete(t) ==
    /\ Running /\ t \in loose
    /\ tm' = [tm EXCEPT ![t] = Disarmed] /\ loose' = loose \ {t}
    /\ UNCHANGED <<lists, bits, last, next, now, guessed, stuck>>

\* clear() empties the lists whose bit is set; the timers are not told.
ClearLists ==
    /\ Running
    /\ lists' = [i \in Indices |-> IF i \in bits THEN {} ELSE lists[i]]
    /\ bits' = {} /\ loose' = loose \cup Queued
    /\ UNCHANGED <<last, next, now, tm, guessed, stuck>>

TimeLinerInit ==
    /\ lists = [i \in Indices |-> {}] /\ bits = {}
    /\ last = 0 /\ next = MaxTs /\ now = 0
    /\ tm = [t \in Timers |-> Disarmed]
    /\ loose = {} /\ guessed = FALSE /\ stuck = "no"
TimeLinerNext ==
    \/ Tick \/ Expire \/ ClearLists
    \/ \E t \in Timers : \/ Arm(t) \/ Cancel(t) \/ Rearm(t) \/ Complete(t)
                         \/ \E u \in Timers : MoveTimer(t, u)
TimeLinerSpec == TimeLinerInit /\ [][TimeLinerNext]_linevars

----------------------------------------------------------------------------
(* Every queued timer is in the one list that its timestamp and the        *)
(* present _last give, although _last has moved since it was inserted, and *)
(* the bits are the non-empty lists: remove() finds what it removes.  It   *)
(* fails only for a timer that expire() or clear() took out before, which  *)
(* no code of the repository marks as no longer queued.                    *)
TimersInTheirLists ==
    /\ Running =>
        /\ \A i \in Indices : \A t \in lists[i] :
              tm[t].queued /\ i = GetIndex(last, tm[t].expiry)
        /\ bits = {i \in Indices : lists[i] # {}}
        /\ \A t \in Timers : tm[t].queued <=> (t \in Queued \/ t \in loose)
    /\ stuck = "erase" => loose # {}

(* expire() takes exactly the timers that are due, whenever it is called;  *)
(* it returns -- unless it is called again at the time of the last call    *)
(* while a timer is due at the very next tick, in the list of the due.     *)
ExpireTakesTheDue ==
    Running =>
        \A time \in last..Horizon :
            /\ ~LoopsAt(time) => ExpiredAt(time) = {t \in Queued : tm[t].expiry <= time}
            /\ LoopsAt(time) => time = last /\ (time + 1) \in Expiries(Queued)

(* and it asks to be called again no later than its first timer is due --  *)
(* unless it had to look for the next list itself: it looks one list too   *)
(* far left (time_liner.h:60).                                             *)
NextIsNotLate ==
    Running /\ ~guessed => \A t \in Queued : next <= tm[t].expiry

(* Together: no timer is early, late or forgotten.                         *)
TimersExpireOnTime == TimersInTheirLists /\ ExpireTakesTheDue /\ NextIsNotLate
============================================================================
