------------------------------- MODULE Future -------------------------------
(***************************************************************************)
(* future.h: promise, future, future_state and continuation, and the part  *)
(* of the reactor they use (the queue of tasks).                           *)
(*                                                                         *)
(* A promise and its future point at each other (_future, _promise) and    *)
(* either may be moved; the state they share lives in the promise, in the  *)
(* future once the promise is gone, or in the continuation attached by     *)
(* then() or wait().  Promises live in variables of the program (Promises) *)
(* or inside the lambda of a continuation, so the promise captured by      *)
(* continuation k is the promise at location k.  A promise that was moved  *)
(* from, was answered through its continuation, or was destroyed has       *)
(* nothing left (_state == nullptr): its location is free.                 *)
(*                                                                         *)
(* then(), get() in a thread, and forward_to() of a future whose promise    *)
(* died without an answer dereference a null _promise: the program must    *)
(* not do that, and the actions have it as a guard.  The local state of a  *)
(* promise is normalised to "invalid" while _state points elsewhere.       *)
(*                                                                         *)
(* One reactor runs everything, so a call is one action.  operator= is     *)
(* ~T() and a move construction: two actions in a row.                     *)
(***************************************************************************)
EXTENDS Naturals, Sequences

CONSTANTS
  Promises,    \* the program's variables that hold a promise
  Futures,     \* the program's variables that hold a future
  Conts,       \* the continuations
  Channels,    \* history: names of promise/future pairs
  None,        \* nullptr
  Valueless    \* TRUE for promise<> and future<>, FALSE for a value type

ASSUME FutureAssumption ==
  /\ Valueless \in BOOLEAN
  /\ Promises \intersect Conts = {} /\ Futures \intersect Conts = {}
  /\ None \notin Promises \union Futures \union Conts \union Channels
  /\ {"null", "local"} \intersect Conts = {}

Locs == Promises \union Conts

VARIABLES
  p_future,    \* _future of each promise
  p_state,     \* _state: null, its own local state, or its continuation's
  p_local,     \* _local_state of each promise
  f_promise,   \* _promise of each future
  f_local,     \* _local_state of each future
  f_use,       \* the variable is unused, in use, or a thread waits on it
  c_where,     \* a continuation is unused, attached to a promise, or queued
  c_state,     \* its future_state
  c_thread,    \* the future a thread waits on, None for then()'s lambdas
  queue,       \* _pending_tasks
  produces,    \* history: the channel a promise answers
  consumes,    \* history: the channel a future or a continuation reads
  outcome      \* history: what became of each channel

promiseVars == <<p_future, p_state, p_local, produces>>
futureVars == <<f_promise, f_local, f_use>>
contVars == <<c_where, c_state, c_thread, queue>>
vars == <<promiseVars, futureVars, contVars, consumes, outcome>>

Answers == {"result", "exception"}
States == Answers \union {"future", "invalid"}

Init ==
  /\ p_future = [l \in Locs |-> None]
  /\ p_state = [l \in Locs |-> "null"]
  /\ p_local = [l \in Locs |-> "invalid"]
  /\ f_promise = [f \in Futures |-> None]
  /\ f_local = [f \in Futures |-> "invalid"]
  /\ f_use = [f \in Futures |-> "unused"]
  /\ c_where = [k \in Conts |-> "unused"]
  /\ c_state = [k \in Conts |-> "invalid"]
  /\ c_thread = [k \in Conts |-> None]
  /\ queue = <<>>
  /\ produces = [l \in Locs |-> None]
  /\ consumes = [x \in Futures \union Conts |-> None]
  /\ outcome = [c \in Channels |-> "unset"]
-----------------------------------------------------------------------------
(* future::state().                                                        *)
StateOf(f) == IF f_promise[f] = None THEN f_local[f] ELSE p_local[f_promise[f]]

Available(f) == StateOf(f) \in Answers

Free(l) == p_state[l] = "null"

(* The state a promise would set.                                          *)
Target(l) == IF p_state[l] \in Conts THEN c_state[p_state[l]] ELSE p_local[l]

(* future_state::set() and set_exception(); the one of future_state<>      *)
(* stores the exception and leaves _state as it was.                       *)
Stored(answer) ==
  IF answer = "exception" /\ Valueless THEN "future" ELSE answer

Fresh(c) ==
  /\ \A l \in Locs : produces[l] # c
  /\ \A x \in Futures \union Conts : consumes[x] # c
-----------------------------------------------------------------------------
NewPromise(p) ==
  /\ Free(p)
  /\ \E c \in Channels :
        /\ Fresh(c)
        /\ produces' = [produces EXCEPT ![p] = c]
        /\ outcome' = [outcome EXCEPT ![c] = "unset"]
  /\ p_state' = [p_state EXCEPT ![p] = "local"]
  /\ p_local' = [p_local EXCEPT ![p] = "future"]
  /\ UNCHANGED <<p_future, futureVars, contVars, consumes>>

(* The promise at l moves to m; migrated() tells its future.               *)
Transfer(l, m) ==
  /\ p_state' = [p_state EXCEPT ![m] = p_state[l], ![l] = "null"]
  /\ p_local' = [p_local EXCEPT ![m] = p_local[l], ![l] = "invalid"]
  /\ p_future' = [p_future EXCEPT ![m] = p_future[l], ![l] = None]
  /\ produces' = [produces EXCEPT ![m] = produces[l], ![l] = None]

(* Mutant: the move constructor does not call migrated().                  *)
MovePromiseSilently(p, q) ==
  /\ ~Free(p) /\ Free(q)
  /\ Transfer(p, q)
  /\ UNCHANGED <<futureVars, contVars, consumes, outcome>>

MovePromise(p, q) ==
  /\ ~Free(p) /\ Free(q)
  /\ Transfer(p, q)
  /\ f_promise' = [f \in Futures |-> IF p_future[p] = f THEN q ELSE f_promise[f]]
  /\ UNCHANGED <<f_local, f_use, contVars, consumes, outcome>>

(* get_future(), called once: the pair has no reader yet.                  *)
GetFuture(p, f) ==
  /\ p_future[p] = None /\ p_state[p] = "local"
  /\ p_local[p] # "invalid"
  /\ f_use[f] = "unused"
  /\ p_future' = [p_future EXCEPT ![p] = f]
  /\ f_promise' = [f_promise EXCEPT ![f] = p]
  /\ f_local' = [f_local EXCEPT ![f] = "future"]
  /\ f_use' = [f_use EXCEPT ![f] = "live"]
  /\ consumes' = [consumes EXCEPT ![f] = produces[p]]
  /\ UNCHANGED <<p_state, p_local, produces, contVars, outcome>>

(* Mutant: make_ready() leaves the task where it is.                       *)
AnswerUnscheduled(p, answer, urgent, locals, readers) ==
  /\ outcome' = [outcome EXCEPT ![produces[p]] = answer]
  /\ IF p_state[p] = "local"
     THEN /\ p_local' = [locals EXCEPT ![p] = Stored(answer)]
          /\ UNCHANGED c_state
     ELSE /\ c_state' = [c_state EXCEPT ![p_state[p]] = Stored(answer)]
          /\ UNCHANGED p_local
  /\ p_future' = readers
  /\ UNCHANGED <<p_state, produces, c_where, queue>>

(* Mutant: make_ready() queues the task and still points into it.          *)
AnswerStillPointing(p, answer, urgent, locals, readers) ==
  /\ outcome' = [outcome EXCEPT ![produces[p]] = answer]
  /\ p_future' = readers
  /\ UNCHANGED <<p_state, produces>>
  /\ IF p_state[p] = "local"
     THEN /\ p_local' = [locals EXCEPT ![p] = Stored(answer)]
          /\ UNCHANGED <<c_state, c_where, queue>>
     ELSE /\ c_state' = [c_state EXCEPT ![p_state[p]] = Stored(answer)]
          /\ c_where' = [c_where EXCEPT ![p_state[p]] = "queued"]
          /\ queue' = Append(queue, p_state[p])
          /\ UNCHANGED p_local

(* set_value() and set_exception(), make_ready() included, of a promise    *)
(* that lives on; locals and readers are p_local and p_future as the call  *)
(* finds them.                                                             *)
Answer(p, answer, urgent, locals, readers) ==
  /\ outcome' = [outcome EXCEPT ![produces[p]] = answer]
  /\ \/ /\ p_state[p] = "local"
        /\ p_local' = [locals EXCEPT ![p] = Stored(answer)]
        /\ p_future' = readers
        /\ UNCHANGED <<p_state, produces, c_state, c_where, queue>>
     \/ \E k \in Conts :
        /\ p_state[p] = k
        /\ c_state' = [c_state EXCEPT ![k] = Stored(answer)]
        /\ c_where' = [c_where EXCEPT ![k] = "queued"]
        /\ queue' = IF urgent THEN <<k>> \o queue ELSE Append(queue, k)
        /\ p_state' = [p_state EXCEPT ![p] = "null"]
        /\ p_local' = [locals EXCEPT ![p] = "invalid"]
        /\ p_future' = [readers EXCEPT ![p] = None]
        /\ produces' = [produces EXCEPT ![p] = None]

Set(p, answer) ==
  /\ Target(p) = "future"
  /\ Answer(p, answer, FALSE, p_local, p_future)
  /\ UNCHANGED <<futureVars, c_thread, consumes>>

(* make_ready_future() and make_exception_future().                        *)
MakeReady(f, answer) ==
  /\ f_use[f] = "unused"
  /\ \E c \in Channels :
        /\ Fresh(c)
        /\ consumes' = [consumes EXCEPT ![f] = c]
        /\ outcome' = [outcome EXCEPT ![c] = answer]
  /\ f_local' = [f_local EXCEPT ![f] = Stored(answer)]
  /\ f_use' = [f_use EXCEPT ![f] = "live"]
  /\ UNCHANGED <<promiseVars, f_promise, contVars>>

(* The continuations that die with the promise at l: the task it owns, the *)
(* task owned by the promise captured in that one, and so on.              *)
OwnsAll(l, D) ==
  \A m \in D \union {l} : p_state[m] \in Conts => p_state[m] \in D

OwnedBy(l, D) ==
  /\ OwnsAll(l, D)
  /\ \A E \in SUBSET D : OwnsAll(l, E) => E = D

(* abandoned(), for each promise that is destroyed: its future keeps the   *)
(* state.  A future that was not answered stays unready for good.          *)
Abandon(gone) ==
  /\ f_promise' = [f \in Futures |->
                    IF f_promise[f] \in gone THEN None ELSE f_promise[f]]
  /\ f_local' = [f \in Futures |-> IF f_promise[f] \in gone
                                   THEN p_local[f_promise[f]] ELSE f_local[f]]

(* The promise at p and the continuations D die.                           *)
Destroyed(p, D) ==
  LET gone == D \union {p} IN
  /\ Abandon(gone)
  /\ p_state' = [l \in Locs |-> IF l \in gone THEN "null" ELSE p_state[l]]
  /\ p_local' = [l \in Locs |-> IF l \in gone THEN "invalid" ELSE p_local[l]]
  /\ p_future' = [l \in Locs |-> IF l \in gone THEN None ELSE p_future[l]]
  /\ produces' = [l \in Locs |-> IF l \in gone THEN None ELSE produces[l]]
  /\ c_where' = [k \in Conts |-> IF k \in D THEN "unused" ELSE c_where[k]]
  /\ c_thread' = [k \in Conts |-> IF k \in D THEN None ELSE c_thread[k]]
  /\ c_state' = [k \in Conts |-> IF k \in D THEN "invalid" ELSE c_state[k]]
  /\ consumes' = [x \in Futures \union Conts |->
                   IF x \in D THEN None ELSE consumes[x]]
  /\ outcome' = [c \in Channels |->
                  IF outcome[c] = "unset" /\ \E l \in gone : produces[l] = c
                  THEN "broken" ELSE outcome[c]]
  /\ UNCHANGED <<f_use, queue>>

DestroyPromise(p) ==
  /\ ~Free(p)
  /\ \E D \in SUBSET Conts : OwnedBy(p, D) /\ Destroyed(p, D)
-----------------------------------------------------------------------------
(* The future variable f holds nothing any more.                           *)
Forget(f) ==
  /\ f_promise' = [f_promise EXCEPT ![f] = None]
  /\ f_local' = [f_local EXCEPT ![f] = "invalid"]
  /\ f_use' = [f_use EXCEPT ![f] = "unused"]

(* The promise of f, if there still is one, forgets f.                     *)
Detached(f) == [l \in Locs |-> IF l = f_promise[f] THEN None ELSE p_future[l]]

DestroyFuture(f) ==
  /\ f_use[f] = "live"
  /\ p_future' = Detached(f)
  /\ Forget(f)
  /\ consumes' = [consumes EXCEPT ![f] = None]
  /\ UNCHANGED <<p_state, p_local, produces, contVars, outcome>>

MoveFuture(f, g) ==
  /\ f_use[f] = "live" /\ f_use[g] = "unused"
  /\ p_future' = [l \in Locs |-> IF l = f_promise[f] THEN g ELSE p_future[l]]
  /\ f_promise' = [f_promise EXCEPT ![g] = f_promise[f], ![f] = None]
  /\ f_local' = [f_local EXCEPT ![g] = f_local[f], ![f] = "invalid"]
  /\ f_use' = [f_use EXCEPT ![g] = "live", ![f] = "unused"]
  /\ consumes' = [consumes EXCEPT ![g] = consumes[f], ![f] = None]
  /\ UNCHANGED <<p_state, p_local, produces, contVars, outcome>>

(* The states of the promises once f was read.                             *)
Taken(f) == [l \in Locs |-> IF l = f_promise[f] THEN "invalid" ELSE p_local[l]]

(* get_available_state(): get(), get_exception(), or a then() that finds   *)
(* the future available and runs the function in place.                    *)
Take(f) ==
  /\ f_use[f] = "live" /\ Available(f)
  /\ p_future' = Detached(f)
  /\ p_local' = Taken(f)
  /\ Forget(f)
  /\ consumes' = [consumes EXCEPT ![f] = None]
  /\ UNCHANGED <<p_state, produces, contVars, outcome>>

(* future::schedule() of a future that is not available: its promise takes *)
(* the task and forgets the future.                                        *)
Attach(f, k) ==
  /\ f_use[f] = "live" /\ ~Available(f) /\ f_promise[f] # None
  /\ c_where[k] = "unused"
  /\ c_where' = [c_where EXCEPT ![k] = "attached"]
  /\ c_state' = [c_state EXCEPT ![k] = "future"]
  /\ UNCHANGED queue

(* g = f.then(func) or g = f.then_warpped(func), f not available: the      *)
(* promise of g, of the new channel c, is captured by the continuation.    *)
Chained(f, g, k, c) ==
  /\ Attach(f, k)
  /\ outcome' = [outcome EXCEPT ![c] = "unset"]
  /\ produces' = [produces EXCEPT ![k] = c]
  /\ consumes' = [consumes EXCEPT ![k] = consumes[f], ![f] = None, ![g] = c]
  /\ p_state' = [p_state EXCEPT ![f_promise[f]] = k, ![k] = "local"]
  /\ p_local' = [p_local EXCEPT ![f_promise[f]] = "invalid", ![k] = "future"]
  /\ p_future' = [p_future EXCEPT ![f_promise[f]] = None, ![k] = g]
  /\ f_promise' = [f_promise EXCEPT ![f] = None, ![g] = k]
  /\ f_local' = [f_local EXCEPT ![f] = "invalid", ![g] = "future"]
  /\ f_use' = [f_use EXCEPT ![f] = "unused", ![g] = "live"]
  /\ UNCHANGED c_thread

Then(f, g, k) ==
  /\ g = f \/ f_use[g] = "unused"
  /\ \E c \in Channels : Fresh(c) /\ Chained(f, g, k, c)

(* A thread calls get() on a future that is not available.                 *)
Wait(f, k) ==
  /\ Attach(f, k)
  /\ c_thread' = [c_thread EXCEPT ![k] = f]
  /\ consumes' = [consumes EXCEPT ![k] = consumes[f], ![f] = None]
  /\ p_state' = [p_state EXCEPT ![f_promise[f]] = k]
  /\ p_local' = [p_local EXCEPT ![f_promise[f]] = "invalid"]
  /\ p_future' = [p_future EXCEPT ![f_promise[f]] = None]
  /\ f_promise' = [f_promise EXCEPT ![f] = None]
  /\ f_use' = [f_use EXCEPT ![f] = "waiting"]
  /\ UNCHANGED <<produces, f_local, outcome>>
-----------------------------------------------------------------------------
(* Mutant: the promise of f is told to forget f, and pr dies unused.       *)
ForwardNowhere(f, m) ==
  LET l == f_promise[f] IN
  /\ f_use[f] = "live" /\ ~Available(f) /\ l # None /\ l # m
  /\ p_state' = [p_state EXCEPT ![m] = "null"]
  /\ p_local' = [p_local EXCEPT ![m] = "invalid"]
  /\ p_future' = [p_future EXCEPT ![m] = None, ![l] = None]
  /\ produces' = [produces EXCEPT ![m] = None]
  /\ f_promise' = [g \in Futures |-> IF g = f \/ g = p_future[m] THEN None ELSE f_promise[g]]
  /\ f_local' = [f_local EXCEPT ![f] = "invalid"]
  /\ f_use' = [f_use EXCEPT ![f] = "unused"]

(* forward_to(pr) of a future that is not available, pr at m: the promise  *)
(* of f gives way to pr, so whoever would have answered f answers pr's     *)
(* reader.                                                                 *)
Forward(f, m) ==
  LET l == f_promise[f] IN
  /\ f_use[f] = "live" /\ ~Available(f) /\ l # None /\ l # m
  /\ Transfer(m, l)
  /\ f_promise' = [g \in Futures |-> IF g = f THEN None
                                    ELSE IF g = p_future[m] THEN l ELSE f_promise[g]]
  /\ f_local' = [f_local EXCEPT ![f] = "invalid"]
  /\ f_use' = [f_use EXCEPT ![f] = "unused"]

ForwardPending(f, p) ==
  /\ Target(p) = "future"
  /\ Forward(f, p)
  /\ consumes' = [consumes EXCEPT ![f] = None]
  /\ UNCHANGED <<contVars, outcome>>

(* forward_to(pr) of an available future: its state is taken and set.      *)
ForwardReady(f, p) ==
  /\ f_use[f] = "live" /\ Available(f)
  /\ Target(p) = "future"
  /\ Answer(p, StateOf(f), TRUE, Taken(f), Detached(f))
  /\ f_promise' = [f_promise EXCEPT ![f] = None]
  /\ f_local' = [f_local EXCEPT ![f] = "invalid"]
  /\ f_use' = [f_use EXCEPT ![f] = "unused"]
  /\ consumes' = [consumes EXCEPT ![f] = None]
  /\ UNCHANGED c_thread
-----------------------------------------------------------------------------
(* run_tasks() drops the task it has run.                                  *)
Retire(k) ==
  /\ c_where' = [c_where EXCEPT ![k] = "unused"]
  /\ c_state' = [c_state EXCEPT ![k] = "invalid"]
  /\ queue' = Tail(queue)

Running(k) == queue # <<>> /\ k = Head(queue) /\ c_state[k] \in Answers

(* The lambda of then() answers the promise it captured, which dies with   *)
(* the task: with the exception it was given (then() alone), or with what  *)
(* the function returned or threw, which is forwarded urgently.            *)
RunAndAnswer(k, answer, urgent) ==
  /\ Running(k) /\ c_thread[k] = None
  /\ ~urgent => c_state[k] = "exception" /\ answer = "exception"
  /\ outcome' = [outcome EXCEPT ![produces[k]] = answer]
  /\ p_state' = [p_state EXCEPT ![k] = "null"]
  /\ p_local' = [p_local EXCEPT ![k] = "invalid"]
  /\ p_future' = [p_future EXCEPT ![k] = None]
  /\ produces' = [produces EXCEPT ![k] = None]
  /\ consumes' = [consumes EXCEPT ![k] = None]
  /\ UNCHANGED <<f_use, c_thread>>
  /\ IF p_state[k] = "local"
     THEN /\ f_promise' = [f \in Futures |->
                             IF f_promise[f] = k THEN None ELSE f_promise[f]]
          /\ f_local' = [f \in Futures |->
                           IF f_promise[f] = k THEN Stored(answer) ELSE f_local[f]]
          /\ Retire(k)
     ELSE \E next \in Conts :
          /\ p_state[k] = next
          /\ c_where' = [c_where EXCEPT ![k] = "unused", ![next] = "queued"]
          /\ c_state' = [c_state EXCEPT ![k] = "invalid", ![next] = Stored(answer)]
          /\ queue' = IF urgent THEN <<next>> \o Tail(queue)
                                ELSE Append(Tail(queue), next)
          /\ UNCHANGED <<f_promise, f_local>>

(* The function returned a future that is not available yet.               *)
RunAndForward(k, f) ==
  /\ Running(k) /\ c_thread[k] = None
  /\ Forward(f, k)
  /\ Retire(k)
  /\ consumes' = [consumes EXCEPT ![k] = None, ![f] = None]
  /\ UNCHANGED <<c_thread, outcome>>

(* The lambda of wait() fills the future and switches to the thread, whose *)
(* get() takes the value at once.                                          *)
RunAndResume(k) ==
  /\ Running(k) /\ c_thread[k] # None
  /\ f_use' = [f_use EXCEPT ![c_thread[k]] = "unused"]
  /\ f_local' = [f_local EXCEPT ![c_thread[k]] = "invalid"]
  /\ c_thread' = [c_thread EXCEPT ![k] = None]
  /\ consumes' = [consumes EXCEPT ![k] = None]
  /\ Retire(k)
  /\ UNCHANGED <<promiseVars, f_promise, outcome>>

Next ==
  \/ \E p \in Promises :
        \/ NewPromise(p) \/ DestroyPromise(p)
        \/ \E q \in Promises : MovePromise(p, q)
        \/ \E answer \in Answers : Set(p, answer)
        \/ \E f \in Futures : \/ GetFuture(p, f)
                             \/ ForwardPending(f, p) \/ ForwardReady(f, p)
  \/ \E f \in Futures :
        \/ DestroyFuture(f) \/ Take(f)
        \/ \E answer \in Answers : MakeReady(f, answer)
        \/ \E g \in Futures : MoveFuture(f, g)
        \/ \E k \in Conts : Wait(f, k) \/ \E g \in Futures : Then(f, g, k)
  \/ \E k \in Conts :
        \/ RunAndResume(k)
        \/ \E f \in Futures : RunAndForward(k, f)
        \/ \E answer \in Answers, urgent \in BOOLEAN : RunAndAnswer(k, answer, urgent)

Spec == Init /\ [][Next]_vars
-----------------------------------------------------------------------------
(* However promises and futures are moved, chained, forwarded and          *)
(* destroyed, _promise and _future stay inverse of each other: no pointer  *)
(* is left to an object that moved away or died.  This is also what keeps  *)
(* the assertion of abandoned() and the dereferences of _promise safe.     *)
BackPointers ==
  /\ \A f \in Futures, l \in Locs : f_promise[f] = l <=> p_future[l] = f
  /\ \A f \in Futures : f_promise[f] # None => f_use[f] = "live"
  /\ \A l \in Locs : p_future[l] # None => p_state[l] = "local"

(* A task has one owner: the one promise whose _state points into it, or   *)
(* the queue, once.  It is neither run twice nor set after it was queued.  *)
OneOwner ==
  /\ \A k \in Conts : c_where[k] = "attached" <=> \E l \in Locs : p_state[l] = k
  /\ \A l, m \in Locs : p_state[l] \in Conts /\ p_state[m] = p_state[l] => l = m
  /\ \A k \in Conts : c_where[k] = "queued" <=> \E i \in 1..Len(queue) : queue[i] = k
  /\ \A i, j \in 1..Len(queue) : queue[i] = queue[j] => i = j

(* future.h:312-314: once related, whether either side was moved or not,   *)
(* the future is ready as soon as the promise was set, with what it was    *)
(* set to, and a continuation attached to it is queued; and neither ever   *)
(* happens before.                                                         *)
ReadyWhenSet ==
  /\ \A f \in Futures : f_use[f] = "live" =>
        StateOf(f) = IF outcome[consumes[f]] \in Answers
                     THEN outcome[consumes[f]] ELSE "future"
  /\ \A k \in Conts : c_where[k] # "unused" =>
        /\ c_where[k] = "queued" <=> outcome[consumes[k]] \in Answers
        /\ c_where[k] = "queued" => c_state[k] = outcome[consumes[k]]

(* The part of it that future.h:312-314 says of set_value/set_exception.   *)
RelatedFutureIsReady ==
  \A l \in Locs : p_future[l] # None /\ outcome[produces[l]] \in Answers
                   => Available(p_future[l])

(* A reader that waits can still be answered: a promise of its channel     *)
(* exists, unless it was destroyed without an answer.                      *)
WaitersHaveAPromise ==
  \A x \in Futures \union Conts :
     consumes[x] # None /\ outcome[consumes[x]] = "unset" =>
        \E l \in Locs : produces[l] = consumes[x]
=============================================================================
