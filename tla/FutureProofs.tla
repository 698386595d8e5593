---------------------------- MODULE FutureProofs ----------------------------
(***************************************************************************)
(* The safety properties of Future, for any number of promises, futures    *)
(* and continuations.                                                      *)
(*                                                                         *)
(* None of them is inductive.  That an answer reaches its reader depends   *)
(* on who may still write (one promise a channel), on who may still read   *)
(* (one future or continuation a channel), on promise and future finding   *)
(* each other, and on the tasks being owned once: a second owner of a task *)
(* would queue it twice.  FutureInv is the conjunction of these, and every *)
(* action is shown to keep it, part by part.                               *)
(***************************************************************************)
EXTENDS Future, SequenceTheorems, TLAPS

FutureTypeOK ==
  /\ p_future \in [Locs -> Futures \union {None}]
  /\ p_state \in [Locs -> Conts \union {"null", "local"}]
  /\ p_local \in [Locs -> States]
  /\ f_promise \in [Futures -> Locs \union {None}]
  /\ f_local \in [Futures -> States]
  /\ f_use \in [Futures -> {"unused", "live", "waiting"}]
  /\ c_where \in [Conts -> {"unused", "attached", "queued"}]
  /\ c_state \in [Conts -> States]
  /\ c_thread \in [Conts -> Futures \union {None}]
  /\ queue \in Seq(Conts)
  /\ produces \in [Locs -> Channels \union {None}]
  /\ consumes \in [Futures \union Conts -> Channels \union {None}]
  /\ outcome \in [Channels -> Answers \union {"unset", "broken"}]

(* Which ends a promise, a future and a continuation have, read off the    *)
(* fields that hold them; _state of a task that a thread waits on is gone. *)
Storage ==
  /\ \A l \in Locs :
        /\ p_state[l] = "null" <=> produces[l] = None
        /\ p_state[l] # "local" => p_local[l] = "invalid"
        /\ p_local[l] = "invalid" => p_future[l] = None
  /\ \A f \in Futures : f_use[f] = "live" <=> consumes[f] # None
  /\ \A k \in Conts :
        /\ c_where[k] = "unused" <=> consumes[k] = None
        /\ p_state[k] # "null" <=> c_where[k] # "unused" /\ c_thread[k] = None

(* A waiting thread's future waits for one task.                           *)
WaitingThreads ==
  /\ \A k \in Conts : c_thread[k] # None =>
        c_where[k] # "unused" /\ f_use[c_thread[k]] = "waiting"
  /\ \A k, j \in Conts : c_thread[k] = c_thread[j] /\ c_thread[k] # None => k = j

(* A channel has one writer and one reader, and _future, _state and _task  *)
(* of the writer lead to the reader.                                       *)
OneWriter ==
  \A l, m \in Locs : produces[l] = produces[m] /\ produces[l] # None => l = m

OneReader ==
  \A x, y \in Futures \union Conts :
     consumes[x] = consumes[y] /\ consumes[x] # None => x = y

Ends ==
  \A l \in Locs : produces[l] # None =>
     /\ \A f \in Futures : consumes[f] = produces[l] <=> p_future[l] = f
     /\ \A k \in Conts : consumes[k] = produces[l] <=> p_state[l] = k

(* What is stored is what the channel was given: nothing before the        *)
(* answer, the answer after it.  The futures of no value do not keep it.   *)
Unsettled ==
  /\ \A l \in Locs : produces[l] # None => outcome[produces[l]] # "broken"
  /\ \A k \in Conts : c_where[k] = "attached" => c_state[k] = "future"

PromisesSettled ==
  \A l \in Locs : produces[l] # None =>
     /\ p_local[l] = "future" \/ p_state[l] \in Conts => outcome[produces[l]] = "unset"
     /\ p_local[l] \in Answers => outcome[produces[l]] = p_local[l]
     /\ p_state[l] = "local" /\ p_local[l] = "invalid" => outcome[produces[l]] \in Answers

FuturesSettled ==
  \A f \in Futures : f_use[f] = "live" /\ f_promise[f] = None =>
     f_local[f] = IF outcome[consumes[f]] \in Answers THEN outcome[consumes[f]] ELSE "future"

TasksSettled ==
  \A k \in Conts : c_where[k] = "queued" =>
     outcome[consumes[k]] \in Answers /\ c_state[k] = outcome[consumes[k]]

Settled == ~Valueless => PromisesSettled /\ FuturesSettled /\ TasksSettled

(* The attached tasks are those some promise owns, each owned by one.      *)
Owned == \A k \in Conts : c_where[k] = "attached" <=> \E l \in Locs : p_state[l] = k

OwnedOnce == \A l, m \in Locs : p_state[l] \in Conts /\ p_state[m] = p_state[l] => l = m

(* The task queue holds each queued task once.                             *)
QueueHolds(q, S) ==
  /\ \A k \in Conts : k \in S <=> \E i \in 1..Len(q) : q[i] = k
  /\ \A i, j \in 1..Len(q) : q[i] = q[j] => i = j

Queued == {k \in Conts : c_where[k] = "queued"}

FutureInv ==
  /\ FutureTypeOK /\ Storage /\ WaitingThreads /\ OneWriter /\ OneReader /\ Ends /\ Unsettled
  /\ Settled /\ Owned /\ OwnedOnce /\ QueueHolds(queue, Queued)
  /\ BackPointers /\ WaitersHaveAPromise

(* The queue with a task at its end.                                       *)
LEMMA TaskAppended ==
  ASSUME NEW q \in Seq(Conts), NEW S, QueueHolds(q, S), NEW k \in Conts, k \notin S
  PROVE  Append(q, k) \in Seq(Conts) /\ QueueHolds(Append(q, k), S \union {k})
<1>1. /\ Append(q, k) \in Seq(Conts) /\ Len(Append(q, k)) = Len(q) + 1 /\ Len(q) \in Nat
      /\ \A i \in 1..Len(q) : Append(q, k)[i] = q[i]
      /\ Append(q, k)[Len(q) + 1] = k
  OBVIOUS
<1>2. \A i \in 1..Len(q) : q[i] \in Conts
  OBVIOUS
<1>3. 1..(Len(q) + 1) = 1..Len(q) \union {Len(q) + 1}
  BY <1>1
<1> QED
  BY <1>1, <1>2, <1>3 DEF QueueHolds

(* The queue with an urgent task at its front.                             *)
LEMMA TaskPrepended ==
  ASSUME NEW q \in Seq(Conts), NEW S, QueueHolds(q, S), NEW k \in Conts, k \notin S
  PROVE  <<k>> \o q \in Seq(Conts) /\ QueueHolds(<<k>> \o q, S \union {k})
<1> DEFINE r == <<k>> \o q
<1>1. /\ r \in Seq(Conts) /\ Len(r) = Len(q) + 1 /\ Len(q) \in Nat
      /\ r[1] = k
      /\ \A i \in 1..Len(q) : r[i + 1] = q[i]
  OBVIOUS
<1>2. \A i \in 1..Len(q) : q[i] \in Conts
  OBVIOUS
<1>3. \A i \in 1..Len(r) : i = 1 \/ (i - 1 \in 1..Len(q) /\ r[i] = q[i - 1])
  <2> SUFFICES ASSUME NEW i \in 1..Len(r), i # 1
               PROVE  i - 1 \in 1..Len(q) /\ r[i] = q[i - 1]
    OBVIOUS
  <2>1. i - 1 \in 1..Len(q) /\ (i - 1) + 1 = i
    BY <1>1
  <2> QED
    BY <1>1, <2>1
<1>4. ASSUME NEW j \in Conts
      PROVE  j \in S \union {k} <=> \E i \in 1..Len(r) : r[i] = j
  <2>1. ASSUME j \in S PROVE \E i \in 1..Len(r) : r[i] = j
    <3>1. PICK i \in 1..Len(q) : q[i] = j
      BY <2>1 DEF QueueHolds
    <3>2. i + 1 \in 1..Len(r)
      BY <1>1
    <3> QED
      BY <1>1, <3>1, <3>2
  <2>2. 1 \in 1..Len(r)
    BY <1>1
  <2>3. ASSUME NEW i \in 1..Len(r), r[i] = j PROVE j \in S \union {k}
    BY <1>1, <1>3, <2>3 DEF QueueHolds
  <2> QED
    BY <1>1, <2>1, <2>2, <2>3
<1>5. ASSUME NEW i \in 1..Len(r), NEW j \in 1..Len(r), r[i] = r[j] PROVE i = j
  <2>1. \A m \in 1..Len(q) : q[m] # k
    BY DEF QueueHolds
  <2>2. i # 1 /\ j # 1 => i - 1 = j - 1
    BY <1>3, <1>5 DEF QueueHolds
  <2> QED
    BY <1>1, <1>3, <1>5, <2>1, <2>2
<1> QED
  BY <1>1, <1>4, <1>5 DEF QueueHolds

(* The queue without the task at its front.                                *)
LEMMA TaskTaken ==
  ASSUME NEW q \in Seq(Conts), NEW S, QueueHolds(q, S), q # <<>>
  PROVE  /\ Head(q) \in Conts /\ Head(q) \in S
         /\ Tail(q) \in Seq(Conts) /\ QueueHolds(Tail(q), S \ {Head(q)})
<1> DEFINE r == Tail(q)
<1>1. /\ r \in Seq(Conts) /\ Len(q) \in Nat /\ Len(q) # 0 /\ Len(r) = Len(q) - 1
      /\ Head(q) = q[1] /\ Head(q) \in Conts
      /\ \A i \in 1..Len(r) : r[i] = q[i + 1]
  OBVIOUS
<1>2. 1 \in 1..Len(q) /\ \A i \in 1..Len(r) : i + 1 \in 1..Len(q)
  BY <1>1
<1>3. Head(q) \in S
  BY <1>1, <1>2 DEF QueueHolds
<1>4. ASSUME NEW j \in Conts
      PROVE  j \in S \ {Head(q)} <=> \E i \in 1..Len(r) : r[i] = j
  <2>1. ASSUME j \in S, j # Head(q) PROVE \E i \in 1..Len(r) : r[i] = j
    <3>1. PICK i \in 1..Len(q) : q[i] = j
      BY <2>1 DEF QueueHolds
    <3>2. i - 1 \in 1..Len(r) /\ (i - 1) + 1 = i
      BY <1>1, <2>1, <3>1
    <3> QED
      BY <1>1, <3>1, <3>2
  <2>2. ASSUME NEW i \in 1..Len(r), r[i] = j PROVE j \in S /\ j # Head(q)
    <3>1. q[i + 1] = j /\ i + 1 # 1
      BY <1>1, <2>2
    <3> QED
      BY <1>1, <1>2, <3>1 DEF QueueHolds
  <2> QED
    BY <2>1, <2>2
<1>5. ASSUME NEW i \in 1..Len(r), NEW j \in 1..Len(r), r[i] = r[j] PROVE i = j
  <2>1. i + 1 = j + 1
    BY <1>1, <1>2, <1>5 DEF QueueHolds
  <2> QED
    BY <2>1
<1> QED
  BY <1>1, <1>3, <1>4, <1>5 DEF QueueHolds

-----------------------------------------------------------------------------
(* Promises, tasks, futures and the values of the fields are told apart.   *)
LEMMA Apart ==
  /\ None \notin Locs /\ None \notin Futures /\ None \notin Conts /\ None \notin Channels
  /\ Promises \intersect Conts = {} /\ Futures \intersect Conts = {}
  /\ "null" \notin Conts /\ "local" \notin Conts
  /\ Promises \subseteq Locs /\ Conts \subseteq Locs
  BY FutureAssumption DEF Locs

(* Nothing exists at the start.                                            *)
LEMMA InitInv == Init => FutureInv
<1> SUFFICES ASSUME Init PROVE FutureInv
  OBVIOUS
<1>1. FutureTypeOK
  BY Apart DEF Init, FutureTypeOK, States, Answers
<1>2. QED
  BY <1>1, Apart DEF Init, FutureInv, Storage, WaitingThreads, OneWriter, OneReader, Ends, Unsettled,
     Settled, PromisesSettled, FuturesSettled, TasksSettled, Owned, OwnedOnce, QueueHolds, Queued, BackPointers, WaitersHaveAPromise, Answers

(* promise() starts a channel that nobody else writes or reads.            *)
LEMMA NewPromiseKeeps ==
  ASSUME FutureInv, NEW p \in Promises, NewPromise(p)
  PROVE  FutureInv'
<1> USE Apart DEF FutureInv, NewPromise, Free, Fresh, futureVars, contVars, StateOf, Target
<1>1. FutureTypeOK'
  BY DEF FutureTypeOK, States
<1>2. Storage'
  BY DEF Storage, FutureTypeOK
<1>3. WaitingThreads'
  BY DEF WaitingThreads
<1>4. OneWriter'
  BY DEF OneWriter
<1>5. OneReader'
  BY DEF OneReader
<1>6. Ends'
  BY DEF Ends, Storage
<1>7. Unsettled'
  BY DEF Unsettled, FutureTypeOK
<1>8. ~Valueless => PromisesSettled'
  BY DEF PromisesSettled, Settled, FutureTypeOK, Answers
<1>9. ~Valueless => FuturesSettled'
  BY DEF FuturesSettled, Settled
<1>10. ~Valueless => TasksSettled'
  BY DEF TasksSettled, Settled
<1>11. Owned'
  BY DEF Owned
<1>12. OwnedOnce'
  BY DEF OwnedOnce
<1>13. QueueHolds(queue, Queued)'
  BY DEF Queued
<1>14. BackPointers'
  BY DEF BackPointers
<1>15. WaitersHaveAPromise'
  BY DEF WaitersHaveAPromise, Storage
<1> QED
  BY <1>1, <1>2, <1>3, <1>4, <1>5, <1>6, <1>7, <1>8, <1>9, <1>10, <1>11, <1>12, <1>13, <1>14, <1>15 DEF Settled

(* promise(promise&&) takes the ends over and repairs _future.             *)
LEMMA MovePromiseKeeps ==
  ASSUME FutureInv, NEW p \in Promises, NEW q \in Promises, MovePromise(p, q)
  PROVE  FutureInv'
<1> USE Apart DEF FutureInv, MovePromise, Free, Transfer, contVars, StateOf, Target
<1>1. FutureTypeOK'
  BY DEF FutureTypeOK, States
<1>2. Storage'
  BY DEF Storage, FutureTypeOK, BackPointers, Answers
<1>3. WaitingThreads'
  BY DEF WaitingThreads
<1>4. OneWriter'
  BY DEF OneWriter, FutureTypeOK
<1>5. OneReader'
  BY DEF OneReader
<1>6. Ends'
  BY DEF Ends, FutureTypeOK
<1>7. Unsettled'
  BY DEF Unsettled, FutureTypeOK
<1>8. ~Valueless => PromisesSettled'
  BY DEF PromisesSettled, Settled, FutureTypeOK
<1>9. ~Valueless => FuturesSettled'
  BY DEF FuturesSettled, Settled
<1>10. ~Valueless => TasksSettled'
  BY DEF TasksSettled, Settled
<1>11. Owned'
  BY DEF Owned, FutureTypeOK, Storage
<1>12. OwnedOnce'
  BY DEF OwnedOnce, FutureTypeOK
<1>13. QueueHolds(queue, Queued)'
  BY DEF Queued
<1>14. BackPointers'
  BY DEF BackPointers, FutureTypeOK
<1>15. WaitersHaveAPromise'
  BY DEF WaitersHaveAPromise, FutureTypeOK, Storage, OneReader, BackPointers
<1> QED
  BY <1>1, <1>2, <1>3, <1>4, <1>5, <1>6, <1>7, <1>8, <1>9, <1>10, <1>11, <1>12, <1>13, <1>14, <1>15 DEF Settled

(* get_future() makes the channel's reader.                                *)
LEMMA GetFutureKeeps ==
  ASSUME FutureInv, NEW p \in Promises, NEW f \in Futures, GetFuture(p, f)
  PROVE  FutureInv'
<1> USE Apart DEF FutureInv, GetFuture, contVars, StateOf, Target
<1>1. FutureTypeOK'
  BY DEF FutureTypeOK, States
<1>2. Storage'
  BY DEF Storage, FutureTypeOK
<1>3. WaitingThreads'
  BY DEF WaitingThreads
<1>4. OneWriter'
  BY DEF OneWriter
<1>5. OneReader'
  BY DEF OneReader, Ends
<1>6. Ends'
  BY DEF Ends, OneWriter, Storage, FutureTypeOK
<1>7. Unsettled'
  BY DEF Unsettled
<1>8. ~Valueless => PromisesSettled'
  BY DEF PromisesSettled, Settled
<1>9. ~Valueless => FuturesSettled'
  BY DEF FuturesSettled, Settled, FutureTypeOK
<1>10. ~Valueless => TasksSettled'
  BY DEF TasksSettled, Settled
<1>11. Owned'
  BY DEF Owned
<1>12. OwnedOnce'
  BY DEF OwnedOnce
<1>13. QueueHolds(queue, Queued)'
  BY DEF Queued
<1>14. BackPointers'
  BY DEF BackPointers, FutureTypeOK
<1>15. WaitersHaveAPromise'
  BY DEF WaitersHaveAPromise
<1> QED
  BY <1>1, <1>2, <1>3, <1>4, <1>5, <1>6, <1>7, <1>8, <1>9, <1>10, <1>11, <1>12, <1>13, <1>14, <1>15 DEF Settled

(* set_value() and set_exception() store the answer where the reader looks *)
(* for it, in the promise, in its future or in its task.                   *)
LEMMA SetKeeps ==
  ASSUME FutureInv, NEW p \in Promises, NEW answer \in Answers, Set(p, answer)
  PROVE  FutureInv'
<1> USE Apart DEF FutureInv
<1>t. Target(p) = "future" /\ p \in Locs
  BY DEF Set
<1>n. p_state[p] # "null"
  BY <1>t DEF Target, Storage
<1>a. produces[p] \in Channels
  BY <1>t, <1>n DEF FutureTypeOK, Storage
<1>b. Stored(answer) \in States /\ Stored(answer) # "invalid" /\ (~Valueless => Stored(answer) = answer)
  BY DEF Stored, States, Answers
<1> USE <1>t
<1>1. CASE p_state[p] = "local"
  <2> USE <1>1, <1>a, <1>b
  <2>a. /\ outcome' = [outcome EXCEPT ![produces[p]] = answer]
        /\ p_local' = [p_local EXCEPT ![p] = Stored(answer)]
        /\ UNCHANGED <<p_future, p_state, produces, c_state, c_where, queue>>
        /\ UNCHANGED <<f_promise, f_local, f_use, c_thread, consumes>>
    BY DEF Set, Answer, futureVars
  <2> USE <2>a DEF Target, StateOf
  <2>1. FutureTypeOK'
    BY DEF FutureTypeOK
  <2>2. Storage'
    BY DEF Storage
  <2>3. WaitingThreads'
    BY DEF WaitingThreads
  <2>4. OneWriter'
    BY DEF OneWriter
  <2>5. OneReader'
    BY DEF OneReader
  <2>6. Ends'
    BY DEF Ends
  <2>7. Unsettled'
    BY DEF Unsettled, Answers
  <2>8. ~Valueless => PromisesSettled'
    BY DEF PromisesSettled, Settled, FutureTypeOK, OneWriter
  <2>9. ~Valueless => FuturesSettled'
    BY DEF FuturesSettled, Settled, BackPointers, Ends
  <2>10. ~Valueless => TasksSettled'
    BY DEF TasksSettled, PromisesSettled, Settled, Answers
  <2>11. Owned'
    BY DEF Owned
  <2>12. OwnedOnce'
    BY DEF OwnedOnce
  <2>13. QueueHolds(queue, Queued)'
    BY DEF Queued
  <2>14. BackPointers'
    BY DEF BackPointers
  <2>15. WaitersHaveAPromise'
    BY DEF WaitersHaveAPromise, Answers
  <2> QED
    BY <2>1, <2>2, <2>3, <2>4, <2>5, <2>6, <2>7, <2>8, <2>9, <2>10, <2>11, <2>12, <2>13, <2>14, <2>15 DEF Settled
<1>2. ASSUME NEW k \in Conts, p_state[p] = k PROVE FutureInv'
  <2> USE <1>2, <1>a, <1>b
  <2>a. /\ outcome' = [outcome EXCEPT ![produces[p]] = answer]
        /\ c_state' = [c_state EXCEPT ![k] = Stored(answer)]
        /\ c_where' = [c_where EXCEPT ![k] = "queued"]
        /\ queue' = Append(queue, k)
        /\ p_state' = [p_state EXCEPT ![p] = "null"]
        /\ p_local' = [p_local EXCEPT ![p] = "invalid"]
        /\ p_future' = [p_future EXCEPT ![p] = None]
        /\ produces' = [produces EXCEPT ![p] = None]
        /\ UNCHANGED <<f_promise, f_local, f_use, c_thread, consumes>>
    BY DEF Set, Answer, futureVars
  <2>b. c_where[k] = "attached"
    BY DEF Owned
  <2>c. Queued' = Queued \union {k} /\ k \notin Queued
    BY <2>a, <2>b DEF Queued, FutureTypeOK
  <2>d. queue' \in Seq(Conts) /\ QueueHolds(queue', Queued')
    BY <2>a, <2>c, TaskAppended DEF FutureTypeOK
  <2> USE <2>a, <2>b, <2>d DEF Target, StateOf
  <2>1. FutureTypeOK'
    BY DEF FutureTypeOK, States
  <2>2. Storage'
    BY DEF Storage, FutureTypeOK
  <2>3. WaitingThreads'
    BY DEF WaitingThreads
  <2>4. OneWriter'
    BY DEF OneWriter
  <2>5. OneReader'
    BY DEF OneReader
  <2>6. Ends'
    BY DEF Ends, FutureTypeOK
  <2>7. Unsettled'
    BY DEF Unsettled, FutureTypeOK, Answers
  <2>8. ~Valueless => PromisesSettled'
    BY DEF PromisesSettled, Settled, FutureTypeOK, OneWriter
  <2>9. ~Valueless => FuturesSettled'
    BY DEF FuturesSettled, Settled, BackPointers, Ends
  <2>10. ~Valueless => TasksSettled'
    BY DEF TasksSettled, Settled, FutureTypeOK, Storage, States, Ends
  <2>11. Owned'
    BY DEF Owned, OwnedOnce, FutureTypeOK
  <2>12. OwnedOnce'
    BY DEF OwnedOnce
  <2>13. QueueHolds(queue, Queued)'
    OBVIOUS
  <2>14. BackPointers'
    BY DEF BackPointers
  <2>15. WaitersHaveAPromise'
    BY DEF WaitersHaveAPromise, FutureTypeOK, Storage, Ends, Answers
  <2> QED
    BY <2>1, <2>2, <2>3, <2>4, <2>5, <2>6, <2>7, <2>8, <2>9, <2>10, <2>11, <2>12, <2>13, <2>14, <2>15 DEF Settled
<1> QED
  BY <1>1, <1>2, <1>t, <1>n DEF FutureTypeOK

(* make_ready_future() and make_exception_future() start an answered       *)
(* channel.                                                                *)
LEMMA MakeReadyKeeps ==
  ASSUME FutureInv, NEW f \in Futures, NEW answer \in Answers, MakeReady(f, answer)
  PROVE  FutureInv'
<1> USE Apart DEF FutureInv, MakeReady, Fresh, Stored, promiseVars, contVars, StateOf, Target
<1>1. FutureTypeOK'
  BY DEF FutureTypeOK, States
<1>2. Storage'
  BY DEF Storage, FutureTypeOK
<1>3. WaitingThreads'
  BY DEF WaitingThreads
<1>4. OneWriter'
  BY DEF OneWriter
<1>5. OneReader'
  BY DEF OneReader
<1>6. Ends'
  BY DEF Ends, Storage
<1>7. Unsettled'
  BY DEF Unsettled
<1>8. ~Valueless => PromisesSettled'
  BY DEF PromisesSettled, Settled
<1>9. ~Valueless => FuturesSettled'
  BY DEF FuturesSettled, Settled, FutureTypeOK
<1>10. ~Valueless => TasksSettled'
  BY DEF TasksSettled, Settled
<1>11. Owned'
  BY DEF Owned
<1>12. OwnedOnce'
  BY DEF OwnedOnce
<1>13. QueueHolds(queue, Queued)'
  BY DEF Queued
<1>14. BackPointers'
  BY DEF BackPointers
<1>15. WaitersHaveAPromise'
  BY DEF WaitersHaveAPromise, FutureTypeOK, Answers
<1> QED
  BY <1>1, <1>2, <1>3, <1>4, <1>5, <1>6, <1>7, <1>8, <1>9, <1>10, <1>11, <1>12, <1>13, <1>14, <1>15 DEF Settled

(* ~promise() breaks the channels of every promise that is destroyed with  *)
(* it: those of the tasks it owns, and of the tasks these own.             *)
LEMMA DestroyPromiseKeeps ==
  ASSUME FutureInv, NEW p \in Promises, DestroyPromise(p)
  PROVE  FutureInv'
<1> USE Apart DEF FutureInv
<1>1. ASSUME NEW D \in SUBSET Conts, OwnedBy(p, D), Destroyed(p, D) PROVE FutureInv'
  <2> USE <1>1
  <2> DEFINE gone == D \union {p}
  <2>a. \A k \in D : \E m \in gone : p_state[m] = k
    <3> SUFFICES ASSUME NEW k \in D, \A m \in gone : p_state[m] # k PROVE FALSE
      OBVIOUS
    <3>1. OwnsAll(p, D \ {k})
      BY DEF OwnedBy, OwnsAll
    <3> QED
      BY <3>1 DEF OwnedBy
  <2>b. \A l \in Locs : p_state[l] \in D <=> l \in gone /\ p_state[l] \in Conts
    BY <2>a DEF OwnedBy, OwnsAll, OwnedOnce
  <2>c. \A k \in D : c_where[k] = "attached"
    BY <2>a DEF Owned
  <2>u. /\ p \in Locs /\ p_state[p] # "null" /\ gone \subseteq Locs
        /\ f_promise' = [f \in Futures |->
                    IF f_promise[f] \in gone THEN None ELSE f_promise[f]]
        /\ f_local' = [f \in Futures |-> IF f_promise[f] \in gone
                                   THEN p_local[f_promise[f]] ELSE f_local[f]]
        /\ p_state' = [l \in Locs |-> IF l \in gone THEN "null" ELSE p_state[l]]
        /\ p_local' = [l \in Locs |-> IF l \in gone THEN "invalid" ELSE p_local[l]]
        /\ p_future' = [l \in Locs |-> IF l \in gone THEN None ELSE p_future[l]]
        /\ produces' = [l \in Locs |-> IF l \in gone THEN None ELSE produces[l]]
        /\ c_where' = [k \in Conts |-> IF k \in D THEN "unused" ELSE c_where[k]]
        /\ c_thread' = [k \in Conts |-> IF k \in D THEN None ELSE c_thread[k]]
        /\ c_state' = [k \in Conts |-> IF k \in D THEN "invalid" ELSE c_state[k]]
        /\ consumes' = [x \in Futures \union Conts |->
                         IF x \in D THEN None ELSE consumes[x]]
        /\ outcome' = [c \in Channels |->
                        IF outcome[c] = "unset" /\ \E l \in gone : produces[l] = c
                        THEN "broken" ELSE outcome[c]]
        /\ UNCHANGED <<f_use, queue>>
    BY DEF DestroyPromise, Destroyed, Abandon, Free
  <2>d. Queued' = Queued
    BY <2>u, <2>c DEF Queued
  <2>e. \A k \in Conts : k \in gone <=> k \in D
    OBVIOUS
  <2> HIDE DEF gone
  <2> USE <2>u, <2>c, <2>e DEF Target, StateOf
  <2>1. FutureTypeOK'
    BY DEF FutureTypeOK, States
  <2>2. Storage'
    BY DEF Storage
  <2>3. WaitingThreads'
    BY DEF WaitingThreads
  <2>4. OneWriter'
    BY DEF OneWriter
  <2>5. OneReader'
    BY DEF OneReader
  <2>6. Ends'
    <3>1. ASSUME NEW m \in Locs, m \notin gone, produces[m] # None, NEW f \in Futures
          PROVE  consumes'[f] = produces[m] <=> p_future[m] = f
      BY <3>1 DEF Ends
    <3>2. ASSUME NEW m \in Locs, m \notin gone, produces[m] # None, NEW k \in Conts
          PROVE  consumes'[k] = produces[m] <=> p_state[m] = k
      BY <3>2, <2>b DEF Ends
    <3> QED
      BY <3>1, <3>2 DEF Ends
  <2>7. Unsettled'
    BY DEF Unsettled, FutureTypeOK, OneWriter
  <2>8. ~Valueless => PromisesSettled'
    BY DEF PromisesSettled, Settled, FutureTypeOK, OneWriter
  <2>9. ~Valueless => FuturesSettled'
    BY DEF FuturesSettled, PromisesSettled, Settled, FutureTypeOK, Storage, Answers, States, BackPointers, Ends
  <2>10. ~Valueless => TasksSettled'
    BY DEF TasksSettled, Settled, FutureTypeOK, Storage, Answers
  <2>11. Owned'
    BY <2>b DEF Owned
  <2>12. OwnedOnce'
    BY DEF OwnedOnce
  <2>13. QueueHolds(queue, Queued)'
    BY DEF QueueHolds, Queued
  <2>14. BackPointers'
    BY DEF BackPointers
  <2>15. WaitersHaveAPromise'
    BY DEF WaitersHaveAPromise, FutureTypeOK
  <2> QED
    BY <2>1, <2>2, <2>3, <2>4, <2>5, <2>6, <2>7, <2>8, <2>9, <2>10, <2>11, <2>12, <2>13, <2>14, <2>15 DEF Settled
<1> QED
  BY <1>1 DEF DestroyPromise

(* ~future() leaves no pointer behind in its promise.                      *)
LEMMA DestroyFutureKeeps ==
  ASSUME FutureInv, NEW f \in Futures, DestroyFuture(f)
  PROVE  FutureInv'
<1> USE Apart DEF FutureInv, DestroyFuture, Detached, Forget, contVars, StateOf, Target
<1>1. FutureTypeOK'
  BY DEF FutureTypeOK, States
<1>2. Storage'
  BY DEF Storage, FutureTypeOK
<1>3. WaitingThreads'
  BY DEF WaitingThreads
<1>4. OneWriter'
  BY DEF OneWriter
<1>5. OneReader'
  BY DEF OneReader
<1>6. Ends'
  BY DEF Ends, FutureTypeOK, BackPointers
<1>7. Unsettled'
  BY DEF Unsettled
<1>8. ~Valueless => PromisesSettled'
  BY DEF PromisesSettled, Settled
<1>9. ~Valueless => FuturesSettled'
  BY DEF FuturesSettled, Settled, FutureTypeOK
<1>10. ~Valueless => TasksSettled'
  BY DEF TasksSettled, Settled
<1>11. Owned'
  BY DEF Owned
<1>12. OwnedOnce'
  BY DEF OwnedOnce
<1>13. QueueHolds(queue, Queued)'
  BY DEF Queued
<1>14. BackPointers'
  BY DEF BackPointers, FutureTypeOK
<1>15. WaitersHaveAPromise'
  BY DEF WaitersHaveAPromise
<1> QED
  BY <1>1, <1>2, <1>3, <1>4, <1>5, <1>6, <1>7, <1>8, <1>9, <1>10, <1>11, <1>12, <1>13, <1>14, <1>15 DEF Settled

(* future(future&&) takes the state over and repairs _promise.             *)
LEMMA MoveFutureKeeps ==
  ASSUME FutureInv, NEW f \in Futures, NEW g \in Futures, MoveFuture(f, g)
  PROVE  FutureInv'
<1> USE Apart DEF FutureInv, MoveFuture, contVars, StateOf, Target
<1>1. FutureTypeOK'
  BY DEF FutureTypeOK, States, Answers
<1>2. Storage'
  BY DEF Storage, FutureTypeOK, BackPointers
<1>3. WaitingThreads'
  BY DEF WaitingThreads, FutureTypeOK
<1>4. OneWriter'
  BY DEF OneWriter
<1>5. OneReader'
  BY DEF OneReader, FutureTypeOK
<1>6. Ends'
  BY DEF Ends, Storage, FutureTypeOK, BackPointers
<1>7. Unsettled'
  BY DEF Unsettled
<1>8. ~Valueless => PromisesSettled'
  BY DEF PromisesSettled, Settled
<1>9. ~Valueless => FuturesSettled'
  BY DEF FuturesSettled, Settled, FutureTypeOK
<1>10. ~Valueless => TasksSettled'
  BY DEF TasksSettled, Settled, FutureTypeOK, Ends
<1>11. Owned'
  BY DEF Owned
<1>12. OwnedOnce'
  BY DEF OwnedOnce
<1>13. QueueHolds(queue, Queued)'
  BY DEF Queued
<1>14. BackPointers'
  BY DEF BackPointers, FutureTypeOK, Storage
<1>15. WaitersHaveAPromise'
  BY DEF WaitersHaveAPromise, FutureTypeOK, Storage, OneReader, Ends, BackPointers
<1> QED
  BY <1>1, <1>2, <1>3, <1>4, <1>5, <1>6, <1>7, <1>8, <1>9, <1>10, <1>11, <1>12, <1>13, <1>14, <1>15 DEF Settled

(* get() and ignore_ready_future() consume the answer.                     *)
LEMMA TakeKeeps ==
  ASSUME FutureInv, NEW f \in Futures, Take(f)
  PROVE  FutureInv'
<1> USE Apart DEF FutureInv, Take, Available, Detached, Taken, Forget, contVars, StateOf, Target
<1>1. FutureTypeOK'
  BY DEF FutureTypeOK, States
<1>2. Storage'
  BY DEF Storage, FutureTypeOK
<1>3. WaitingThreads'
  BY DEF WaitingThreads
<1>4. OneWriter'
  BY DEF OneWriter
<1>5. OneReader'
  BY DEF OneReader
<1>6. Ends'
  BY DEF Ends, FutureTypeOK, BackPointers
<1>7. Unsettled'
  BY DEF Unsettled
<1>8. ~Valueless => PromisesSettled'
  BY DEF PromisesSettled, Settled, Answers
<1>9. ~Valueless => FuturesSettled'
  BY DEF FuturesSettled, Settled, FutureTypeOK
<1>10. ~Valueless => TasksSettled'
  BY DEF TasksSettled, Settled
<1>11. Owned'
  BY DEF Owned
<1>12. OwnedOnce'
  BY DEF OwnedOnce
<1>13. QueueHolds(queue, Queued)'
  BY DEF Queued
<1>14. BackPointers'
  BY DEF BackPointers, FutureTypeOK
<1>15. WaitersHaveAPromise'
  BY DEF WaitersHaveAPromise
<1> QED
  BY <1>1, <1>2, <1>3, <1>4, <1>5, <1>6, <1>7, <1>8, <1>9, <1>10, <1>11, <1>12, <1>13, <1>14, <1>15 DEF Settled

(* then() attaches a task to the promise, or queues it when the answer is  *)
(* there.                                                                  *)
LEMMA ThenKeeps ==
  ASSUME FutureInv, NEW f \in Futures, NEW g \in Futures, NEW k \in Conts, Then(f, g, k)
  PROVE  FutureInv'
<1> USE Apart DEF FutureInv
<1>1. ASSUME NEW l \in Locs, l = f_promise[f], NEW c \in Channels, Fresh(c), Chained(f, g, k, c)
      PROVE  FutureInv'
  <2> USE <1>1
  <2>u. /\ outcome' = [outcome EXCEPT ![c] = "unset"]
        /\ produces' = [produces EXCEPT ![k] = c]
        /\ consumes' = [consumes EXCEPT ![k] = consumes[f], ![f] = None, ![g] = c]
        /\ g = f \/ f_use[g] = "unused"
        /\ f_use[f] = "live" /\ c_where[k] = "unused"
        /\ c_where' = [c_where EXCEPT ![k] = "attached"]
        /\ c_state' = [c_state EXCEPT ![k] = "future"]
        /\ p_state' = [p_state EXCEPT ![l] = k, ![k] = "local"]
        /\ p_local' = [p_local EXCEPT ![l] = "invalid", ![k] = "future"]
        /\ p_future' = [p_future EXCEPT ![l] = None, ![k] = g]
        /\ f_promise' = [f_promise EXCEPT ![f] = None, ![g] = k]
        /\ f_local' = [f_local EXCEPT ![f] = "invalid", ![g] = "future"]
        /\ f_use' = [f_use EXCEPT ![f] = "unused", ![g] = "live"]
        /\ UNCHANGED <<queue, c_thread>>
    BY DEF Chained, Attach, Then
  <2>a. /\ p_future[l] = f /\ p_state[l] = "local" /\ p_local[l] = "future" /\ produces[l] # None
        /\ p_state[k] = "null" /\ c_thread[k] = None /\ consumes[k] = None
    BY <2>u DEF Chained, Attach, Available, StateOf, BackPointers, Storage, WaitingThreads, FutureTypeOK, States
  <2>b. /\ consumes[f] = produces[l] /\ consumes[f] # None /\ k # l
        /\ f_promise[g] = None \/ g = f
        /\ f_use[f] = "live" /\ (g = f \/ f_use[g] = "unused") /\ c_where[k] = "unused"
    BY <2>u, <2>a DEF Ends, BackPointers
  <2>d. Queued' = Queued
    BY <2>u DEF Queued
  <2>v. /\ \A x \in Futures \union Conts : consumes'[x] =
              IF x = g THEN c ELSE IF x = f THEN None ELSE IF x = k THEN consumes[f] ELSE consumes[x]
        /\ \A m \in Locs : p_state'[m] = IF m = l THEN k ELSE IF m = k THEN "local" ELSE p_state[m]
        /\ \A m \in Locs : p_local'[m] = IF m = l THEN "invalid" ELSE IF m = k THEN "future" ELSE p_local[m]
        /\ \A m \in Locs : p_future'[m] = IF m = l THEN None ELSE IF m = k THEN g ELSE p_future[m]
        /\ \A m \in Locs : produces'[m] = IF m = k THEN c ELSE produces[m]
        /\ \A h \in Futures : f_promise'[h] = IF h = g THEN k ELSE IF h = f THEN None ELSE f_promise[h]
        /\ \A h \in Futures : f_use'[h] = IF h = g THEN "live" ELSE IF h = f THEN "unused" ELSE f_use[h]
        /\ \A h \in Futures : f_local'[h] = IF h = g THEN "future" ELSE IF h = f THEN "invalid" ELSE f_local[h]
        /\ \A j \in Conts : c_where'[j] = IF j = k THEN "attached" ELSE c_where[j]
        /\ \A j \in Conts : c_state'[j] = IF j = k THEN "future" ELSE c_state[j]
        /\ \A d \in Channels : outcome'[d] = IF d = c THEN "unset" ELSE outcome[d]
        /\ queue' = queue /\ c_thread' = c_thread
    BY <2>u, <2>a, <2>b DEF FutureTypeOK
  <2> USE <2>a, <2>b, <2>v DEF Fresh, Target, StateOf
  <2>1. FutureTypeOK'
    BY <2>u DEF FutureTypeOK, States, Answers
  <2>2. Storage'
    BY DEF Storage, WaitingThreads, Queued, BackPointers, Answers
  <2>3. WaitingThreads'
    <3>1. ASSUME NEW j \in Conts, c_thread[j] # None
          PROVE  c_where'[j] # "unused" /\ f_use'[c_thread[j]] = "waiting"
      <4>1. /\ c_where[j] # "unused" /\ f_use[c_thread[j]] = "waiting" /\ c_thread[j] \in Futures
            /\ c_thread[j] # f /\ c_thread[j] # g /\ j # k
        BY <3>1 DEF WaitingThreads, FutureTypeOK
      <4> QED
        BY <4>1
    <3> QED
      BY <3>1 DEF WaitingThreads
  <2>4. OneWriter'
    BY DEF OneWriter
  <2>5. OneReader'
    BY DEF OneReader
  <2>6. Ends'
    BY DEF Ends, BackPointers, OwnedOnce
  <2>7. Unsettled'
    <3>1. ASSUME NEW m \in Locs, produces'[m] # None PROVE outcome'[produces'[m]] # "broken"
      BY <3>1 DEF Unsettled, FutureTypeOK
    <3>2. ASSUME NEW j \in Conts, c_where'[j] = "attached" PROVE c_state'[j] = "future"
      BY <3>2 DEF Unsettled
    <3> QED
      BY <3>1, <3>2 DEF Unsettled
  <2>8. ~Valueless => PromisesSettled'
    BY DEF PromisesSettled, Settled, FutureTypeOK, Answers
  <2>9. ~Valueless => FuturesSettled'
    BY DEF FuturesSettled, Settled, FutureTypeOK, Storage
  <2>10. ~Valueless => TasksSettled'
    BY DEF TasksSettled, Settled, FutureTypeOK, Storage
  <2>11. Owned'
    <3>1. ASSUME NEW j \in Conts, j # k PROVE \A m \in Locs : p_state'[m] = j <=> p_state[m] = j
      BY <3>1
    <3>2. p_state'[l] = k
      OBVIOUS
    <3>3. ASSUME NEW j \in Conts, j # k PROVE c_where'[j] = "attached" <=> \E m \in Locs : p_state'[m] = j
      BY <3>1, <3>3 DEF Owned
    <3> QED
      BY <3>2, <3>3 DEF Owned
  <2>12. OwnedOnce'
    BY DEF Owned, OwnedOnce, Queued
  <2>13. QueueHolds(queue, Queued)'
    BY <2>d
  <2>14. BackPointers'
    BY DEF BackPointers, WaitingThreads
  <2>15. WaitersHaveAPromise'
    BY DEF WaitersHaveAPromise, FutureTypeOK, Storage
  <2> QED
    BY <2>1, <2>2, <2>3, <2>4, <2>5, <2>6, <2>7, <2>8, <2>9, <2>10, <2>11, <2>12, <2>13, <2>14, <2>15 DEF Settled
<1>2. f_promise[f] \in Locs
  BY DEF Then, Chained, Attach, FutureTypeOK
<1> QED
  BY <1>1, <1>2 DEF Then

(* wait() attaches or queues a task that wakes the thread.                 *)
LEMMA WaitKeeps ==
  ASSUME FutureInv, NEW f \in Futures, NEW k \in Conts, Wait(f, k)
  PROVE  FutureInv'
<1> USE Apart DEF FutureInv, Wait, Attach, Available, StateOf, Target
<1>1. FutureTypeOK'
  BY DEF FutureTypeOK, States
<1>2. Storage'
  BY DEF Storage, FutureTypeOK, BackPointers
<1>3. WaitingThreads'
  BY DEF WaitingThreads, FutureTypeOK
<1>4. OneWriter'
  BY DEF OneWriter
<1>5. OneReader'
  BY DEF OneReader, Storage, FutureTypeOK
<1>6. Ends'
  BY DEF Ends, Storage, FutureTypeOK, BackPointers
<1>7. Unsettled'
  BY DEF Unsettled, FutureTypeOK
<1>8. ~Valueless => PromisesSettled'
  BY DEF PromisesSettled, Settled, FutureTypeOK, Storage, Answers, States, BackPointers
<1>9. ~Valueless => FuturesSettled'
  BY DEF FuturesSettled, Settled, FutureTypeOK, Storage, States, OneReader
<1>10. ~Valueless => TasksSettled'
  BY DEF TasksSettled, Settled, FutureTypeOK
<1>11. Owned'
  BY DEF Owned, FutureTypeOK, BackPointers
<1>12. OwnedOnce'
  BY DEF Owned, OwnedOnce
<1>13. QueueHolds(queue, Queued)'
  BY DEF QueueHolds, Queued
<1>14. BackPointers'
  BY DEF BackPointers, FutureTypeOK
<1>15. WaitersHaveAPromise'
  <2>1. \A x \in Futures \union Conts : consumes'[x] # None =>
           \E y \in Futures \union Conts : consumes'[x] = consumes[y]
    BY DEF FutureTypeOK
  <2>2. outcome' = outcome /\ produces' = produces
    OBVIOUS
  <2> HIDE DEF Wait
  <2> QED
    BY <2>1, <2>2 DEF WaitersHaveAPromise
<1> QED
  BY <1>1, <1>2, <1>3, <1>4, <1>5, <1>6, <1>7, <1>8, <1>9, <1>10, <1>11, <1>12, <1>13, <1>14, <1>15 DEF Settled

(* forward_to() of an unanswered future moves the task to the promise.     *)
LEMMA ForwardPendingKeeps ==
  ASSUME FutureInv, NEW f \in Futures, NEW p \in Promises, ForwardPending(f, p)
  PROVE  FutureInv'
<1> USE Apart DEF FutureInv, ForwardPending, Target, Forward, contVars, Available, Transfer, StateOf
<1>a. PICK l \in Locs : l = f_promise[f]
  BY DEF FutureTypeOK
<1>b. /\ p_future[l] = f /\ p_state[l] = "local" /\ p_local[l] = "future" /\ produces[l] # None
      /\ p_state[p] # "null" /\ produces[p] # None /\ l # p
  BY <1>a DEF BackPointers, Storage, FutureTypeOK, States
<1>1. FutureTypeOK'
  BY DEF FutureTypeOK, States, Answers
<1>2. Storage'
  <2>1. /\ p_state' = [p_state EXCEPT ![l] = p_state[p], ![p] = "null"]
        /\ p_local' = [p_local EXCEPT ![l] = p_local[p], ![p] = "invalid"]
        /\ p_future' = [p_future EXCEPT ![l] = p_future[p], ![p] = None]
        /\ produces' = [produces EXCEPT ![l] = produces[p], ![p] = None]
        /\ f_use' = [f_use EXCEPT ![f] = "unused"]
        /\ consumes' = [consumes EXCEPT ![f] = None]
        /\ UNCHANGED <<c_where, c_thread>>
    BY <1>a
  <2> HIDE DEF ForwardPending, Forward, Transfer
  <2> QED
    BY <1>b, <2>1 DEF Storage, FutureTypeOK
<1>3. WaitingThreads'
  BY DEF WaitingThreads
<1>4. OneWriter'
  BY DEF OneWriter, FutureTypeOK
<1>5. OneReader'
  BY DEF OneReader
<1>6. Ends'
  BY DEF Ends, FutureTypeOK, BackPointers
<1>7. Unsettled'
  BY DEF Unsettled, FutureTypeOK
<1>8. ~Valueless => PromisesSettled'
  BY DEF PromisesSettled, Settled, FutureTypeOK
<1>9. ~Valueless => FuturesSettled'
  BY DEF FuturesSettled, Settled, FutureTypeOK
<1>10. ~Valueless => TasksSettled'
  BY DEF TasksSettled, Settled
<1>11. Owned'
  BY DEF Owned, FutureTypeOK, Storage, BackPointers
<1>12. OwnedOnce'
  BY DEF OwnedOnce, FutureTypeOK
<1>13. QueueHolds(queue, Queued)'
  BY DEF Queued, Storage
<1>14. BackPointers'
  <2>1. /\ p_state' = [p_state EXCEPT ![l] = p_state[p], ![p] = "null"]
        /\ p_future' = [p_future EXCEPT ![l] = p_future[p], ![p] = None]
        /\ f_promise' = [g \in Futures |-> IF g = f THEN None
                                    ELSE IF g = p_future[p] THEN l ELSE f_promise[g]]
        /\ f_use' = [f_use EXCEPT ![f] = "unused"]
    BY <1>a
  <2> HIDE DEF ForwardPending, Forward, Transfer
  <2> QED
    BY <1>a, <1>b, <2>1 DEF BackPointers, FutureTypeOK
<1>15. WaitersHaveAPromise'
  BY DEF WaitersHaveAPromise, FutureTypeOK, Ends, BackPointers
<1> QED
  BY <1>1, <1>2, <1>3, <1>4, <1>5, <1>6, <1>7, <1>8, <1>9, <1>10, <1>11, <1>12, <1>13, <1>14, <1>15 DEF Settled

(* forward_to() of an answered future answers the promise's reader.        *)
LEMMA ForwardReadyKeeps ==
  ASSUME FutureInv, NEW f \in Futures, NEW p \in Promises, ForwardReady(f, p)
  PROVE  FutureInv'
<1> USE Apart DEF FutureInv
<1>t. Target(p) = "future" /\ p \in Locs /\ f_use[f] = "live" /\ StateOf(f) \in Answers
  BY DEF ForwardReady, Available
<1>n. p_state[p] # "null"
  BY <1>t DEF Target, Storage
<1> DEFINE answer == StateOf(f)
<1>b. Stored(answer) \in States /\ Stored(answer) # "invalid" /\ (~Valueless => Stored(answer) = answer)
  BY <1>t DEF Stored, States, Answers
<1>a. /\ produces[p] \in Channels /\ answer \in Answers /\ f_promise[f] # p
      /\ f_promise[f] \in Locs => p_future[f_promise[f]] = f /\ p_state[f_promise[f]] = "local"
  BY <1>t, <1>n DEF FutureTypeOK, Storage, StateOf, Target, BackPointers, Answers
<1>o. ~Valueless => outcome[consumes[f]] = answer
  BY <1>t, <1>a DEF Settled, FuturesSettled, PromisesSettled, StateOf, Ends, Storage, Answers, FutureTypeOK
<1>s. answer = IF f_promise[f] = None THEN f_local[f] ELSE p_local[f_promise[f]]
  BY DEF StateOf
<1> HIDE DEF answer
<1> USE <1>t, <1>s
<1>1. CASE p_state[p] = "local"
  <2> USE <1>1, <1>a, <1>b
  <2>a. /\ outcome' = [outcome EXCEPT ![produces[p]] = answer]
        /\ p_local' = [[l \in Locs |-> IF l = f_promise[f] THEN "invalid" ELSE p_local[l]]
                         EXCEPT ![p] = Stored(answer)]
        /\ p_future' = [l \in Locs |-> IF l = f_promise[f] THEN None ELSE p_future[l]]
        /\ UNCHANGED <<p_state, produces, c_state, c_where, queue, c_thread>>
        /\ f_promise' = [f_promise EXCEPT ![f] = None]
        /\ f_local' = [f_local EXCEPT ![f] = "invalid"]
        /\ f_use' = [f_use EXCEPT ![f] = "unused"]
        /\ consumes' = [consumes EXCEPT ![f] = None]
    <3> USE DEF ForwardReady, Answer
    <3>1. answer = StateOf(f) /\ p_state[p] \notin Conts
      BY DEF answer
    <3>2. Taken(f) = [l \in Locs |-> IF l = f_promise[f] THEN "invalid" ELSE p_local[l]]
      BY DEF Taken
    <3>3. Detached(f) = [l \in Locs |-> IF l = f_promise[f] THEN None ELSE p_future[l]]
      BY DEF Detached
    <3> QED
      BY <3>1, <3>2, <3>3
  <2> USE <2>a DEF Target
  <2>1. FutureTypeOK'
    BY DEF FutureTypeOK, States
  <2>2. Storage'
    BY DEF Storage, FutureTypeOK
  <2>3. WaitingThreads'
    BY DEF WaitingThreads
  <2>4. OneWriter'
    BY DEF OneWriter
  <2>5. OneReader'
    BY DEF OneReader
  <2>6. Ends'
    BY DEF Ends, FutureTypeOK, BackPointers
  <2>7. Unsettled'
    BY DEF Unsettled, Answers
  <2>8. ~Valueless => PromisesSettled'
    BY DEF PromisesSettled, Settled, FutureTypeOK, Answers, OneWriter
  <2>9. ~Valueless => FuturesSettled'
    BY DEF FuturesSettled, Settled, FutureTypeOK, BackPointers, Ends
  <2>10. ~Valueless => TasksSettled'
    BY DEF TasksSettled, PromisesSettled, Settled, Answers
  <2>11. Owned'
    BY DEF Owned
  <2>12. OwnedOnce'
    BY DEF OwnedOnce
  <2>13. QueueHolds(queue, Queued)'
    BY DEF Queued
  <2>14. BackPointers'
    BY DEF BackPointers, FutureTypeOK
  <2>15. WaitersHaveAPromise'
    BY DEF WaitersHaveAPromise
  <2> QED
    BY <2>1, <2>2, <2>3, <2>4, <2>5, <2>6, <2>7, <2>8, <2>9, <2>10, <2>11, <2>12, <2>13, <2>14, <2>15 DEF Settled
<1>2. ASSUME NEW k \in Conts, p_state[p] = k PROVE FutureInv'
  <2> USE <1>2, <1>a, <1>b
  <2>a. /\ outcome' = [outcome EXCEPT ![produces[p]] = answer]
        /\ c_state' = [c_state EXCEPT ![k] = Stored(answer)]
        /\ c_where' = [c_where EXCEPT ![k] = "queued"]
        /\ queue' = <<k>> \o queue
        /\ p_state' = [p_state EXCEPT ![p] = "null"]
        /\ p_local' = [[l \in Locs |-> IF l = f_promise[f] THEN "invalid" ELSE p_local[l]]
                         EXCEPT ![p] = "invalid"]
        /\ p_future' = [[l \in Locs |-> IF l = f_promise[f] THEN None ELSE p_future[l]]
                         EXCEPT ![p] = None]
        /\ produces' = [produces EXCEPT ![p] = None]
        /\ f_promise' = [f_promise EXCEPT ![f] = None]
        /\ f_local' = [f_local EXCEPT ![f] = "invalid"]
        /\ f_use' = [f_use EXCEPT ![f] = "unused"]
        /\ consumes' = [consumes EXCEPT ![f] = None]
        /\ UNCHANGED c_thread
    BY DEF ForwardReady, Answer, Taken, Detached, answer
  <2>b. c_where[k] = "attached"
    BY DEF Owned
  <2>c. Queued' = Queued \union {k} /\ k \notin Queued
    BY <2>a, <2>b DEF Queued, FutureTypeOK
  <2>d. queue' \in Seq(Conts) /\ QueueHolds(queue', Queued')
    BY <2>a, <2>c, TaskPrepended DEF FutureTypeOK
  <2> USE <2>a, <2>b, <2>d DEF Target
  <2>1. FutureTypeOK'
    BY DEF FutureTypeOK, States
  <2>2. Storage'
    BY DEF Storage, FutureTypeOK
  <2>3. WaitingThreads'
    BY DEF WaitingThreads
  <2>4. OneWriter'
    BY DEF OneWriter
  <2>5. OneReader'
    BY DEF OneReader
  <2>6. Ends'
    BY DEF Ends, FutureTypeOK, BackPointers
  <2>7. Unsettled'
    BY DEF Unsettled, FutureTypeOK, Answers
  <2>8. ~Valueless => PromisesSettled'
    BY DEF PromisesSettled, Settled, FutureTypeOK, Storage, OneWriter
  <2>9. ~Valueless => FuturesSettled'
    BY DEF FuturesSettled, Settled, FutureTypeOK, Storage, Answers, Ends
  <2>10. ~Valueless => TasksSettled'
    BY DEF TasksSettled, Settled, FutureTypeOK, Ends
  <2>11. Owned'
    BY DEF Owned, OwnedOnce, FutureTypeOK
  <2>12. OwnedOnce'
    BY DEF OwnedOnce
  <2>13. QueueHolds(queue, Queued)'
    OBVIOUS
  <2>14. BackPointers'
    BY DEF BackPointers, FutureTypeOK
  <2>15. WaitersHaveAPromise'
    BY DEF WaitersHaveAPromise, FutureTypeOK, OneReader, Answers
  <2> QED
    BY <2>1, <2>2, <2>3, <2>4, <2>5, <2>6, <2>7, <2>8, <2>9, <2>10, <2>11, <2>12, <2>13, <2>14, <2>15 DEF Settled
<1> QED
  BY <1>1, <1>2, <1>t, <1>n DEF FutureTypeOK

(* A task that runs answers the promise it holds.                          *)
LEMMA RunAndAnswerKeeps ==
  ASSUME FutureInv, NEW k \in Conts, NEW answer \in Answers, NEW urgent \in BOOLEAN, RunAndAnswer(k, answer, urgent)
  PROVE  FutureInv'
<1> USE Apart DEF FutureInv
<1>t. /\ queue # <<>> /\ k = Head(queue) /\ c_thread[k] = None
  BY DEF RunAndAnswer, Running
<1>q. /\ c_where[k] = "queued" /\ k \in Queued
      /\ Tail(queue) \in Seq(Conts) /\ QueueHolds(Tail(queue), Queued \ {k})
  <2>1. queue \in Seq(Conts) /\ QueueHolds(queue, Queued)
    BY DEF FutureTypeOK
  <2>2. k \in Queued /\ Tail(queue) \in Seq(Conts) /\ QueueHolds(Tail(queue), Queued \ {k})
    BY <1>t, <2>1, TaskTaken
  <2> QED
    BY <2>2 DEF Queued
<1>n. p_state[k] # "null" /\ produces[k] \in Channels
  BY <1>t, <1>q DEF FutureTypeOK, Storage
<1>b. Stored(answer) \in States /\ Stored(answer) # "invalid" /\ (~Valueless => Stored(answer) = answer)
  BY DEF Stored, States, Answers
<1> USE <1>t, <1>q, <1>n, <1>b
<1>1. CASE p_state[k] = "local"
  <2> USE <1>1
  <2>a. /\ outcome' = [outcome EXCEPT ![produces[k]] = answer]
        /\ p_state' = [p_state EXCEPT ![k] = "null"]
        /\ p_local' = [p_local EXCEPT ![k] = "invalid"]
        /\ p_future' = [p_future EXCEPT ![k] = None]
        /\ produces' = [produces EXCEPT ![k] = None]
        /\ consumes' = [consumes EXCEPT ![k] = None]
        /\ UNCHANGED <<f_use, c_thread>>
        /\ f_promise' = [f \in Futures |-> IF f_promise[f] = k THEN None ELSE f_promise[f]]
        /\ f_local' = [f \in Futures |-> IF f_promise[f] = k THEN Stored(answer) ELSE f_local[f]]
        /\ c_where' = [c_where EXCEPT ![k] = "unused"]
        /\ c_state' = [c_state EXCEPT ![k] = "invalid"]
        /\ queue' = Tail(queue)
    BY DEF RunAndAnswer, Retire
  <2>c. Queued' = Queued \ {k}
    BY <2>a DEF Queued, FutureTypeOK
  <2> USE <2>a DEF Target, StateOf
  <2>1. FutureTypeOK'
    BY DEF FutureTypeOK, States
  <2>2. Storage'
    BY DEF Storage, FutureTypeOK
  <2>3. WaitingThreads'
    BY DEF WaitingThreads
  <2>4. OneWriter'
    BY DEF OneWriter
  <2>5. OneReader'
    BY DEF OneReader
  <2>6. Ends'
    BY DEF Ends, Storage, FutureTypeOK, Owned
  <2>7. Unsettled'
    BY DEF Unsettled, Answers
  <2>8. ~Valueless => PromisesSettled'
    BY DEF PromisesSettled, Settled, FutureTypeOK, OneWriter
  <2>9. ~Valueless => FuturesSettled'
    BY DEF FuturesSettled, Settled, FutureTypeOK, BackPointers, Ends
  <2>10. ~Valueless => TasksSettled'
    BY DEF TasksSettled, Settled, FutureTypeOK, Ends
  <2>11. Owned'
    BY DEF Owned
  <2>12. OwnedOnce'
    BY DEF OwnedOnce
  <2>13. QueueHolds(queue, Queued)'
    BY <2>c
  <2>14. BackPointers'
    BY DEF BackPointers, FutureTypeOK
  <2>15. WaitersHaveAPromise'
    BY DEF WaitersHaveAPromise, FutureTypeOK, OneReader, Answers
  <2> QED
    BY <2>1, <2>2, <2>3, <2>4, <2>5, <2>6, <2>7, <2>8, <2>9, <2>10, <2>11, <2>12, <2>13, <2>14, <2>15 DEF Settled
<1>2. ASSUME NEW next \in Conts, p_state[k] = next PROVE FutureInv'
  <2> USE <1>2
  <2>a. /\ outcome' = [outcome EXCEPT ![produces[k]] = answer]
        /\ p_state' = [p_state EXCEPT ![k] = "null"]
        /\ p_local' = [p_local EXCEPT ![k] = "invalid"]
        /\ p_future' = [p_future EXCEPT ![k] = None]
        /\ produces' = [produces EXCEPT ![k] = None]
        /\ consumes' = [consumes EXCEPT ![k] = None]
        /\ UNCHANGED <<f_use, c_thread>>
        /\ c_where' = [c_where EXCEPT ![k] = "unused", ![next] = "queued"]
        /\ c_state' = [c_state EXCEPT ![k] = "invalid", ![next] = Stored(answer)]
        /\ queue' = IF urgent THEN <<next>> \o Tail(queue) ELSE Append(Tail(queue), next)
        /\ UNCHANGED <<f_promise, f_local>>
    BY DEF RunAndAnswer
  <2>b. c_where[next] = "attached" /\ next # k
    BY DEF Owned
  <2>c. Queued' = (Queued \ {k}) \union {next} /\ next \notin Queued
    BY <2>a, <2>b DEF Queued, FutureTypeOK
  <2>d. queue' \in Seq(Conts) /\ QueueHolds(queue', Queued')
    <3> DEFINE S == Queued \ {k}
    <3>1. next \notin S
      BY <2>c
    <3> HIDE DEF S
    <3>2. /\ <<next>> \o Tail(queue) \in Seq(Conts) /\ QueueHolds(<<next>> \o Tail(queue), S \union {next})
          /\ Append(Tail(queue), next) \in Seq(Conts) /\ QueueHolds(Append(Tail(queue), next), S \union {next})
      BY <3>1, TaskPrepended, TaskAppended DEF S
    <3> QED
      BY <2>a, <2>c, <3>2 DEF S
  <2> USE <2>a, <2>b, <2>d DEF Target, StateOf
  <2>1. FutureTypeOK'
    BY DEF FutureTypeOK, States, Answers
  <2>2. Storage'
    BY DEF Storage, FutureTypeOK
  <2>3. WaitingThreads'
    BY DEF WaitingThreads, FutureTypeOK
  <2>4. OneWriter'
    BY DEF OneWriter
  <2>5. OneReader'
    BY DEF OneReader
  <2>6. Ends'
    BY DEF Ends, FutureTypeOK, Owned, OwnedOnce
  <2>7. Unsettled'
    BY DEF Unsettled, FutureTypeOK, Answers, Owned
  <2>8. ~Valueless => PromisesSettled'
    BY DEF PromisesSettled, Settled, FutureTypeOK, OneWriter
  <2>9. ~Valueless => FuturesSettled'
    BY DEF FuturesSettled, Settled, Storage, Ends
  <2>10. ~Valueless => TasksSettled'
    BY DEF TasksSettled, Settled, FutureTypeOK, Ends
  <2>11. Owned'
    BY DEF Owned, OwnedOnce, FutureTypeOK, BackPointers
  <2>12. OwnedOnce'
    BY DEF OwnedOnce
  <2>13. QueueHolds(queue, Queued)'
    OBVIOUS
  <2>14. BackPointers'
    BY DEF BackPointers
  <2>15. WaitersHaveAPromise'
    BY DEF WaitersHaveAPromise, FutureTypeOK, Answers
  <2> QED
    BY <2>1, <2>2, <2>3, <2>4, <2>5, <2>6, <2>7, <2>8, <2>9, <2>10, <2>11, <2>12, <2>13, <2>14, <2>15 DEF Settled
<1> QED
  BY <1>1, <1>2, <1>n DEF FutureTypeOK

(* A task whose function returns a future passes its promise on to it.     *)
LEMMA RunAndForwardKeeps ==
  ASSUME FutureInv, NEW k \in Conts, NEW f \in Futures, RunAndForward(k, f)
  PROVE  FutureInv'
<1> USE Apart DEF FutureInv
<1>t. /\ queue # <<>> /\ k = Head(queue) /\ c_thread[k] = None
  BY DEF RunAndForward, Running
<1>q. /\ c_where[k] = "queued" /\ k \in Queued
      /\ Tail(queue) \in Seq(Conts) /\ QueueHolds(Tail(queue), Queued \ {k})
  <2>1. queue \in Seq(Conts) /\ QueueHolds(queue, Queued)
    BY DEF FutureTypeOK
  <2>2. k \in Queued /\ Tail(queue) \in Seq(Conts) /\ QueueHolds(Tail(queue), Queued \ {k})
    BY <1>t, <2>1, TaskTaken
  <2> QED
    BY <2>2 DEF Queued
<1>n. p_state[k] # "null" /\ produces[k] \in Channels
  BY <1>t, <1>q DEF FutureTypeOK, Storage
<1> USE <1>t, <1>q, <1>n
<1>1. ASSUME NEW l \in Locs, l = f_promise[f] PROVE FutureInv'
  <2> USE <1>1
  <2>a. /\ p_state' = [p_state EXCEPT ![l] = p_state[k], ![k] = "null"]
        /\ p_local' = [p_local EXCEPT ![l] = p_local[k], ![k] = "invalid"]
        /\ p_future' = [p_future EXCEPT ![l] = p_future[k], ![k] = None]
        /\ produces' = [produces EXCEPT ![l] = produces[k], ![k] = None]
        /\ f_promise' = [g \in Futures |-> IF g = f THEN None
                                    ELSE IF g = p_future[k] THEN l ELSE f_promise[g]]
        /\ f_local' = [f_local EXCEPT ![f] = "invalid"]
        /\ f_use' = [f_use EXCEPT ![f] = "unused"]
        /\ c_where' = [c_where EXCEPT ![k] = "unused"]
        /\ c_state' = [c_state EXCEPT ![k] = "invalid"]
        /\ queue' = Tail(queue)
        /\ consumes' = [consumes EXCEPT ![k] = None, ![f] = None]
        /\ UNCHANGED <<c_thread, outcome>>
    BY DEF RunAndForward, Retire, Forward, Transfer
  <2>b. /\ f_use[f] = "live" /\ l # k
        /\ p_future[l] = f /\ p_state[l] = "local" /\ p_local[l] = "future" /\ produces[l] # None
    BY DEF RunAndForward, Forward, BackPointers, Storage, FutureTypeOK, States, Available, StateOf
  <2>c. Queued' = Queued \ {k}
    BY <2>a DEF Queued, FutureTypeOK
  <2>v. /\ \A x \in Futures \union Conts : consumes'[x] = IF x = f \/ x = k THEN None ELSE consumes[x]
        /\ \A m \in Locs : p_state'[m] = IF m = k THEN "null" ELSE IF m = l THEN p_state[k] ELSE p_state[m]
        /\ \A m \in Locs : p_local'[m] = IF m = k THEN "invalid" ELSE IF m = l THEN p_local[k] ELSE p_local[m]
        /\ \A m \in Locs : p_future'[m] = IF m = k THEN None ELSE IF m = l THEN p_future[k] ELSE p_future[m]
        /\ \A m \in Locs : produces'[m] = IF m = k THEN None ELSE IF m = l THEN produces[k] ELSE produces[m]
        /\ \A h \in Futures : f_promise'[h] = IF h = f THEN None ELSE IF h = p_future[k] THEN l ELSE f_promise[h]
        /\ \A h \in Futures : f_use'[h] = IF h = f THEN "unused" ELSE f_use[h]
        /\ \A h \in Futures : f_local'[h] = IF h = f THEN "invalid" ELSE f_local[h]
        /\ \A j \in Conts : c_where'[j] = IF j = k THEN "unused" ELSE c_where[j]
        /\ \A j \in Conts : c_state'[j] = IF j = k THEN "invalid" ELSE c_state[j]
        /\ queue' = Tail(queue) /\ c_thread' = c_thread /\ outcome' = outcome
    BY <2>a, <2>b DEF FutureTypeOK
  <2> USE <2>b, <2>v DEF Target, StateOf
  <2>1. FutureTypeOK'
    <3>1. p_future' \in [Locs -> Futures \union {None}]
      BY <2>a DEF FutureTypeOK
    <3>2. p_state' \in [Locs -> Conts \union {"null", "local"}]
      BY <2>a DEF FutureTypeOK, States
    <3>3. p_local' \in [Locs -> States]
      BY <2>a DEF FutureTypeOK, States
    <3>4. f_promise' \in [Futures -> Locs \union {None}] /\ f_local' \in [Futures -> States]
      BY <2>a DEF FutureTypeOK, States
    <3>5. f_use' \in [Futures -> {"unused", "live", "waiting"}]
      BY <2>a DEF FutureTypeOK
    <3>6. c_where' \in [Conts -> {"unused", "attached", "queued"}] /\ c_state' \in [Conts -> States]
      BY <2>a DEF FutureTypeOK, States
    <3>7. queue' \in Seq(Conts) /\ outcome' = outcome /\ c_thread' = c_thread
      BY <2>a
    <3>8. produces' \in [Locs -> Channels \union {None}]
      BY <2>a DEF FutureTypeOK, States
    <3>9. consumes' \in [Futures \union Conts -> Channels \union {None}]
      BY <2>a DEF FutureTypeOK
    <3> QED
      BY <3>1, <3>2, <3>3, <3>4, <3>5, <3>6, <3>7, <3>8, <3>9 DEF FutureTypeOK
  <2>2. Storage'
    <3>1. ASSUME NEW m \in Locs
          PROVE  /\ p_state'[m] = "null" <=> produces'[m] = None
                 /\ p_state'[m] # "local" => p_local'[m] = "invalid"
                 /\ p_local'[m] = "invalid" => p_future'[m] = None
      BY DEF Storage
    <3>2. \A h \in Futures : f_use'[h] = "live" <=> consumes'[h] # None
      BY DEF Storage
    <3>3. ASSUME NEW j \in Conts
          PROVE  /\ c_where'[j] = "unused" <=> consumes'[j] = None
                 /\ p_state'[j] # "null" <=> c_where'[j] # "unused" /\ c_thread'[j] = None
      BY DEF Storage
    <3> QED
      BY <3>1, <3>2, <3>3 DEF Storage
  <2>3. WaitingThreads'
    BY DEF WaitingThreads, FutureTypeOK
  <2>4. OneWriter'
    BY DEF OneWriter
  <2>5. OneReader'
    BY DEF OneReader
  <2>6. Ends'
    BY DEF Ends, OneWriter, OneReader, FutureTypeOK, Owned
  <2>7. Unsettled'
    BY DEF Unsettled, FutureTypeOK, Storage, Answers, Owned
  <2>8. ~Valueless => PromisesSettled'
    BY DEF PromisesSettled, Settled
  <2>9. ~Valueless => FuturesSettled'
    BY DEF Settled, FuturesSettled
  <2>10. ~Valueless => TasksSettled'
    BY DEF Settled, TasksSettled
  <2>11. Owned'
    BY DEF Owned
  <2>12. OwnedOnce'
    BY DEF OwnedOnce
  <2>13. QueueHolds(queue, Queued)'
    BY <2>c
  <2>14. BackPointers'
    <3>1. ASSUME NEW h \in Futures, NEW m \in Locs PROVE f_promise'[h] = m <=> p_future'[m] = h
      BY DEF BackPointers
    <3>2. ASSUME NEW h \in Futures, f_promise'[h] # None PROVE f_use'[h] = "live"
      BY <3>2 DEF BackPointers
    <3>3. ASSUME NEW m \in Locs, p_future'[m] # None PROVE p_state'[m] = "local"
      BY <3>3 DEF BackPointers
    <3> QED
      BY <3>1, <3>2, <3>3 DEF BackPointers
  <2>15. WaitersHaveAPromise'
    BY DEF WaitersHaveAPromise, Ends, BackPointers
  <2> QED
    BY <2>1, <2>2, <2>3, <2>4, <2>5, <2>6, <2>7, <2>8, <2>9, <2>10, <2>11, <2>12, <2>13, <2>14, <2>15 DEF Settled
<1>2. f_promise[f] \in Locs
  BY DEF RunAndForward, Forward, FutureTypeOK
<1> QED
  BY <1>1, <1>2

(* A task that wakes a thread lets it read the answer.                     *)
LEMMA RunAndResumeKeeps ==
  ASSUME FutureInv, NEW k \in Conts, RunAndResume(k)
  PROVE  FutureInv'
<1> USE Apart DEF FutureInv
<1>t. /\ queue # <<>> /\ k = Head(queue) /\ c_thread[k] # None
  BY DEF RunAndResume, Running
<1>q. /\ c_where[k] = "queued" /\ k \in Queued
      /\ Tail(queue) \in Seq(Conts) /\ QueueHolds(Tail(queue), Queued \ {k})
  <2>1. queue \in Seq(Conts) /\ QueueHolds(queue, Queued)
    BY DEF FutureTypeOK
  <2>2. k \in Queued /\ Tail(queue) \in Seq(Conts) /\ QueueHolds(Tail(queue), Queued \ {k})
    BY <1>t, <2>1, TaskTaken
  <2> QED
    BY <2>2 DEF Queued
<1> USE <1>t, <1>q DEF RunAndResume, Retire, promiseVars, StateOf
<1>c. Queued' = Queued \ {k}
  BY DEF Queued, FutureTypeOK
<1>1. FutureTypeOK'
  BY DEF FutureTypeOK, States
<1>2. Storage'
  BY DEF Storage, FutureTypeOK, WaitingThreads
<1>3. WaitingThreads'
  BY DEF WaitingThreads, FutureTypeOK
<1>4. OneWriter'
  BY DEF OneWriter
<1>5. OneReader'
  BY DEF OneReader
<1>6. Ends'
  BY DEF Ends, Owned
<1>7. Unsettled'
  BY DEF Unsettled
<1>8. ~Valueless => PromisesSettled'
  BY DEF PromisesSettled, Settled
<1>9. ~Valueless => FuturesSettled'
  BY DEF FuturesSettled, Settled, FutureTypeOK
<1>10. ~Valueless => TasksSettled'
  BY DEF TasksSettled, Settled, FutureTypeOK
<1>11. Owned'
  BY DEF Owned
<1>12. OwnedOnce'
  BY DEF OwnedOnce
<1>13. QueueHolds(queue, Queued)'
  BY <1>c
<1>14. BackPointers'
  BY DEF BackPointers, WaitingThreads
<1>15. WaitersHaveAPromise'
  BY DEF WaitersHaveAPromise
<1> QED
  BY <1>1, <1>2, <1>3, <1>4, <1>5, <1>6, <1>7, <1>8, <1>9, <1>10, <1>11, <1>12, <1>13, <1>14, <1>15 DEF Settled

(* A step that changes nothing.                                            *)
LEMMA StutterKeeps == FutureInv /\ UNCHANGED vars => FutureInv'
  BY DEF FutureInv, vars, promiseVars, futureVars, contVars, FutureTypeOK, Storage, WaitingThreads,
         OneWriter, OneReader, Ends, Unsettled, Settled, PromisesSettled, FuturesSettled,
         TasksSettled, Owned, OwnedOnce, QueueHolds, Queued, BackPointers,
         WaitersHaveAPromise, StateOf

(* Every step of the module keeps the invariant.                           *)
LEMMA FutureSteps == FutureInv /\ [Next]_vars => FutureInv'
<1> SUFFICES ASSUME FutureInv, Next PROVE FutureInv'
  BY StutterKeeps
<1>1. CASE \E p \in Promises :
             \/ NewPromise(p) \/ DestroyPromise(p)
             \/ \E q \in Promises : MovePromise(p, q)
             \/ \E answer \in Answers : Set(p, answer)
             \/ \E f \in Futures : \/ GetFuture(p, f)
                                  \/ ForwardPending(f, p) \/ ForwardReady(f, p)
  BY <1>1, NewPromiseKeeps, DestroyPromiseKeeps, MovePromiseKeeps, SetKeeps, GetFutureKeeps,
     ForwardPendingKeeps, ForwardReadyKeeps
<1>2. CASE \E f \in Futures :
             \/ DestroyFuture(f) \/ Take(f)
             \/ \E answer \in Answers : MakeReady(f, answer)
             \/ \E g \in Futures : MoveFuture(f, g)
             \/ \E k \in Conts : Wait(f, k) \/ \E g \in Futures : Then(f, g, k)
  BY <1>2, DestroyFutureKeeps, TakeKeeps, MakeReadyKeeps, MoveFutureKeeps, WaitKeeps, ThenKeeps
<1>3. CASE \E k \in Conts :
             \/ RunAndResume(k)
             \/ \E f \in Futures : RunAndForward(k, f)
             \/ \E answer \in Answers, urgent \in BOOLEAN : RunAndAnswer(k, answer, urgent)
  BY <1>3, RunAndResumeKeeps, RunAndForwardKeeps, RunAndAnswerKeeps
<1> QED
  BY <1>1, <1>2, <1>3 DEF Next

(* The inductive invariant holds in every behaviour of the module.         *)
THEOREM FutureSafe == Spec => []FutureInv
<1>1. Init => FutureInv
  BY InitInv
<1>2. FutureInv /\ [Next]_vars => FutureInv'
  BY FutureSteps
<1> QED
  BY <1>1, <1>2, PTL DEF Spec
-----------------------------------------------------------------------------
(* The variables of the model keep their types.                            *)
THEOREM FutureTypesCorrect == Spec => []FutureTypeOK
<1>1. FutureInv => FutureTypeOK
  BY DEF FutureInv
<1> QED
  BY <1>1, FutureSafe, PTL

(* However many promises, futures and continuations there are, _promise    *)
(* and _future are inverse of each other (migrated(), abandoned(),         *)
(* forward_to() and get_available_state() leave no pointer behind).        *)
THEOREM PointersMatch == Spec => []BackPointers
<1>1. FutureInv => BackPointers
  BY DEF FutureInv
<1> QED
  BY <1>1, FutureSafe, PTL

(* A task is owned by one promise or queued once, for any number of tasks: *)
(* make_ready() and run_tasks() pass it on exactly once.                   *)
THEOREM TasksOwnedOnce == Spec => []OneOwner
<1>1. FutureInv => OneOwner
  <2> SUFFICES ASSUME FutureInv PROVE OneOwner
    OBVIOUS
  <2>1. \A k \in Conts : c_where[k] = "queued" <=> \E i \in 1..Len(queue) : queue[i] = k
    BY DEF FutureInv, QueueHolds, Queued
  <2>2. \A i, j \in 1..Len(queue) : queue[i] = queue[j] => i = j
    BY DEF FutureInv, QueueHolds
  <2> QED
    BY <2>1, <2>2 DEF FutureInv, OneOwner, Owned, OwnedOnce
<1> QED
  BY <1>1, FutureSafe, PTL

(* With values (promise<T>, T not empty) a reader sees its channel's       *)
(* answer as soon as set_value() or set_exception() gave it, and never     *)
(* before (future.h:312-314).  Of future<> it is false: see MCFutureVoid.  *)
THEOREM AnswerReachesReader ==
  ASSUME ~Valueless
  PROVE  Spec => []ReadyWhenSet
<1>1. FutureInv => ReadyWhenSet
  <2> SUFFICES ASSUME FutureInv PROVE ReadyWhenSet
    OBVIOUS
  <2>1. ASSUME NEW f \in Futures, f_use[f] = "live"
        PROVE  StateOf(f) = IF outcome[consumes[f]] \in Answers
                            THEN outcome[consumes[f]] ELSE "future"
    <3>1. CASE f_promise[f] = None
      BY <2>1, <3>1 DEF FutureInv, Settled, FuturesSettled, StateOf
    <3>2. CASE f_promise[f] # None
      <4>1. PICK l \in Locs : l = f_promise[f]
        BY <3>2 DEF FutureInv, FutureTypeOK
      <4>2. /\ p_future[l] = f /\ p_state[l] = "local" /\ p_local[l] # "invalid"
            /\ produces[l] # None /\ consumes[f] = produces[l]
        BY <4>1, Apart DEF FutureInv, BackPointers, Storage, Ends
      <4> QED
        BY <4>1, <4>2, Apart DEF FutureInv, Settled, PromisesSettled, StateOf, FutureTypeOK, States, Answers
    <3> QED
      BY <3>1, <3>2
  <2>2. ASSUME NEW k \in Conts, c_where[k] # "unused"
        PROVE  /\ c_where[k] = "queued" <=> outcome[consumes[k]] \in Answers
               /\ c_where[k] = "queued" => c_state[k] = outcome[consumes[k]]
    <3>1. CASE c_where[k] = "queued"
      BY <3>1 DEF FutureInv, Settled, TasksSettled
    <3>2. CASE c_where[k] = "attached"
      <4>1. PICK l \in Locs : p_state[l] = k
        BY <3>2 DEF FutureInv, Owned
      <4>2. produces[l] # None /\ outcome[produces[l]] = "unset"
        BY <4>1, Apart DEF FutureInv, Storage, Settled, PromisesSettled
      <4>3. consumes[k] = produces[l]
        BY <4>1, <4>2 DEF FutureInv, Ends
      <4> QED
        BY <3>2, <4>2, <4>3 DEF Answers
    <3> QED
      BY <2>2, <3>1, <3>2 DEF FutureInv, FutureTypeOK
  <2> QED
    BY <2>1, <2>2 DEF ReadyWhenSet
<1> QED
  BY <1>1, FutureSafe, PTL

(* A reader whose channel was neither answered nor broken has a promise    *)
(* that can still answer it, whoever holds it: forward_to() and then()     *)
(* never leave a chain without its writer.                                 *)
THEOREM SomebodyCanAnswer == Spec => []WaitersHaveAPromise
<1>1. FutureInv => WaitersHaveAPromise
  BY DEF FutureInv
<1> QED
  BY <1>1, FutureSafe, PTL
=============================================================================
