---------------------------- MODULE FibersProofs ----------------------------
(***************************************************************************)
(* What the futures of one reactor thread are put together to, and its     *)
(* threads, for any number of requests, of calls, of peers, of links, of   *)
(* items and of threads. The gate, which is closed once, by the last       *)
(* request to leave; the loops, whose action never runs twice at a time    *)
(* and which are answered once; shared_future, whose peers are answered as *)
(* the original is; the chain of continuations, where a failure gets to    *)
(* the next link that takes failures; the combinators, which answer once,  *)
(* when every item is through; and the threads, which hand the processor   *)
(* back down the stack of their switches. Each part has the inductive      *)
(* invariant its property needs, and one lemma for each action.            *)
(***************************************************************************)
EXTENDS Gate, Loops, SharedFuture, Handlers, Fork, Threads, ExpiringFifoProofs

(* The gate.                                                               *)
GateInv ==
    /\ closed \in BOOLEAN
    /\ req \in [Requests -> {"out", "inside", "finishing", "leaked"}]
    /\ ClosedByTheLast

(* The set of requests in progress is finite and its size is a number.     *)
LEMMA InProgressFinite ==
    /\ IsFiniteSet(InProgress) /\ Cardinality(InProgress) \in Nat
    /\ Cardinality(InProgress) = 0 <=> InProgress = {}
<1>1. IsFiniteSet(InProgress)
  BY RequestsAssumption, FS_Subset DEF InProgress
<1> QED
  BY <1>1, FS_CardinalityType, FS_EmptySet

(* A request that enters is one more in progress.                          *)
LEMMA OneMore ==
    ASSUME GateInv, NEW r \in Requests, req[r] = "out",
           NEW s \in {"inside", "leaked"}, req' = [req EXCEPT ![r] = s]
    PROVE  /\ InProgress' # {}
           /\ Cardinality(InProgress') = Cardinality(InProgress) + 1
<1>1. InProgress' = InProgress \cup {r} /\ r \notin InProgress
  BY DEF InProgress, GateInv
<1> QED
  BY <1>1, InProgressFinite, FS_AddElement

(* A request that leaves is one less.                                      *)
LEMMA OneLess ==
    ASSUME GateInv, NEW r \in Requests, req[r] # "out",
           req' = [req EXCEPT ![r] = "out"]
    PROVE  /\ InProgress # {} /\ IsFiniteSet(InProgress')
           /\ Cardinality(InProgress') = Cardinality(InProgress) - 1
           /\ Cardinality(InProgress') \in Nat
           /\ Cardinality(InProgress') = 0 <=> InProgress' = {}
<1>1. InProgress' = InProgress \ {r} /\ r \in InProgress
  BY DEF InProgress, GateInv
<1>2. IsFiniteSet(InProgress')
  BY <1>1, InProgressFinite, FS_RemoveElement
<1> QED
  BY <1>1, <1>2, InProgressFinite, FS_RemoveElement, FS_CardinalityType, FS_EmptySet

(* The gate starts open and empty.                                         *)
LEMMA GateStarts == GateInit => GateInv
<1> SUFFICES ASSUME GateInit PROVE GateInv
  OBVIOUS
<1>1. InProgress = {}
  BY DEF GateInit, InProgress
<1>2. Cardinality({}) = 0
  BY FS_EmptySet
<1> QED
  BY <1>1, <1>2 DEF GateInit, GateInv, ClosedByTheLast

(* Leaving, from a call of leave() or from finally(), keeps the invariant. *)
LEMMA LeavesKeeps ==
    ASSUME GateInv, NEW r \in Requests, req[r] # "out", Leaves(r)
    PROVE  GateInv'
<1>1. /\ InProgress # {}
      /\ Cardinality(InProgress') = Cardinality(InProgress) - 1
      /\ Cardinality(InProgress') \in Nat
      /\ Cardinality(InProgress') = 0 <=> InProgress' = {}
  BY OneLess DEF Leaves
<1>2. count' = Cardinality(InProgress')
  BY <1>1, InProgressFinite DEF Leaves, GateInv, ClosedByTheLast
<1>3. sets' = IF closed' /\ InProgress' = {} THEN 1 ELSE 0
  BY <1>1, <1>2 DEF Leaves, GateInv, ClosedByTheLast
<1> QED
  BY <1>2, <1>3 DEF Leaves, GateInv, ClosedByTheLast

(* Every step keeps the invariant.                                         *)
LEMMA GateKeeps == GateInv /\ [GateNext]_gvars => GateInv'
<1> SUFFICES ASSUME GateInv, [GateNext]_gvars PROVE GateInv'
  OBVIOUS
<1>1. CASE Close
  <2>1. InProgress' = InProgress
    BY <1>1 DEF Close, InProgress
  <2>2. count = 0 <=> InProgress = {}
    BY InProgressFinite DEF GateInv, ClosedByTheLast
  <2> QED
    BY <1>1, <2>1, <2>2 DEF Close, GateInv, ClosedByTheLast
<1>2. ASSUME NEW r \in Requests, Enter(r) \/ FunctionThrows(r)
      PROVE  GateInv'
  <2>1. PICK s \in {"inside", "leaked"} :
          req[r] = "out" /\ req' = [req EXCEPT ![r] = s]
    BY <1>2 DEF Enter, FunctionThrows
  <2>2. InProgress' # {} /\ Cardinality(InProgress') = Cardinality(InProgress) + 1
    BY <2>1, OneMore
  <2> QED
    BY <1>2, <2>1, <2>2 DEF Enter, FunctionThrows, GateInv, ClosedByTheLast
<1>3. ASSUME NEW r \in Requests, Leave(r) \/ LeaveFromFinally(r)
      PROVE  GateInv'
  <2>1. req[r] # "out" /\ Leaves(r)
    BY <1>3 DEF Leave, LeaveFromFinally
  <2> QED
    BY <2>1, LeavesKeeps
<1>4. ASSUME NEW r \in Requests, Finish(r)
      PROVE  GateInv'
  <2>1. InProgress' = InProgress
    BY <1>4 DEF Finish, InProgress, GateInv
  <2> QED
    BY <1>4, <2>1 DEF Finish, GateInv, ClosedByTheLast
<1>5. CASE UNCHANGED gvars
  BY <1>5 DEF gvars, GateInv, ClosedByTheLast, InProgress
<1> QED
  BY <1>1, <1>2, <1>3, <1>4, <1>5 DEF GateNext

(* gate.h:57-98: whatever the order of enter(), leave(), with_gate() and  *)
(* close(), the closed future is answered once, by the last to leave.      *)
THEOREM GateClosedOnce == GateSpec => []ClosedByTheLast
<1>1. GateInv => ClosedByTheLast
  BY DEF GateInv
<1> QED
  BY <1>1, GateStarts, GateKeeps, PTL DEF GateSpec

(* Once answered, the future is never answered again, and nobody enters    *)
(* the gate its owner may destroy.                                         *)
THEOREM QuietForGood ==
    GateSpec => [][sets = 1 => sets' = 1 /\ InProgress' = {}]_gvars
<1>1. GateInv /\ [GateNext]_gvars => [sets = 1 => sets' = 1 /\ InProgress' = {}]_gvars
  <2> SUFFICES ASSUME GateInv, GateNext, sets = 1
               PROVE  sets' = 1 /\ InProgress' = {}
    OBVIOUS
  <2>1. closed /\ InProgress = {}
    BY DEF GateInv, ClosedByTheLast
  <2>2. \A r \in Requests : req[r] = "out"
    BY <2>1 DEF InProgress
  <2> QED
    BY <2>1, <2>2 DEF GateNext, Close, Enter, FunctionThrows, Leave, Finish, LeaveFromFinally
<1> QED
  BY <1>1, GateStarts, GateKeeps, PTL DEF GateSpec

-----------------------------------------------------------------------------
(* The loops of future_util.h.                                             *)
LoopsTypeOK ==
    /\ lkind \in LoopKinds /\ range \in Nat /\ calls \in Nat
    /\ frame \in {"call", "task"}
    /\ lpc \in {"turn", "wait", "again", "last", "done"}
    /\ act \in {"none", "pending", "failed", "more", "stop"}
    /\ lres \in {"pending", "value", "failed", "broken", "escaped"}
    /\ lanswers \in Nat

\* Where the loop stands when it is not done, and what its action said then.
LoopStands ==
    /\ lpc = "done" <=> lres # "pending"
    /\ act = "pending" => lpc \in {"wait", "last"}
    /\ lpc \in {"wait", "last"} => act # "none"
    /\ lpc = "last" => lkind = "do_for_each" /\ calls = range
    /\ lkind \notin Repeats => act # "stop"

LoopsInv == LoopsTypeOK /\ LoopStands /\ LoopAnsweredByTheLast

(* At first no loop has made a turn.                                       *)
LEMMA LoopsStart == LoopsInit => LoopsInv
  BY LoopsAssumption DEF LoopsInit, LoopsInv, LoopsTypeOK, LoopStands,
     LoopAnsweredByTheLast, LoopKinds, Repeats

(* A turn: the condition, the end of the range, or a call of the action.   *)
LEMMA TurnKeeps == LoopsInv /\ Turn => LoopsInv'
<1> SUFFICES ASSUME LoopsInv, Turn PROVE LoopsInv'
  OBVIOUS
<1>1. lpc = "turn" /\ lres = "pending" /\ lanswers = 0 /\ act \in {"none", "more"}
  BY DEF LoopsInv, LoopStands, LoopAnsweredByTheLast, Turn
<1>2. CASE lkind = "do_until" /\ StopCondition
  <2>1. UNCHANGED <<lkind, range, calls, frame, act>>
    BY <1>2 DEF StopCondition
  <2>2. CASE Answers("value")
    BY <1>1, <1>2, <2>1, <2>2 DEF LoopsInv, LoopsTypeOK, LoopStands,
       LoopAnsweredByTheLast, Answers, Repeats
  <2>3. CASE Uncaught
    BY <1>1, <1>2, <2>1, <2>3 DEF LoopsInv, LoopsTypeOK, LoopStands,
       LoopAnsweredByTheLast, Uncaught, Answers, Repeats
  <2> QED
    BY <1>2, <2>2, <2>3 DEF StopCondition
<1>3. CASE /\ lkind = "do_for_each" /\ calls = range
           /\ Answers("value") /\ UNCHANGED <<lkind, range, calls, frame, act>>
  BY <1>1, <1>3 DEF LoopsInv, LoopsTypeOK, LoopStands, LoopAnsweredByTheLast, Answers, Repeats
<1>4. CASE CallAction
  <2>1. calls' = calls + 1 /\ UNCHANGED <<lkind, range, frame>>
    BY <1>4 DEF CallAction
  <2>2. CASE /\ act' = "failed"
             /\ IF lkind = "do_for_each" THEN Uncaught ELSE Answers("failed")
    BY <1>1, <2>1, <2>2 DEF LoopsInv, LoopsTypeOK, LoopStands, LoopAnsweredByTheLast,
       Uncaught, Answers, Repeats, LoopKinds
  <2>3. CASE /\ act' = "pending"
             /\ GoesOn(IF lkind = "do_for_each" /\ calls' = range THEN "last" ELSE "wait")
    BY <1>1, <2>1, <2>3 DEF LoopsInv, LoopsTypeOK, LoopStands, LoopAnsweredByTheLast, GoesOn
  <2>4. CASE \E o \in Sayable :
               /\ act' = o
               /\ IF lkind = "do_for_each" /\ calls' = range
                  THEN Answers(IF o = "failed" THEN "failed" ELSE "value")
                  ELSE IF lkind = "do_until" /\ o = "failed"
                  THEN Answers("failed") \/ GoesOn("wait")
                  ELSE ActionReady(o)
    <3>1. PICK o \in Sayable :
               /\ act' = o
               /\ IF lkind = "do_for_each" /\ calls' = range
                  THEN Answers(IF o = "failed" THEN "failed" ELSE "value")
                  ELSE IF lkind = "do_until" /\ o = "failed"
                  THEN Answers("failed") \/ GoesOn("wait")
                  ELSE ActionReady(o)
      BY <2>4
    <3>2. o \in {"failed", "more", "stop"} /\ (lkind \notin Repeats => o # "stop")
      BY DEF Sayable, Sayings, Plain
    <3>3. CASE o = "failed" /\ Answers("failed")
      BY <1>1, <2>1, <3>1, <3>3 DEF LoopsInv, LoopsTypeOK, LoopStands,
         LoopAnsweredByTheLast, Answers
    <3>4. CASE /\ o # "failed" /\ Answers("value")
               /\ \/ lkind \in Repeats /\ o = "stop"
                  \/ lkind = "do_for_each" /\ calls' = range
      BY <1>1, <2>1, <3>1, <3>2, <3>4 DEF LoopsInv, LoopsTypeOK, LoopStands,
         LoopAnsweredByTheLast, Answers, Repeats
    <3>5. CASE GoesOn("wait") \/ (o = "more" /\ (GoesOn("turn") \/ GoesOn("again")))
      BY <1>1, <2>1, <3>1, <3>2, <3>5 DEF LoopsInv, LoopsTypeOK, LoopStands,
         LoopAnsweredByTheLast, GoesOn
    <3>6. CASE ActionReady(o)
      BY <3>2, <3>3, <3>4, <3>5, <3>6 DEF ActionReady
    <3> QED
      BY <3>1, <3>2, <3>3, <3>4, <3>5, <3>6
  <2> QED
    BY <1>4, <2>2, <2>3, <2>4 DEF CallAction
<1> QED
  BY <1>2, <1>3, <1>4 DEF Turn

(* The program resolves the action's future, while the loop waits for it.  *)
LEMMA ResolveKeeps == LoopsInv /\ ResolveAction => LoopsInv'
<1> SUFFICES ASSUME LoopsInv, ResolveAction PROVE LoopsInv'
  OBVIOUS
<1>1. act' \in {"failed", "more", "stop"} /\ (lkind \notin Repeats => act' # "stop")
  BY DEF ResolveAction, Plain
<1>2. act = "pending" /\ lres = "pending" /\ lpc \in {"wait", "last"}
  BY DEF ResolveAction, LoopsInv, LoopStands, LoopAnsweredByTheLast
<1> QED
  BY <1>1, <1>2 DEF ResolveAction, LoopsInv, LoopsTypeOK, LoopStands, LoopAnsweredByTheLast

(* The continuation goes on with what the action said.                     *)
LEMMA ContinueKeeps == LoopsInv /\ Continue => LoopsInv'
<1> SUFFICES ASSUME LoopsInv, Continue PROVE LoopsInv'
  OBVIOUS
<1>1. lpc \in {"wait", "again", "last"} /\ lres = "pending" /\ lanswers = 0
  BY DEF Continue, LoopsInv, LoopStands, LoopAnsweredByTheLast
<1>2. frame' = "task" /\ UNCHANGED <<lkind, range, calls, act>>
  BY DEF Continue
<1>3. CASE lpc = "again" /\ GoesOn("turn")
  BY <1>1, <1>2, <1>3 DEF LoopsInv, LoopsTypeOK, LoopStands, LoopAnsweredByTheLast, GoesOn
<1>4. CASE /\ lpc = "last" /\ act # "pending"
           /\ Answers(IF act = "failed" THEN "failed" ELSE "value")
  BY <1>1, <1>2, <1>4 DEF LoopsInv, LoopsTypeOK, LoopStands, LoopAnsweredByTheLast,
     Answers, Repeats
<1>5. CASE lpc = "wait" /\ act = "failed" /\ Answers("failed")
  BY <1>1, <1>2, <1>5 DEF LoopsInv, LoopsTypeOK, LoopStands, LoopAnsweredByTheLast, Answers
<1>6. CASE lpc = "wait" /\ act = "stop" /\ Answers("value")
  BY <1>1, <1>2, <1>6 DEF LoopsInv, LoopsTypeOK, LoopStands, LoopAnsweredByTheLast,
     Answers, Repeats, LoopKinds
<1>7. CASE lpc = "wait" /\ act = "more" /\ GoesOn("turn")
  BY <1>1, <1>2, <1>7 DEF LoopsInv, LoopsTypeOK, LoopStands, LoopAnsweredByTheLast, GoesOn
<1>8. lpc = "wait" /\ act # "pending" => act \in {"failed", "stop", "more"}
  BY DEF LoopsInv, LoopsTypeOK, LoopStands
<1> QED
  BY <1>3, <1>4, <1>5, <1>6, <1>7, <1>8 DEF Continue

(* Every step keeps the invariant.                                         *)
LEMMA LoopsKeep == LoopsInv /\ [LoopsNext]_loopvars => LoopsInv'
<1> SUFFICES ASSUME LoopsInv, [LoopsNext]_loopvars PROVE LoopsInv'
  OBVIOUS
<1>1. CASE UNCHANGED loopvars
  BY <1>1 DEF loopvars, LoopsInv, LoopsTypeOK, LoopStands, LoopAnsweredByTheLast
<1> QED
  BY <1>1, TurnKeeps, ResolveKeeps, ContinueKeeps DEF LoopsNext

(* future_util.h: do_until, repeat, repeat_until_value, keep_doing and     *)
(* do_for_each answer once, when no run of the action is under way, and    *)
(* with what the last one said, in whatever frame each of them ran.        *)
THEOREM LoopEndsOnce == LoopsSpec => []LoopAnsweredByTheLast
<1>1. LoopsInv => LoopAnsweredByTheLast
  BY DEF LoopsInv
<1> QED
  BY <1>1, LoopsStart, LoopsKeep, PTL DEF LoopsSpec

(* A loop that was answered stands still: its action is not called again   *)
(* and its answer does not change, although tasks may still be about.      *)
THEOREM AnsweredForGood ==
    LoopsSpec => [][lres # "pending" => UNCHANGED <<calls, lres, lanswers>>]_loopvars
<1>1. LoopsInv /\ [LoopsNext]_loopvars
        => [lres # "pending" => UNCHANGED <<calls, lres, lanswers>>]_loopvars
  <2> SUFFICES ASSUME LoopsInv, LoopsNext, lres # "pending"
               PROVE  UNCHANGED <<calls, lres, lanswers>>
    OBVIOUS
  <2>1. lpc = "done"
    BY DEF LoopsInv, LoopStands
  <2> QED
    BY <2>1 DEF LoopsNext, Turn, ResolveAction, Continue
<1> QED
  BY <1>1, LoopsStart, LoopsKeep, PTL DEF LoopsSpec

-----------------------------------------------------------------------------
(* shared_future.h.                                                        *)
PeerEntries == [peer : Peers, timed : BOOLEAN, live : BOOLEAN]
AnswersGiven == {"value", "failed", "copy_failed"}

\* Every waiting peer has one live entry, and no other peer has any.
PeersQueued ==
    /\ peers \in Fifos(PeerEntries) /\ FifoInOrder(peers)
    /\ \A p \in Peers : (got[p] = "waiting") <=> \E i \in LiveAt(peers) : peers.list[i].peer = p
    /\ \A i, j \in LiveAt(peers) : peers.list[i].peer = peers.list[j].peer => i = j

\* What the phase of the lambda says of the answer.
PhaseAgrees ==
    /\ sphase \in {"pending", "queued", "resolve", "resolved", "abandoned"}
    /\ original \in {"none", "value", "failed"}
    /\ sphase \in {"pending", "abandoned"} <=> original = "none"
    /\ sfuture = (IF sphase \in {"resolve", "resolved"} THEN original ELSE "none")
    /\ sphase = "resolved" => peers = EmptyFifo

SharedInv ==
    /\ handles \in Nat
    /\ got \in [Peers -> AnswersGiven \cup {"none", "waiting", "timed_out", "stranded"}]
    /\ PhaseAgrees /\ PeersQueued
    /\ \A p \in Peers : /\ got[p] \in {"value", "copy_failed"} => original = "value"
                        /\ got[p] = "failed" => original = "failed"
                        /\ got[p] = "stranded" => sphase = "abandoned"

(* A peer is answered or times out: its entry goes, the others stay.       *)
LEMMA EntryLeaves ==
    ASSUME SharedInv, NEW i \in LiveAt(peers), NEW g \in Fifos(PeerEntries), peers' = g,
           \E m : Shrunk(peers, g, m, {i}),
           NEW s, s # "waiting", got' = [got EXCEPT ![peers.list[i].peer] = s]
    PROVE  PeersQueued'
<1> DEFINE p == peers.list[i].peer
<1>0. peers \in Fifos(PeerEntries) /\ FifoInOrder(peers)
  BY DEF SharedInv, PeersQueued
<1>1. PICK m : Shrunk(peers, g, m, {i})
  OBVIOUS
<1>2. FifoInOrder(g)
  BY <1>0, <1>1, ShrunkInOrder
<1>3. /\ \A j \in LiveAt(g) : j + m \in LiveAt(peers) \ {i} /\ g.list[j] = peers.list[j + m]
      /\ \A k \in LiveAt(peers) \ {i} : k - m \in LiveAt(g) /\ (k - m) + m = k
  BY <1>0, <1>1, LiveOfShrunk
<1>4. p \in Peers
  <2>1. peers.list \in Seq(PeerEntries) /\ i \in 1..Len(peers.list)
    BY <1>0 DEF Fifos, LiveAt
  <2>2. peers.list[i] \in PeerEntries
    BY <2>1
  <2> QED
    BY <2>2 DEF PeerEntries
<1>5. \A k \in LiveAt(peers) \ {i} : peers.list[k].peer # p
  BY DEF SharedInv, PeersQueued
<1>6. ASSUME NEW q \in Peers
      PROVE  (got'[q] = "waiting") <=> \E j \in LiveAt(g) : g.list[j].peer = q
  <2>1. got'[q] = "waiting" <=> q # p /\ got[q] = "waiting"
    BY <1>4 DEF SharedInv
  <2>2. got[q] = "waiting" <=> \E k \in LiveAt(peers) : peers.list[k].peer = q
    BY DEF SharedInv, PeersQueued
  <2>3. q # p /\ got[q] = "waiting" => \E j \in LiveAt(g) : g.list[j].peer = q
    <3> SUFFICES ASSUME q # p, got[q] = "waiting" PROVE \E j \in LiveAt(g) : g.list[j].peer = q
      OBVIOUS
    <3>1. PICK k \in LiveAt(peers) : peers.list[k].peer = q
      BY <2>2
    <3>2. k - m \in LiveAt(g) /\ g.list[k - m] = peers.list[k]
      BY <1>3, <3>1
    <3> QED
      BY <3>1, <3>2
  <2>4. ASSUME NEW j \in LiveAt(g), g.list[j].peer = q PROVE q # p /\ got[q] = "waiting"
    BY <1>3, <1>5, <2>2, <2>4
  <2> QED
    BY <2>1, <2>3, <2>4
<1>7. ASSUME NEW j \in LiveAt(g), NEW k \in LiveAt(g), g.list[j].peer = g.list[k].peer
      PROVE  j = k
  <2>1. j + m \in LiveAt(peers) /\ k + m \in LiveAt(peers) /\ j + m = k + m
    BY <1>3, <1>7 DEF SharedInv, PeersQueued
  <2>2. j \in Nat /\ k \in Nat /\ m \in Nat
    BY <1>0, <1>1 DEF LiveAt, Shrunk, Fifos
  <2> QED
    BY <2>1, <2>2
<1>8. g \in Fifos(PeerEntries)
  OBVIOUS
<1> HIDE DEF p
<1> QED
  BY <1>2, <1>6, <1>7, <1>8 DEF PeersQueued, LiveAt, FifoInOrder, LiveFront, FifoFront

(* The state of the peers is destroyed: whoever waits is stranded.         *)
LEMMA SettleKeeps ==
    ASSUME SharedInv, NEW kept \in BOOLEAN, Settle(kept)
    PROVE  /\ PeersQueued'
           /\ \A p \in Peers : \/ got'[p] = got[p]
                               \/ got'[p] = "stranded" /\ got[p] = "waiting" /\ ~kept
           /\ got' \in [Peers -> AnswersGiven \cup {"none", "waiting", "timed_out", "stranded"}]
           /\ peers' = peers \/ peers' = EmptyFifo
<1>1. CASE kept
  <2>1. UNCHANGED <<peers, got>>
    BY <1>1 DEF Settle
  <2> QED
    BY <2>1 DEF SharedInv, PeersQueued, LiveAt, FifoInOrder, LiveFront, FifoFront
<1>2. CASE ~kept
  <2>1. /\ peers' = EmptyFifo
        /\ got' = [p \in Peers |-> IF got[p] = "waiting" THEN "stranded" ELSE got[p]]
    BY <1>2 DEF Settle
  <2>2. /\ EmptyFifo \in Fifos(PeerEntries) /\ FifoInOrder(EmptyFifo)
        /\ LiveAt(EmptyFifo) = {}
    BY EmptyFifoIs
  <2>3. PeersQueued'
    BY <2>1, <2>2 DEF PeersQueued
  <2> QED
    BY <1>2, <2>1, <2>3 DEF SharedInv
<1> QED
  BY <1>1, <1>2

(* Once nobody is left in the list, the list is the empty one.             *)
LEMMA NobodyLeft ==
    ASSUME SharedInv, IsEmpty(peers)
    PROVE  peers = EmptyFifo /\ \A p \in Peers : got[p] # "waiting"
<1>1. peers \in Fifos(PeerEntries) /\ FifoInOrder(peers)
  BY DEF SharedInv, PeersQueued
<1>2. peers.list = <<>> /\ LiveAt(peers) = {} /\ peers.size = 0
  BY <1>1, EmptyMeansEmpty DEF IsEmpty
<1>3. peers = [list |-> peers.list, size |-> peers.size]
  BY <1>1 DEF Fifos
<1> QED
  BY <1>2, <1>3 DEF EmptyFifo, SharedInv, PeersQueued

(* At first nobody waits and nothing is answered.                          *)
LEMMA SharedStarts == ASSUME SharedInit PROVE SharedInv
<1>1. /\ EmptyFifo \in Fifos(PeerEntries) /\ FifoInOrder(EmptyFifo)
      /\ LiveAt(EmptyFifo) = {}
  BY EmptyFifoIs
<1>2. PeersQueued
  BY <1>1 DEF SharedInit, PeersQueued
<1> QED
  BY <1>2 DEF SharedInit, SharedInv, PhaseAgrees

(* get_future(): the peer waits, or is given the answer at once.           *)
LEMMA GetKeeps ==
    ASSUME SharedInv, NEW p \in Peers, NEW timed \in BOOLEAN, GetSharedFuture(p, timed)
    PROVE  SharedInv'
<1>1. /\ got[p] = "none" /\ sphase # "resolve"
      /\ UNCHANGED <<sphase, original, sfuture, handles>>
  BY DEF GetSharedFuture
<1>2. CASE sfuture = "none"
  <2> DEFINE e == [peer |-> p, timed |-> timed, live |-> TRUE]
             k == Len(peers.list) + 1
  <2>1. peers' = PushBack(peers, e) /\ got' = [got EXCEPT ![p] = "waiting"]
    BY <1>2 DEF GetSharedFuture, Tell
  <2>2. peers \in Fifos(PeerEntries) /\ FifoInOrder(peers) /\ e \in PeerEntries /\ e.live = TRUE
    BY DEF SharedInv, PeersQueued, PeerEntries
  <2>3. e.peer = p
    OBVIOUS
  <2> HIDE DEF e
  <2>4. Pushed(PeerEntries, peers, e, peers')
    BY <2>1, <2>2, PushBackIs
  <2>5. /\ peers' \in Fifos(PeerEntries) /\ FifoInOrder(peers')
        /\ peers'.list[k] = e
        /\ \A i \in 1..Len(peers.list) : peers'.list[i] = peers.list[i]
        /\ LiveAt(peers') = LiveAt(peers) \cup {k}
    BY <2>4 DEF Pushed
  <2> HIDE DEF k
  <2>6. \A i \in LiveAt(peers) : peers'.list[i] = peers.list[i] /\ peers.list[i].peer # p
    BY <1>1, <2>5 DEF LiveAt, SharedInv, PeersQueued
  <2>7. \A q \in Peers : got'[q] = "waiting" <=> q = p \/ got[q] = "waiting"
    BY <2>1 DEF SharedInv
  <2>8. \A q \in Peers : (got'[q] = "waiting") <=> \E i \in LiveAt(peers') : peers'.list[i].peer = q
    BY <2>3, <2>5, <2>6, <2>7 DEF SharedInv, PeersQueued
  <2>9. \A i, j \in LiveAt(peers') : peers'.list[i].peer = peers'.list[j].peer => i = j
    BY <2>3, <2>5, <2>6 DEF SharedInv, PeersQueued
  <2>10. PeersQueued'
    BY <2>5, <2>8, <2>9 DEF PeersQueued
  <2>11. sphase # "resolved"
    BY <1>2 DEF SharedInv, PhaseAgrees
  <2> QED
    BY <1>1, <1>2, <2>1, <2>10, <2>11 DEF SharedInv, PhaseAgrees
<1>3. CASE sfuture # "none"
  <2>1. UNCHANGED peers
    BY <1>3 DEF GetSharedFuture
  <2>2. PICK s \in Copies : got' = [got EXCEPT ![p] = s]
    BY <1>3 DEF GetSharedFuture, Tell
  <2>3. s \in AnswersGiven /\ sfuture = original /\ original \in {"value", "failed"}
    BY <1>3 DEF Copies, SharedInv, PhaseAgrees, AnswersGiven
  <2>4. \A q \in Peers : got'[q] = "waiting" <=> got[q] = "waiting"
    BY <1>1, <2>2, <2>3 DEF SharedInv, AnswersGiven
  <2>5. PeersQueued'
    BY <2>1, <2>4 DEF SharedInv, PeersQueued, LiveAt, FifoInOrder, LiveFront, FifoFront
  <2> QED
    BY <1>1, <2>1, <2>2, <2>3, <2>5 DEF SharedInv, PhaseAgrees, Copies
<1> QED
  BY <1>2, <1>3

(* A deadline of a peer passes: its entry is dropped, and the front with   *)
(* it if nothing is left before the next live one.                         *)
LEMMA PeerTimesOutKeeps ==
    ASSUME SharedInv, NEW i \in 1..Len(peers.list), PeerTimesOut(i)
    PROVE  SharedInv'
<1>1. /\ i \in LiveAt(peers) /\ peers' = Expire(peers, i)
      /\ got' = [got EXCEPT ![peers.list[i].peer] = "timed_out"]
      /\ UNCHANGED <<sphase, original, sfuture, handles>>
  BY DEF PeerTimesOut, Expirable, Tell
<1>2. peers \in Fifos(PeerEntries) /\ FifoInOrder(peers)
  BY DEF SharedInv, PeersQueued
<1>3. \A e \in PeerEntries : [e EXCEPT !.live = FALSE] \in PeerEntries
                             /\ [e EXCEPT !.live = FALSE].live = FALSE
  BY DEF PeerEntries
<1>4. peers' \in Fifos(PeerEntries) /\ \E m : Shrunk(peers, peers', m, {i})
  BY <1>1, <1>2, <1>3, ExpireIs
<1>5. PeersQueued'
  BY <1>1, <1>4, EntryLeaves
<1>6. sphase # "resolved"
  <2>1. LiveAt(peers) # {}
    BY <1>1
  <2> QED
    BY <2>1, EmptyFifoIs DEF SharedInv, PhaseAgrees
<1> QED
  BY <1>1, <1>5, <1>6 DEF SharedInv, PhaseAgrees

(* One turn of the loop of resolve(): the front is answered with a copy of *)
(* the original answer, or the state is let go.                            *)
LEMMA ResolvePeersKeeps == ASSUME SharedInv, ResolvePeers PROVE SharedInv'
<1>1. sphase = "resolve" /\ UNCHANGED <<original, sfuture, handles>>
  BY DEF ResolvePeers
<1>2. sfuture = original /\ original \in {"value", "failed"}
  BY <1>1 DEF SharedInv, PhaseAgrees
<1>3. CASE IsEmpty(peers)
  <2>1. sphase' = "resolved" /\ Settle(handles > 0) /\ (handles > 0) \in BOOLEAN
    BY <1>3 DEF ResolvePeers, SharedInv
  <2>2. peers = EmptyFifo /\ \A p \in Peers : got[p] # "waiting"
    BY <1>3, NobodyLeft
  <2>3. /\ PeersQueued' /\ \A p \in Peers : got'[p] = got[p]
        /\ got' \in [Peers -> AnswersGiven \cup {"none", "waiting", "timed_out", "stranded"}]
        /\ peers' = EmptyFifo
    BY <2>1, <2>2, SettleKeeps
  <2> QED
    BY <1>1, <1>2, <2>1, <2>3 DEF SharedInv, PhaseAgrees
<1>4. CASE ~IsEmpty(peers)
  <2>1. peers' = PopFront(peers) /\ UNCHANGED sphase
    BY <1>4 DEF ResolvePeers
  <2>2. PICK s \in Copies : got' = [got EXCEPT ![FifoFront(peers).peer] = s]
    BY <1>4 DEF ResolvePeers, Tell
  <2>3. s \in AnswersGiven
    BY <1>2 DEF Copies, AnswersGiven
  <2>4. peers \in Fifos(PeerEntries) /\ FifoInOrder(peers)
    BY DEF SharedInv, PeersQueued
  <2>5. peers' \in Fifos(PeerEntries) /\ \E m : Shrunk(peers, peers', m, {1})
    BY <1>4, <2>1, <2>4, PopFrontIs
  <2>6. 1 \in LiveAt(peers) /\ FifoFront(peers) = peers.list[1]
    BY <1>4, <2>4, EmptyMeansEmpty
  <2>7. PeersQueued'
    BY <2>2, <2>3, <2>5, <2>6, EntryLeaves DEF AnswersGiven
  <2> QED
    BY <1>1, <1>2, <2>1, <2>2, <2>3, <2>7 DEF SharedInv, PhaseAgrees, Copies
<1> QED
  BY <1>3, <1>4

(* Every step keeps the invariant.                                         *)
LEMMA SharedSteps == ASSUME SharedInv, [SharedNext]_svars PROVE SharedInv'
<1>1. CASE SetOriginal \/ RunLambda \/ CopyHandle \/ UNCHANGED svars
  <2>1. UNCHANGED <<peers, got>>
    BY <1>1 DEF SetOriginal, RunLambda, CopyHandle, svars
  <2>2. PeersQueued'
    BY <2>1 DEF SharedInv, PeersQueued, LiveAt, FifoInOrder, LiveFront, FifoFront
  <2> QED
    BY <1>1, <2>1, <2>2 DEF SetOriginal, RunLambda, CopyHandle, svars, SharedInv, PhaseAgrees
<1>2. CASE DestroyOriginal
  <2>1. /\ sphase = "pending" /\ sphase' = "abandoned" /\ Settle(handles > 0)
        /\ UNCHANGED <<original, sfuture, handles>> /\ (handles > 0) \in BOOLEAN
    BY <1>2 DEF DestroyOriginal, SharedInv
  <2> QED
    BY <2>1, SettleKeeps DEF SharedInv, PhaseAgrees
<1>3. CASE ResolvePeers
  BY <1>3, ResolvePeersKeeps
<1>4. CASE DropHandle
  <2> DEFINE kept == handles > 1 \/ sphase \in {"pending", "queued"}
  <2>1. /\ Settle(kept) /\ kept \in BOOLEAN /\ handles > 0 /\ handles' = handles - 1
        /\ UNCHANGED <<original, sfuture, sphase>> /\ sphase # "resolve"
    BY <1>4 DEF DropHandle
  <2>2. ~kept => sphase \in {"resolved", "abandoned"}
    BY <2>1 DEF SharedInv, PhaseAgrees
  <2>3. sphase = "resolved" => \A p \in Peers : got[p] # "waiting"
    BY NobodyLeft DEF SharedInv, PhaseAgrees, EmptyFifo, IsEmpty
  <2> HIDE DEF kept
  <2>4. /\ PeersQueued'
        /\ \A p \in Peers : \/ got'[p] = got[p]
                            \/ got'[p] = "stranded" /\ got[p] = "waiting" /\ ~kept
        /\ got' \in [Peers -> AnswersGiven \cup {"none", "waiting", "timed_out", "stranded"}]
        /\ peers' = peers \/ peers' = EmptyFifo
    BY <2>1, SettleKeeps
  <2> QED
    BY <2>1, <2>2, <2>3, <2>4 DEF SharedInv, PhaseAgrees
<1>5. ASSUME NEW p \in Peers, NEW timed \in BOOLEAN, GetSharedFuture(p, timed) PROVE SharedInv'
  BY <1>5, GetKeeps
<1>6. ASSUME NEW i \in 1..Len(peers.list), PeerTimesOut(i) PROVE SharedInv'
  BY <1>6, PeerTimesOutKeeps
<1> QED
  BY <1>1, <1>2, <1>3, <1>4, <1>5, <1>6 DEF SharedNext

(* One entry each, so that _size counts the peers that wait.               *)
LEMMA SizeCountsPeers ==
    ASSUME SharedInv
    PROVE  peers.size = Cardinality({p \in Peers : got[p] = "waiting"})
<1> DEFINE W == {p \in Peers : got[p] = "waiting"}
           f == [i \in LiveAt(peers) |-> peers.list[i].peer]
<1>1. /\ IsFiniteSet(LiveAt(peers)) /\ LiveAt(peers) \subseteq 1..Len(peers.list)
      /\ peers.size = Cardinality(LiveAt(peers)) /\ peers.list \in Seq(PeerEntries)
  BY LiveAtIs DEF SharedInv, PeersQueued, FifoInOrder, Fifos
<1>2. \A i \in LiveAt(peers) : peers.list[i].peer \in W
  <2>1. \A i \in LiveAt(peers) : peers.list[i] \in PeerEntries
    BY <1>1
  <2> QED
    BY <2>1 DEF SharedInv, PeersQueued, PeerEntries
<1>3. f \in [LiveAt(peers) -> W]
  BY <1>2
<1>4. \A i, j \in LiveAt(peers) : f[i] = f[j] => i = j
  BY DEF SharedInv, PeersQueued
<1>5. \A p \in W : \E i \in LiveAt(peers) : f[i] = p
  BY DEF SharedInv, PeersQueued
<1>6. f \in Bijection(LiveAt(peers), W)
  <2> HIDE DEF f, W
  <2> QED
    BY <1>3, <1>4, <1>5 DEF Bijection, Injection, Surjection, IsInjective
<1> HIDE DEF f, W
<1>7. Cardinality(W) = Cardinality(LiveAt(peers))
  BY <1>1, <1>6, FS_Bijection DEF ExistsBijection
<1> QED
  BY <1>1, <1>7 DEF W

(* shared_future.h: the peers are answered with what the original promise  *)
(* was answered with, however many there are.                              *)
THEOREM PeersGetTheAnswer == SharedSpec => []PeersAnsweredByTheOriginal
<1>1. SharedInit => SharedInv
  BY SharedStarts
<1>2. SharedInv /\ [SharedNext]_svars => SharedInv'
  BY SharedSteps
<1>3. SharedInv => PeersAnsweredByTheOriginal
  <2> SUFFICES ASSUME SharedInv PROVE PeersAnsweredByTheOriginal
    OBVIOUS
  <2> QED
    BY SizeCountsPeers DEF PeersAnsweredByTheOriginal, SharedInv, PeersQueued, PhaseAgrees, LiveAt
<1> QED
  BY <1>1, <1>2, <1>3, PTL DEF SharedSpec

-----------------------------------------------------------------------------
(* The links of then() and its kin.                                        *)
ReadyStates == {"value", "failed", "lost"}
Out0 == {"pending", "value", "failed", "abandoned"}

HandlersTypeOK ==
    /\ out \in [0..MaxLinks -> [st : {"none", "pending", "value", "failed", "lost", "abandoned"},
                                by : Nat]]
    /\ links \in [1..MaxLinks -> [kind : LinkKinds,
                    pc : {"none", "waiting", "inner", "settling", "over", "dropped"},
                    calls : {0, 1}, raised : BOOLEAN]]
    /\ exited \in BOOLEAN /\ asserted \in BOOLEAN
    /\ out[0].st # "none" /\ out[0].st # "lost" /\ out[0].by = 0

\* The links are attached one behind the other.
AttachedInTurn ==
    \E m \in 0..MaxLinks : \A k \in 1..MaxLinks : (out[k].st # "none") <=> k <= m
\* Before a future is ready, all those before it are.
ReadyInTurn ==
    \A j, k \in 0..MaxLinks : j <= k /\ IsReady(k) => IsReady(j)

\* The answer of a link that is over: what it was given, or what its function
\* made of it.
Settled(k) ==
    \/ /\ links[k].calls = 0 /\ out[k - 1].st \in PassesOn(links[k].kind)
       /\ out[k] = IF links[k].kind = "discard_result" THEN Outcome("lost", out[k - 1].by)
                   ELSE out[k - 1]
    \/ /\ links[k].calls = 1
       /\ out[k] = AfterFunction(k, links[k].kind, IF links[k].raised THEN "failed" ELSE "value")

\* Where a link stands.
LinkStands(k) ==
    /\ links[k].pc # "none"
    /\ links[k].raised => links[k].calls = 1
    /\ links[k].calls = 1 => IsReady(k - 1) /\ out[k - 1].st \in CallsOn(links[k].kind)
    /\ links[k].pc \in {"waiting", "inner", "settling"} => out[k].st = "pending"
    /\ links[k].pc = "waiting" => links[k].calls = 0
    /\ links[k].pc \in {"inner", "settling"} => links[k].calls = 1
    /\ links[k].pc = "inner" => ~links[k].raised
    /\ links[k].pc = "settling" => links[k].kind = "finally"
    /\ links[k].pc = "dropped" => out[k].st = "abandoned"
    /\ links[k].pc = "over" => IsReady(k - 1) /\ Settled(k)

\* The first part of FailuresReachTheirHandler, of one future.
ShowsTheLatest(hi) ==
    LET last == Max(Failed(hi))
    IN  IF Failed(hi) # {} /\ \A j \in last + 1..hi : ~Handled(j)
        THEN out[hi].st # "value" /\ out[hi].by = last
        ELSE out[hi].st = "value"

AssertedByALost ==
    asserted => \E k \in (Attached \cup {Newest + 1}) \cap 1..MaxLinks :
                    out[k - 1].st = "lost" \/ links[k].kind = "handle_exception"

HandlersInv ==
    /\ HandlersTypeOK /\ AttachedInTurn /\ ReadyInTurn /\ AssertedByALost
    /\ \A k \in 1..MaxLinks : IF out[k].st = "none" THEN ~asserted => links[k].pc = "none"
                              ELSE LinkStands(k)
    /\ \A hi \in 0..MaxLinks : IsReady(hi) => ShowsTheLatest(hi)

(* The links attached are the first ones.                                  *)
LEMMA NewestIs ==
    ASSUME HandlersTypeOK, AttachedInTurn
    PROVE  /\ Newest \in 0..MaxLinks /\ Attached = 1..Newest
           /\ \A k \in 1..MaxLinks : (out[k].st # "none") <=> k <= Newest
           /\ out[Newest].st # "none"
<1>1. PICK m \in 0..MaxLinks : \A k \in 1..MaxLinks : (out[k].st # "none") <=> k <= m
  BY DEF AttachedInTurn
<1>2. Attached = 1..m
  BY <1>1, HandlersAssumption DEF Attached
<1>3. Cardinality(1..m) = m
  <2>1. m \in Nat /\ 1 \in Int
    BY HandlersAssumption
  <2>2. Cardinality(1..m) = IF 1 > m THEN 0 ELSE m - 1 + 1
    BY <2>1, FS_Interval
  <2> QED
    BY <2>1, <2>2
<1>4. Newest = m
  BY <1>2, <1>3 DEF Newest
<1>5. out[m].st # "none"
  BY <1>1, HandlersAssumption DEF HandlersTypeOK
<1> QED
  BY <1>1, <1>2, <1>4, <1>5

(* The latest failure, if there is one.                                    *)
LEMMA MaxIs ==
    ASSUME NEW hi \in Nat, NEW S \in SUBSET (0..hi), S # {}
    PROVE  Max(S) \in S /\ \A j \in S : j <= Max(S)
<1>1. \E j \in S : \A i \in S : i <= j
  BY Largest
<1>2. \E j \in S : \A i \in S : j >= i
  BY <1>1
<1>3. Max(S) \in S /\ \A i \in S : Max(S) >= i
  BY <1>2 DEF Max
<1> QED
  BY <1>3

(* The functions that failed up to a link are those up to the one before   *)
(* it, and its own if it raised.                                           *)
LEMMA FailedIs ==
    ASSUME HandlersTypeOK, NEW k \in 1..MaxLinks
    PROVE  /\ k \in Nat /\ k - 1 \in 0..MaxLinks
           /\ Failed(k - 1) \in SUBSET (0..(k - 1))
           /\ Failed(k) = IF links[k].raised THEN Failed(k - 1) \cup {k} ELSE Failed(k - 1)
<1>1. k \in Nat /\ k - 1 \in 0..MaxLinks
  BY HandlersAssumption
<1>2. \A j \in 0..k : j = k \/ j \in 0..(k - 1)
  BY <1>1
<1>3. \A j \in 0..(k - 1) : j \in 0..k /\ j # k
  BY <1>1
<1>4. k \in 0..k /\ k # 0
  BY <1>1
<1> QED
  BY <1>1, <1>2, <1>3, <1>4 DEF Failed

(* A link that is over passes on whose failure is the latest, adds its     *)
(* own, or makes it good.                                                  *)
LEMMA LatestPassesOn ==
    ASSUME HandlersTypeOK, NEW k \in 1..MaxLinks, LinkStands(k), links[k].pc = "over",
           ShowsTheLatest(k - 1)
    PROVE  ShowsTheLatest(k)
<1> DEFINE F == Failed(k - 1)
           last == Max(F)
           prior == out[k - 1]
           kind == links[k].kind
           Stays(hi) == F # {} /\ \A j \in last + 1..hi : ~Handled(j)
<1>0. k - 1 \in Nat
  BY HandlersAssumption
<1>1. /\ k \in Nat /\ k - 1 \in 0..MaxLinks /\ F \in SUBSET (0..(k - 1))
      /\ Failed(k) = IF links[k].raised THEN F \cup {k} ELSE F
  BY FailedIs
<1>2. IF Stays(k - 1) THEN prior.st # "value" /\ prior.by = last ELSE prior.st = "value"
  BY DEF ShowsTheLatest
<1>3. IsReady(k - 1) /\ Settled(k) /\ kind \in LinkKinds
      /\ (links[k].raised => links[k].calls = 1)
      /\ (links[k].calls = 1 => prior.st \in CallsOn(kind))
  BY DEF LinkStands, HandlersTypeOK
<1>4. CASE links[k].raised
  <2>1. k \in F \cup {k} /\ F \cup {k} \in SUBSET (0..k) /\ F \cup {k} # {}
    BY <1>1
  <2>2. \A j \in F \cup {k} : j <= k
    BY <1>1
  <2> HIDE DEF F
  <2>3. Max(F \cup {k}) \in F \cup {k} /\ k <= Max(F \cup {k})
    BY <1>1, <2>1, MaxIs
  <2>4. Max(F \cup {k}) = k
    <3> DEFINE M == Max(F \cup {k})
    <3>1. M \in 0..k /\ k <= M /\ M <= k
      BY <2>1, <2>2, <2>3
    <3> HIDE DEF M
    <3>2. M = k
      BY <1>1, <3>1
    <3> QED
      BY <3>2 DEF M
  <2>5. out[k] = Outcome("failed", k)
    BY <1>3, <1>4 DEF Settled, AfterFunction, RethrowWithNested
  <2>6. (k + 1)..k = {}
    BY <1>1
  <2>7. Failed(k) = F \cup {k}
    BY <1>1, <1>4
  <2>8. Max(Failed(k)) = k /\ Failed(k) # {}
    BY <2>1, <2>4, <2>7
  <2>9. \A j \in Max(Failed(k)) + 1..k : ~Handled(j)
    BY <2>6, <2>8
  <2>10. out[k].st # "value" /\ out[k].by = Max(Failed(k))
    BY <2>5, <2>8 DEF Outcome
  <2> QED
    BY <2>8, <2>9, <2>10 DEF ShowsTheLatest
<1>5. CASE ~links[k].raised
  <2>1. Failed(k) = F
    BY <1>1, <1>5
  <2>2. F # {} => last \in 0..(k - 1)
    <3> HIDE DEF F
    <3> QED
      BY <1>0, <1>1, MaxIs DEF last
  <2>3. F # {} => /\ k \in last + 1..k
                  /\ \A j \in last + 1..k : j = k \/ j \in last + 1..k - 1
                  /\ \A j \in last + 1..k - 1 : j \in last + 1..k
    <3> HIDE DEF last, F
    <3> QED
      BY <1>1, <2>2
  <2>4. Stays(k) <=> Stays(k - 1) /\ ~Handled(k)
    <3> HIDE DEF last, F
    <3> QED
      BY <2>3
  <2> SUFFICES IF Stays(k) THEN out[k].st # "value" /\ out[k].by = last ELSE out[k].st = "value"
    BY <2>1 DEF ShowsTheLatest
  <2> HIDE DEF Stays, last, F
  <2>5. CASE links[k].calls = 0
    <3>1. ~Handled(k)
      BY <2>5 DEF Handled
    <3>2. prior.st \in PassesOn(kind)
          /\ out[k] = IF kind = "discard_result" THEN Outcome("lost", prior.by) ELSE prior
      BY <1>3, <2>5 DEF Settled
    <3>3. kind = "discard_result" => prior.st = "failed"
      BY <3>2 DEF PassesOn
    <3> QED
      BY <1>2, <2>4, <3>1, <3>2, <3>3 DEF Outcome
  <2>6. CASE links[k].calls = 1
    <3>1. prior.st \in CallsOn(kind)
          /\ out[k] = IF kind = "finally" THEN prior ELSE Outcome("value", 0)
      BY <1>3, <1>5, <2>6 DEF Settled, AfterFunction
    <3>2. CASE kind = "finally"
      <4>1. ~Handled(k)
        BY <3>2 DEF Handled
      <4> QED
        BY <1>2, <2>4, <3>1, <3>2, <4>1
    <3>3. CASE kind \in {"then", "discard_result"}
      <4>1. prior.st = "value" /\ out[k].st = "value"
        BY <3>1, <3>3 DEF CallsOn, Outcome
      <4> QED
        BY <1>2, <2>4, <4>1
    <3>4. CASE kind \in {"then_warpped", "handle_exception_type", "or_terminate"}
      <4>1. Handled(k) /\ out[k].st = "value"
        BY <1>5, <2>6, <3>1, <3>4 DEF Handled, Outcome
      <4> QED
        BY <2>4, <4>1
    <3>5. kind # "handle_exception"
      BY <3>1 DEF CallsOn
    <3> QED
      BY <1>3, <3>2, <3>3, <3>4, <3>5 DEF LinkKinds
  <2>7. links[k].calls \in {0, 1}
    BY DEF HandlersTypeOK
  <2> QED
    BY <2>5, <2>6, <2>7
<1> QED
  BY <1>4, <1>5

LatestMoves ==
    \A k \in 1..MaxLinks :
        HandlersTypeOK /\ LinkStands(k) /\ links[k].pc = "over" /\ ShowsTheLatest(k - 1)
            => ShowsTheLatest(k)

(* The same with the statement as a formula, to be used of a next state.   *)
LEMMA LatestMovesOn == LatestMoves
  BY LatestPassesOn DEF LatestMoves

(* Where the futures up to hi are as they were, so is what hi shows.         *)
LEMMA LatestStays ==
    ASSUME HandlersTypeOK, NEW hi \in 0..MaxLinks, ShowsTheLatest(hi),
           \A j \in 0..hi : out'[j] = out[j], \A j \in 1..hi : links'[j] = links[j]
    PROVE  ShowsTheLatest(hi)'
<1> DEFINE F == Failed(hi)
           last == Max(F)
<1>1. hi \in Nat /\ hi \in 0..hi /\ 0 \in 0..hi
  BY HandlersAssumption
<1>2. \A j \in 0..hi : j # 0 => j \in 1..hi
  BY <1>1
<1>3. Failed(hi)' = F
  BY <1>1, <1>2 DEF Failed
<1>4. ASSUME F # {}
      PROVE  (\A j \in last + 1..hi : ~Handled(j)') <=> (\A j \in last + 1..hi : ~Handled(j))
  <2>1. F \in SUBSET (0..hi)
    BY DEF Failed
  <2> HIDE DEF F
  <2>2. last \in 0..hi
    BY <1>1, <1>4, <2>1, MaxIs
  <2> HIDE DEF last
  <2>3. \A j \in last + 1..hi : j \in 1..hi
    BY <1>1, <2>2
  <2> QED
    BY <2>3 DEF Handled
<1>5. out'[hi] = out[hi]
  BY <1>1
<1>6. Max(Failed(hi)') = last
  BY <1>3
<1>7. IF F # {} /\ \A j \in last + 1..hi : ~Handled(j)
      THEN out[hi].st # "value" /\ out[hi].by = last ELSE out[hi].st = "value"
  BY DEF ShowsTheLatest
<1> HIDE DEF F, last
<1> QED
  BY <1>3, <1>4, <1>5, <1>6, <1>7 DEF ShowsTheLatest

OutRecords == [st : {"none", "pending", "value", "failed", "lost", "abandoned"}, by : Nat]
LinkRecords == [kind : LinkKinds,
                pc : {"none", "waiting", "inner", "settling", "over", "dropped"},
                calls : {0, 1}, raised : BOOLEAN]

(* A step of one link leaves the others where they stand.                  *)
LEMMA OneLinkMoves ==
    ASSUME HandlersInv, ~asserted, NEW k \in 1..MaxLinks, out[k - 1].st # "none",
           out[k].st \in {"none", "pending"},
           NEW o \in OutRecords, NEW l \in LinkRecords, o.st # "none",
           out' = [out EXCEPT ![k] = o], links' = [links EXCEPT ![k] = l],
           o.st \in ReadyStates => IsReady(k - 1),
           LinkStands(k)', exited' \in BOOLEAN, asserted' = FALSE
    PROVE  HandlersInv'
<1>0. k \in Nat /\ k - 1 \in 0..MaxLinks /\ k \in 0..MaxLinks /\ MaxLinks \in Nat /\ k # 0
  BY HandlersAssumption
<1>1. HandlersTypeOK
  BY DEF HandlersInv
<1>2. /\ out'[k] = o /\ \A j \in 0..MaxLinks : j # k => out'[j] = out[j]
      /\ links'[k] = l /\ \A j \in 1..MaxLinks : j # k => links'[j] = links[j]
  BY <1>0, <1>1 DEF HandlersTypeOK
<1>3. HandlersTypeOK'
  <2>1. out' \in [0..MaxLinks -> OutRecords]
    BY <1>0, <1>1 DEF HandlersTypeOK, OutRecords
  <2>2. links' \in [1..MaxLinks -> LinkRecords]
    BY <1>0, <1>1 DEF HandlersTypeOK, LinkRecords
  <2>3. out'[0] = out[0]
    BY <1>0, <1>2
  <2>4. asserted' \in BOOLEAN
    OBVIOUS
  <2> QED
    BY <1>1, <2>1, <2>2, <2>3, <2>4 DEF HandlersTypeOK, OutRecords, LinkRecords
<1>4. /\ Newest \in 0..MaxLinks
      /\ \A j \in 1..MaxLinks : (out[j].st # "none") <=> j <= Newest
  BY <1>1, NewestIs DEF HandlersInv
<1>5. AttachedInTurn'
  <2>1. CASE out[k].st = "none"
    <3>1. k > Newest /\ k - 1 <= Newest
      <4>1. k - 1 = 0 \/ k - 1 \in 1..MaxLinks
        BY <1>0
      <4> QED
        BY <1>0, <1>4, <2>1, <4>1
    <3>2. \A j \in 1..MaxLinks : (out'[j].st # "none") <=> j <= k
      BY <1>0, <1>2, <1>4, <3>1
    <3> QED
      BY <1>0, <3>2 DEF AttachedInTurn
  <2>2. CASE out[k].st # "none"
    <3>1. \A j \in 1..MaxLinks : (out'[j].st # "none") <=> j <= Newest
      BY <1>2, <1>4, <2>2
    <3> QED
      BY <1>4, <3>1 DEF AttachedInTurn
  <2> QED
    BY <2>1, <2>2
<1>6. ~IsReady(k)
  BY DEF IsReady
<1>7. \A hi \in 0..MaxLinks : hi # k => (IsReady(hi)' <=> IsReady(hi))
  BY <1>2 DEF IsReady
<1>7a. IsReady(k)' => o.st \in ReadyStates
  BY <1>2 DEF IsReady, ReadyStates
<1>8. \A hi \in 0..MaxLinks : IsReady(hi) => hi < k
  <2> SUFFICES ASSUME NEW hi \in 0..MaxLinks, IsReady(hi), k <= hi PROVE FALSE
    BY <1>0
  <2> QED
    BY <1>0, <1>6 DEF HandlersInv, ReadyInTurn
<1>9. ReadyInTurn'
  <2> SUFFICES ASSUME NEW j \in 0..MaxLinks, NEW hi \in 0..MaxLinks, j <= hi, IsReady(hi)'
               PROVE  IsReady(j)'
    BY DEF ReadyInTurn
  <2>1. CASE hi = k /\ j = k
    BY <2>1
  <2>2. CASE hi = k /\ j # k
    <3>1. IsReady(k - 1) /\ j <= k - 1
      BY <1>0, <1>7a, <2>2
    <3>2. IsReady(j)
      BY <1>0, <3>1 DEF HandlersInv, ReadyInTurn
    <3> QED
      BY <1>7, <2>2, <3>2
  <2>3. CASE hi # k
    <3>1. IsReady(hi) /\ hi < k
      BY <1>7, <1>8, <2>3
    <3>2. IsReady(j) /\ j # k
      BY <1>0, <3>1 DEF HandlersInv, ReadyInTurn
    <3> QED
      BY <1>7, <3>2
  <2> QED
    BY <2>1, <2>2, <2>3
<1>10. ASSUME NEW j \in 1..MaxLinks
       PROVE  IF out'[j].st = "none" THEN ~asserted' => links'[j].pc = "none" ELSE LinkStands(j)'
  <2>1. CASE j = k
    BY <1>2, <2>1
  <2>2. CASE j # k
    <3>1. /\ out'[j] = out[j] /\ links'[j] = links[j] /\ j - 1 \in 0..MaxLinks
          /\ j - 1 # k => out'[j - 1] = out[j - 1]
      BY <1>0, <1>2, <2>2
    <3>2. CASE out[j].st = "none"
      BY <3>1, <3>2 DEF HandlersInv
    <3>3. CASE out[j].st # "none" /\ j - 1 # k
      BY <3>1, <3>3 DEF HandlersInv, LinkStands, IsReady, Settled, AfterFunction
    <3>4. CASE out[j].st # "none" /\ j - 1 = k
      <4>1. ~IsReady(j - 1) /\ LinkStands(j) /\ links[j].calls \in {0, 1}
        BY <1>1, <1>6, <3>4 DEF HandlersInv, HandlersTypeOK
      <4>2. links[j].calls = 0 /\ links[j].pc \notin {"inner", "settling", "over"}
        BY <4>1 DEF LinkStands
      <4> QED
        BY <3>1, <3>4, <4>1, <4>2 DEF LinkStands
    <3> QED
      BY <3>2, <3>3, <3>4
  <2> QED
    BY <2>1, <2>2
<1>11. ASSUME NEW hi \in 0..MaxLinks, hi < k, IsReady(hi)
       PROVE  ShowsTheLatest(hi)'
  <2>1. ShowsTheLatest(hi)
    BY <1>11 DEF HandlersInv
  <2>2. /\ \A j \in 0..hi : j \in 0..MaxLinks /\ j # k
        /\ \A j \in 1..hi : j \in 1..MaxLinks /\ j # k
    BY <1>0, <1>11
  <2> QED
    BY <1>1, <1>2, <2>1, <2>2, LatestStays
<1>12. ASSUME NEW hi \in 0..MaxLinks, IsReady(hi)'
       PROVE  ShowsTheLatest(hi)'
  <2>1. CASE hi # k
    BY <1>7, <1>8, <1>11, <1>12, <2>1
  <2>2. CASE hi = k
    <3>1. IsReady(k - 1) /\ k - 1 < k
      BY <1>0, <1>7a, <1>12, <2>2
    <3>2. ShowsTheLatest(k - 1)'
      BY <1>0, <1>11, <3>1
    <3>3. links'[k].pc = "over"
      <4>1. o.st \in ReadyStates /\ l \in LinkRecords /\ out'[k] = o /\ links'[k] = l
        BY <1>2, <1>7a, <1>12, <2>2
      <4> QED
        BY <4>1 DEF LinkStands, ReadyStates, LinkRecords
    <3>4. LatestMoves'
      BY LatestMovesOn, PTL
    <3> QED
      BY <1>3, <2>2, <3>2, <3>3, <3>4 DEF LatestMoves
  <2> QED
    BY <2>1, <2>2
<1>13. AssertedByALost'
  BY DEF AssertedByALost
<1> QED
  BY <1>3, <1>5, <1>9, <1>10, <1>12, <1>13 DEF HandlersInv

(* The program ends in an assertion: nothing else changes than the links   *)
(* of a link that is not there.                                            *)
LEMMA AssertionKeeps ==
    ASSUME HandlersInv, UNCHANGED <<out, exited>>, asserted' = TRUE,
           links' \in [1..MaxLinks -> LinkRecords],
           \A j \in 1..MaxLinks : out[j].st # "none" => links'[j] = links[j],
           NEW k \in (Attached \cup {Newest + 1}) \cap 1..MaxLinks,
           out[k - 1].st = "lost" \/ links'[k].kind = "handle_exception"
    PROVE  HandlersInv'
<1>1. HandlersTypeOK'
  BY DEF HandlersInv, HandlersTypeOK, LinkRecords
<1>2. AttachedInTurn' /\ ReadyInTurn' /\ Newest' = Newest /\ Attached' = Attached
  BY DEF HandlersInv, AttachedInTurn, ReadyInTurn, IsReady, Newest, Attached
<1>3. AssertedByALost'
  BY <1>2 DEF AssertedByALost
<1>4. ASSUME NEW j \in 1..MaxLinks
      PROVE  IF out'[j].st = "none" THEN ~asserted' => links'[j].pc = "none" ELSE LinkStands(j)'
  <2>1. out[j].st # "none" => LinkStands(j) /\ links'[j] = links[j]
    BY DEF HandlersInv
  <2> QED
    BY <2>1 DEF LinkStands, IsReady, Settled, AfterFunction
<1>5. ASSUME NEW hi \in 0..MaxLinks, IsReady(hi)'
      PROVE  ShowsTheLatest(hi)'
  <2>1. ASSUME NEW j \in 1..hi PROVE links'[j] = links[j]
    <3>1. j \in 1..MaxLinks /\ j \in 0..MaxLinks /\ j <= hi
      BY HandlersAssumption
    <3>2. IsReady(hi)
      BY <1>5 DEF IsReady
    <3>3. IsReady(j)
      BY <3>1, <3>2 DEF HandlersInv, ReadyInTurn
    <3> QED
      BY <3>1, <3>3 DEF IsReady
  <2>2. ShowsTheLatest(hi) /\ HandlersTypeOK
    BY <1>5 DEF HandlersInv, IsReady
  <2> QED
    BY <2>1, <2>2, LatestStays
<1> QED
  BY <1>1, <1>2, <1>3, <1>4, <1>5 DEF HandlersInv

(* The original promise is answered.                                       *)
LEMMA AnswerOriginalKeeps == ASSUME HandlersInv, AnswerOriginal PROVE HandlersInv'
<1>0. HandlersTypeOK /\ MaxLinks \in Nat /\ 0 \in 0..MaxLinks
  BY HandlersAssumption DEF HandlersInv
<1>1. PICK st \in {"value", "failed"} : out' = [out EXCEPT ![0] = Outcome(st, 0)]
  BY DEF AnswerOriginal
<1>2. /\ ~asserted /\ out[0].st = "pending" /\ UNCHANGED <<links, exited, asserted>>
  BY DEF AnswerOriginal
<1>3. out'[0] = Outcome(st, 0) /\ \A j \in 1..MaxLinks : out'[j] = out[j]
  BY <1>0, <1>1 DEF HandlersTypeOK
<1>4. HandlersTypeOK'
  BY <1>0, <1>1, <1>2 DEF HandlersTypeOK, Outcome
<1>5. \A hi \in 0..MaxLinks : ~IsReady(hi)
  <2>1. ~IsReady(0)
    BY <1>2 DEF IsReady
  <2> QED
    BY <1>0, <2>1 DEF HandlersInv, ReadyInTurn
<1>6. AttachedInTurn'
  BY <1>3 DEF HandlersInv, AttachedInTurn
<1>7. \A hi \in 0..MaxLinks : IsReady(hi)' => hi = 0
  BY <1>0, <1>3, <1>5 DEF IsReady
<1>8. IsReady(0)'
  BY <1>3 DEF IsReady, Outcome
<1>9. ReadyInTurn'
  BY <1>0, <1>7, <1>8 DEF ReadyInTurn
<1>10. AssertedByALost'
  BY <1>2 DEF AssertedByALost
<1>11. ASSUME NEW j \in 1..MaxLinks
       PROVE  IF out'[j].st = "none" THEN ~asserted' => links'[j].pc = "none" ELSE LinkStands(j)'
  <2>1. CASE out[j].st = "none"
    BY <1>2, <1>3, <2>1 DEF HandlersInv
  <2>2. CASE out[j].st # "none"
    <3>1. LinkStands(j) /\ ~IsReady(j - 1) /\ links[j].calls \in {0, 1}
      BY <1>0, <1>5, <2>2 DEF HandlersInv, HandlersTypeOK
    <3>2. links[j].calls = 0 /\ links[j].pc \notin {"inner", "settling", "over"}
      BY <3>1 DEF LinkStands
    <3> QED
      BY <1>2, <1>3, <2>2, <3>1, <3>2 DEF LinkStands
  <2> QED
    BY <2>1, <2>2
<1>12. ShowsTheLatest(0)'
  <2>1. Failed(0)' = IF st = "failed" THEN {0} ELSE {}
    <3>1. 0..0 = {0}
      OBVIOUS
    <3>2. out'[0].st = st
      BY <1>3 DEF Outcome
    <3> QED
      BY <3>1, <3>2 DEF Failed
  <2>2. Max({0}) = 0
    <3>1. {0} \in SUBSET (0..0) /\ {0} # {}
      OBVIOUS
    <3>2. Max({0}) \in {0}
      BY <3>1, MaxIs
    <3> QED
      BY <3>2
  <2>3. 0 + 1..0 = {}
    OBVIOUS
  <2>4. CASE st = "failed"
    <3>1. Failed(0)' = {0} /\ Max(Failed(0)') = 0
      BY <2>1, <2>2, <2>4
    <3>2. out'[0].st # "value" /\ out'[0].by = 0
      BY <1>3, <2>4 DEF Outcome
    <3> QED
      BY <2>3, <3>1, <3>2 DEF ShowsTheLatest
  <2>5. CASE st = "value"
    <3>1. Failed(0)' = {}
      BY <2>1, <2>5
    <3>2. out'[0].st = "value"
      BY <1>3, <2>5 DEF Outcome
    <3> QED
      BY <3>1, <3>2 DEF ShowsTheLatest
  <2> QED
    BY <2>4, <2>5
<1> QED
  BY <1>4, <1>6, <1>7, <1>9, <1>10, <1>11, <1>12 DEF HandlersInv

(* A promise that is destroyed takes everything behind it along.           *)
LEMMA DestroyKeeps ==
    ASSUME HandlersInv, NEW k \in 0..MaxLinks, DestroyPromise(k)
    PROVE  HandlersInv'
<1>0. HandlersTypeOK /\ MaxLinks \in Nat
  BY HandlersAssumption DEF HandlersInv
<1>1. /\ ~asserted /\ UNCHANGED <<exited, asserted>>
      /\ out' = [j \in 0..MaxLinks |->
                  IF j >= k /\ j <= Newest THEN Outcome("abandoned", 0) ELSE out[j]]
      /\ links' = [j \in 1..MaxLinks |->
                  IF j >= k /\ j <= Newest THEN [links[j] EXCEPT !.pc = "dropped"]
                                           ELSE links[j]]
      /\ IF k = 0 THEN out[0].st = "pending" ELSE links[k].pc = "inner"
  BY DEF DestroyPromise
<1>2. /\ Newest \in 0..MaxLinks
      /\ \A j \in 1..MaxLinks : (out[j].st # "none") <=> j <= Newest
  BY <1>0, NewestIs DEF HandlersInv
<1>3. /\ out[k].st = "pending" /\ k <= Newest
      /\ k # 0 => IsReady(k - 1) /\ links[k].calls = 1
  <2>1. CASE k = 0
    BY <1>1, <1>2, <2>1
  <2>2. CASE k # 0
    <3>1. k \in 1..MaxLinks /\ links[k].pc = "inner"
      BY <1>0, <1>1, <2>2
    <3>2. LinkStands(k) /\ out[k].st # "none"
      BY <1>1, <3>1 DEF HandlersInv
    <3>3. out[k].st = "pending" /\ links[k].calls = 1
      BY <3>1, <3>2 DEF LinkStands
    <3> QED
      BY <1>2, <3>1, <3>2, <3>3 DEF LinkStands
  <2> QED
    BY <2>1, <2>2
<1>4. \A hi \in 0..MaxLinks : IsReady(hi) => hi < k
  <2>1. ~IsReady(k)
    BY <1>3 DEF IsReady
  <2> SUFFICES ASSUME NEW hi \in 0..MaxLinks, IsReady(hi), k <= hi PROVE FALSE
    BY <1>0
  <2> QED
    BY <2>1 DEF HandlersInv, ReadyInTurn
<1>5. /\ \A j \in 0..MaxLinks : j >= k /\ j <= Newest => out'[j] = Outcome("abandoned", 0)
      /\ \A j \in 0..MaxLinks : ~(j >= k /\ j <= Newest) => out'[j] = out[j]
      /\ \A j \in 1..MaxLinks : j >= k /\ j <= Newest =>
                                    links'[j] = [links[j] EXCEPT !.pc = "dropped"]
      /\ \A j \in 1..MaxLinks : ~(j >= k /\ j <= Newest) => links'[j] = links[j]
  BY <1>0, <1>1
<1>6. HandlersTypeOK'
  <2> DEFINE OR == [st : {"none", "pending", "value", "failed", "lost", "abandoned"}, by : Nat]
             LR == [kind : LinkKinds,
                    pc : {"none", "waiting", "inner", "settling", "over", "dropped"},
                    calls : {0, 1}, raised : BOOLEAN]
  <2>1. \A j \in 0..MaxLinks : (IF j >= k /\ j <= Newest THEN Outcome("abandoned", 0) ELSE out[j]) \in OR
    BY <1>0 DEF HandlersTypeOK, Outcome
  <2>2. \A j \in 1..MaxLinks : (IF j >= k /\ j <= Newest THEN [links[j] EXCEPT !.pc = "dropped"]
                                           ELSE links[j]) \in LR
    BY <1>0 DEF HandlersTypeOK
  <2> HIDE DEF OR, LR
  <2>3. out' \in [0..MaxLinks -> OR] /\ links' \in [1..MaxLinks -> LR]
    BY <1>1, <2>1, <2>2
  <2>4. out'[0].st \notin {"none", "lost"} /\ out'[0].by = 0
    BY <1>0, <1>5 DEF HandlersTypeOK, Outcome
  <2> QED
    BY <1>0, <1>1, <2>3, <2>4 DEF HandlersTypeOK, OR, LR
<1>7. \A j \in 0..MaxLinks : (out'[j].st = "none") <=> (out[j].st = "none")
  <2> SUFFICES ASSUME NEW j \in 0..MaxLinks, j >= k /\ j <= Newest PROVE out[j].st # "none"
    BY <1>5 DEF Outcome
  <2>1. j = 0 \/ j \in 1..MaxLinks
    BY <1>0
  <2> QED
    BY <1>0, <1>2, <2>1 DEF HandlersTypeOK
<1>8. AttachedInTurn'
  BY <1>7 DEF HandlersInv, AttachedInTurn
<1>9. \A hi \in 0..MaxLinks : IsReady(hi)' <=> IsReady(hi)
  <2> SUFFICES ASSUME NEW hi \in 0..MaxLinks PROVE IsReady(hi)' <=> IsReady(hi)
    OBVIOUS
  <2>1. CASE hi >= k /\ hi <= Newest
    BY <1>0, <1>4, <1>5, <2>1 DEF IsReady, Outcome
  <2>2. CASE ~(hi >= k /\ hi <= Newest)
    BY <1>5, <2>2 DEF IsReady
  <2> QED
    BY <2>1, <2>2
<1>10. ReadyInTurn'
  BY <1>9 DEF HandlersInv, ReadyInTurn
<1>11. AssertedByALost'
  BY <1>1 DEF AssertedByALost
<1>12. ASSUME NEW j \in 1..MaxLinks
       PROVE  IF out'[j].st = "none" THEN ~asserted' => links'[j].pc = "none" ELSE LinkStands(j)'
  <2>0. j \in 0..MaxLinks /\ j - 1 \in 0..MaxLinks /\ j \in Nat /\ k \in Nat
    BY <1>0
  <2>1. CASE out[j].st = "none"
    BY <1>1, <1>2, <1>5, <1>7, <2>0, <2>1 DEF HandlersInv
  <2>2. CASE out[j].st # "none" /\ j >= k
    <3>1. /\ j <= Newest /\ LinkStands(j) /\ out'[j] = Outcome("abandoned", 0)
          /\ links'[j] = [links[j] EXCEPT !.pc = "dropped"] /\ links[j] \in LinkRecords
      BY <1>0, <1>2, <1>5, <2>0, <2>2 DEF HandlersInv, HandlersTypeOK, LinkRecords
    <3>2. /\ links'[j].pc = "dropped" /\ links'[j].calls = links[j].calls
          /\ links'[j].raised = links[j].raised /\ links'[j].kind = links[j].kind
      BY <3>1 DEF LinkRecords
    <3>3. links[j].calls = 1 => IsReady(j - 1)' /\ out'[j - 1] = out[j - 1]
      <4> SUFFICES ASSUME links[j].calls = 1 PROVE IsReady(j - 1)' /\ out'[j - 1] = out[j - 1]
        OBVIOUS
      <4>1. IsReady(j - 1)
        BY <3>1 DEF LinkStands
      <4>2. j - 1 < k
        BY <1>4, <2>0, <4>1
      <4> QED
        BY <1>5, <1>9, <2>0, <4>1, <4>2
    <3> QED
      BY <2>2, <1>7, <2>0, <3>1, <3>2, <3>3 DEF LinkStands, Outcome
  <2>3. CASE out[j].st # "none" /\ j < k
    <3>1. /\ out'[j] = out[j] /\ links'[j] = links[j] /\ out'[j - 1] = out[j - 1]
      BY <1>5, <2>0, <2>3
    <3> QED
      BY <2>3, <3>1 DEF HandlersInv, LinkStands, IsReady, Settled, AfterFunction
  <2> QED
    BY <2>0, <2>1, <2>2, <2>3
<1>13. ASSUME NEW hi \in 0..MaxLinks, IsReady(hi)'
       PROVE  ShowsTheLatest(hi)'
  <2>1. IsReady(hi) /\ hi < k /\ ShowsTheLatest(hi)
    BY <1>4, <1>9, <1>13 DEF HandlersInv
  <2>2. /\ \A j \in 0..hi : j \in 0..MaxLinks /\ j < k
        /\ \A j \in 1..hi : j \in 1..MaxLinks /\ j < k
    BY <1>0, <2>1
  <2>3. (\A j \in 0..hi : out'[j] = out[j]) /\ (\A j \in 1..hi : links'[j] = links[j])
    BY <1>5, <2>2
  <2> QED
    BY <1>0, <2>1, <2>3, LatestStays
<1> QED
  BY <1>6, <1>8, <1>10, <1>11, <1>12, <1>13 DEF HandlersInv

\* In L the link k waits; the others are those of links.
Waiting(kind) == [kind |-> kind, pc |-> "waiting", calls |-> 0, raised |-> FALSE]
WaitsIn(L, k, kind) == L = [links EXCEPT ![k] = Waiting(kind)]

(* The link k, whose future is ready, runs.                                *)
LEMMA LinkRunsKeeps ==
    ASSUME HandlersInv, ~asserted, NEW k \in 1..MaxLinks, NEW L, NEW kind \in LinkKinds,
           out[k].st \in {"none", "pending"}, IsReady(k - 1),
           k \in Attached \cup {Newest + 1}, WaitsIn(L, k, kind), LinkRuns(L, k),
           out[k].st = "none" \/ L = links
    PROVE  HandlersInv'
<1> DEFINE l == Waiting(kind)
<1>0. k \in Nat /\ k - 1 \in 0..MaxLinks /\ k \in 0..MaxLinks /\ HandlersTypeOK
  BY HandlersAssumption DEF HandlersInv
<1>1. /\ L[k] = l /\ links \in [1..MaxLinks -> LinkRecords]
      /\ L = [links EXCEPT ![k] = l] /\ l.kind = kind
  BY <1>0 DEF HandlersTypeOK, LinkRecords, WaitsIn, Waiting
<1>p. PICK prior : prior = out[k - 1]
  OBVIOUS
<1>2. /\ prior \in OutRecords /\ prior.st \in ReadyStates /\ prior.st # "none"
  BY <1>0, <1>p DEF HandlersTypeOK, OutRecords, IsReady, ReadyStates
<1>m. ASSUME NEW o \in OutRecords, o.st # "none", NEW m \in LinkRecords,
             links' = [L EXCEPT ![k] = m], out' = [out EXCEPT ![k] = o],
             UNCHANGED asserted, exited' \in BOOLEAN,
             links'[k] = m /\ out'[k] = o /\ out'[k - 1] = prior => LinkStands(k)'
      PROVE  HandlersInv'
  <2>1. links' = [links EXCEPT ![k] = m]
    BY <1>1, <1>m
  <2>2. links'[k] = m /\ out'[k] = o /\ out'[k - 1] = prior
    BY <1>0, <1>1, <1>p, <1>m, <2>1 DEF HandlersTypeOK
  <2>3. LinkStands(k)' /\ out[k - 1].st # "none"
    BY <1>2, <1>p, <1>m, <2>2
  <2>4. asserted' = FALSE
    BY <1>0, <1>m DEF HandlersTypeOK
  <2> QED
    BY <1>m, <2>1, <2>3, <2>4, OneLinkMoves
<1>3. ASSUME prior.st \in PassesOn(kind), links' = [L EXCEPT ![k].pc = "over"],
             out' = [out EXCEPT ![k] = IF kind = "discard_result"
                                       THEN Outcome("lost", prior.by) ELSE prior],
             UNCHANGED <<exited, asserted>>
      PROVE  HandlersInv'
  <2>1. PICK o : o = IF kind = "discard_result" THEN Outcome("lost", prior.by) ELSE prior
    OBVIOUS
  <2>2. PICK m : m = [kind |-> kind, pc |-> "over", calls |-> 0, raised |-> FALSE]
    OBVIOUS
  <2>3. o \in OutRecords /\ o.st \in ReadyStates /\ o.st # "none"
    BY <1>2, <2>1 DEF Outcome, OutRecords, ReadyStates
  <2>4. m \in LinkRecords
    BY <2>2 DEF LinkRecords
  <2>5. links' = [L EXCEPT ![k] = m]
    BY <1>1, <1>3, <2>2 DEF Waiting
  <2>6. out' = [out EXCEPT ![k] = o]
    BY <1>3, <2>1
  <2>7. links'[k] = m /\ out'[k] = o /\ out'[k - 1] = prior => LinkStands(k)'
    <3> SUFFICES ASSUME links'[k] = m, out'[k] = o, out'[k - 1] = prior
                 PROVE  LinkStands(k)'
      OBVIOUS
    <3>1. prior.st \in PassesOn(kind)
      BY <1>3
    <3>2. Settled(k)'
      BY <2>1, <2>2, <3>1 DEF Settled
    <3> QED
      BY <1>2, <2>2, <3>2 DEF LinkStands, IsReady, ReadyStates
  <2>8. UNCHANGED asserted /\ exited' \in BOOLEAN
    BY <1>0, <1>3 DEF HandlersTypeOK
  <2> QED
    BY <1>m, <2>3, <2>4, <2>5, <2>6, <2>7, <2>8
<1>4. ASSUME prior.st \in CallsOn(kind), NEW r \in Results(kind),
             links' = [L EXCEPT ![k].pc = "inner", ![k].calls = @ + 1],
             out' = [out EXCEPT ![k] = Outcome("pending", 0)],
             exited' = (exited \/ EngineExits(kind, prior.st)), UNCHANGED asserted
      PROVE  HandlersInv'
  <2>1. PICK o : o = Outcome("pending", 0)
    OBVIOUS
  <2>2. PICK m : m = [kind |-> kind, pc |-> "inner", calls |-> 1, raised |-> FALSE]
    OBVIOUS
  <2>3. o \in OutRecords /\ o.st = "pending" /\ o.st # "none"
    BY <2>1 DEF Outcome, OutRecords
  <2>4. m \in LinkRecords
    BY <2>2 DEF LinkRecords
  <2>5. links' = [L EXCEPT ![k] = m]
    BY <1>1, <1>4, <2>2 DEF Waiting
  <2>6. out' = [out EXCEPT ![k] = o]
    BY <1>4, <2>1
  <2>7. links'[k] = m /\ out'[k] = o /\ out'[k - 1] = prior => LinkStands(k)'
    <3> SUFFICES ASSUME links'[k] = m, out'[k] = o, out'[k - 1] = prior
                 PROVE  LinkStands(k)'
      OBVIOUS
    <3>1. prior.st \in CallsOn(kind)
      BY <1>4
    <3> QED
      BY <1>2, <2>2, <2>3, <3>1 DEF LinkStands, IsReady, ReadyStates
  <2>8. UNCHANGED asserted
    BY <1>4
  <2>9. exited' \in BOOLEAN
    BY <1>4
  <2> QED
    BY <1>m, <2>3, <2>4, <2>5, <2>6, <2>7, <2>8, <2>9
<1>5. ASSUME prior.st \in CallsOn(kind), NEW r \in Results(kind), r # "pending",
             links' = [L EXCEPT ![k].pc = "over", ![k].calls = @ + 1,
                                ![k].raised = (r = "failed")],
             out' = [out EXCEPT ![k] = AfterFunction(k, kind, r)],
             exited' = (exited \/ EngineExits(kind, prior.st)), UNCHANGED asserted
      PROVE  HandlersInv'
  <2>0. r \in {"value", "failed"} /\ (r = "failed") \in BOOLEAN
    BY <1>5 DEF Results, ValueResults, VoidResults
  <2>1. PICK o : o = AfterFunction(k, kind, r)
    OBVIOUS
  <2>2. PICK m : m = [kind |-> kind, pc |-> "over", calls |-> 1, raised |-> (r = "failed")]
    OBVIOUS
  <2>3. o \in OutRecords /\ o.st \in ReadyStates /\ o.st # "none"
    BY <1>0, <1>2, <1>p, <2>1 DEF Outcome, OutRecords, ReadyStates, AfterFunction, RethrowWithNested
  <2>4. m \in LinkRecords
    BY <2>0, <2>2 DEF LinkRecords
  <2>5. links' = [L EXCEPT ![k] = m]
    BY <1>1, <1>5, <2>2 DEF Waiting
  <2>6. out' = [out EXCEPT ![k] = o]
    BY <1>5, <2>1
  <2>7. links'[k] = m /\ out'[k] = o /\ out'[k - 1] = prior => LinkStands(k)'
    <3> SUFFICES ASSUME links'[k] = m, out'[k] = o, out'[k - 1] = prior
                 PROVE  LinkStands(k)'
      OBVIOUS
    <3>1. prior.st \in CallsOn(kind)
      BY <1>5
    <3>2. r = IF links'[k].raised THEN "failed" ELSE "value"
      <4>1. m.raised = (r = "failed")
        BY <2>2
      <4>2. r = IF r = "failed" THEN "failed" ELSE "value"
        BY <2>0
      <4> QED
        BY <4>1, <4>2, Zenon
    <3>3. Settled(k)'
      <4>1. CASE r = "failed"
        BY <1>p, <2>1, <2>2, <3>2, <4>1 DEF Settled, AfterFunction, RethrowWithNested
      <4>2. CASE r = "value"
        BY <1>p, <2>1, <2>2, <3>2, <4>2 DEF Settled, AfterFunction
      <4> QED
        BY <2>0, <4>1, <4>2
    <3> QED
      BY <1>2, <2>2, <2>3, <3>1, <3>3 DEF LinkStands, IsReady, ReadyStates
  <2>8. UNCHANGED asserted
    BY <1>5
  <2>9. exited' \in BOOLEAN
    BY <1>5
  <2> QED
    BY <1>m, <2>3, <2>4, <2>5, <2>6, <2>7, <2>8, <2>9
<1>6. ASSUME prior.st \in AssertsOn(kind), asserted' = TRUE, links' = L,
             UNCHANGED <<out, exited>>
      PROVE  HandlersInv'
  <2>1. L \in [1..MaxLinks -> LinkRecords]
    BY <1>1 DEF Waiting, LinkRecords
  <2>2. \A j \in 1..MaxLinks : out[j].st # "none" => L[j] = links[j]
    BY <1>1
  <2>3. out[k - 1].st = "lost" \/ L[k].kind = "handle_exception"
    BY <1>1, <1>6, <1>p DEF AssertsOn
  <2> QED
    BY <1>6, <2>1, <2>2, <2>3, AssertionKeeps
<1>7. L[k].kind = kind
  BY <1>1
<1> HIDE DEF l
<1> QED
  BY <1>p, <1>3, <1>4, <1>5, <1>6, <1>7 DEF LinkRuns

(* A link is attached to the last future, and runs if that is ready.       *)
LEMMA AttachKeeps ==
    ASSUME HandlersInv, NEW kind \in LinkKinds, Attach(kind) PROVE HandlersInv'
<1>0. HandlersTypeOK /\ MaxLinks \in Nat
  BY HandlersAssumption DEF HandlersInv
<1>1. /\ Newest \in 0..MaxLinks /\ out[Newest].st # "none"
      /\ \A j \in 1..MaxLinks : (out[j].st # "none") <=> j <= Newest
  BY <1>0, NewestIs DEF HandlersInv
<1>2. ~asserted /\ Newest + 1 <= MaxLinks
  BY DEF Attach
<1>3. PICK k \in 1..MaxLinks : k = Newest + 1 /\ k - 1 = Newest
  BY <1>0, <1>1, <1>2
<1> DEFINE l == [kind |-> kind, pc |-> "waiting", calls |-> 0, raised |-> FALSE]
           L == [links EXCEPT ![k] = l]
<1>4. out[k].st = "none"
  BY <1>0, <1>1, <1>3
<1>5. l \in LinkRecords /\ l.calls = 0 /\ l.raised = FALSE /\ l.kind = kind /\ l.pc = "waiting"
  BY DEF LinkRecords
<1>6. CASE out[Newest].st \in {"value", "failed"} /\ LinkRuns(L, k)
  <2>1. IsReady(k - 1)
    BY <1>3, <1>6 DEF IsReady
  <2>2. L = [links EXCEPT ![k] = l] /\ k \in Attached \cup {Newest + 1}
    BY <1>3
  <2>3. WaitsIn(L, k, kind)
    BY DEF WaitsIn, Waiting
  <2> HIDE DEF L
  <2> QED
    BY <1>2, <1>4, <1>6, <2>1, <2>2, <2>3, LinkRunsKeeps
<1>7. CASE /\ out[Newest].st = "lost" /\ asserted' = TRUE
           /\ UNCHANGED <<out, links, exited>>
  <2>1. k \in (Attached \cup {Newest + 1}) \cap 1..MaxLinks /\ out[k - 1].st = "lost"
    BY <1>3, <1>7
  <2>2. links' \in [1..MaxLinks -> LinkRecords]
    BY <1>0, <1>7 DEF HandlersTypeOK, LinkRecords
  <2> QED
    BY <1>7, <2>1, <2>2, AssertionKeeps
<1>8. CASE /\ out[Newest].st = "pending" /\ links' = L
           /\ out' = [out EXCEPT ![k] = Outcome("pending", 0)]
           /\ UNCHANGED <<exited, asserted>>
  <2> DEFINE o == Outcome("pending", 0)
  <2>1. o \in OutRecords /\ o.st = "pending" /\ o.st \notin ReadyStates /\ o.st # "none"
    BY DEF Outcome, OutRecords, ReadyStates
  <2>2. links' = [links EXCEPT ![k] = l] /\ out' = [out EXCEPT ![k] = o]
    BY <1>8
  <2> HIDE DEF o, l
  <2>3. links'[k] = l /\ out'[k] = o
    BY <1>0, <1>3, <2>2 DEF HandlersTypeOK
  <2>4. LinkStands(k)'
    BY <1>5, <2>1, <2>3 DEF LinkStands
  <2>5. exited' \in BOOLEAN /\ asserted' = FALSE
    BY <1>0, <1>2, <1>8 DEF HandlersTypeOK
  <2>6. out[k - 1].st # "none"
    BY <1>1, <1>3
  <2> QED
    BY <1>2, <1>3, <1>4, <1>5, <2>1, <2>2, <2>4, <2>5, <2>6, OneLinkMoves
<1> QED
  BY <1>3, <1>6, <1>7, <1>8 DEF Attach

(* The task of a link, queued because its future became ready, runs.       *)
LEMMA RunLinkKeeps ==
    ASSUME HandlersInv, NEW k \in 1..MaxLinks, RunLink(k) PROVE HandlersInv'
<1>1. ~asserted /\ links[k].pc = "waiting" /\ IsReady(k - 1) /\ LinkRuns(links, k)
  BY DEF RunLink
<1>2. HandlersTypeOK
  BY DEF HandlersInv
<1>3. out[k].st # "none" /\ LinkStands(k)
  BY <1>1 DEF HandlersInv
<1>4. out[k].st = "pending" /\ links[k].calls = 0 /\ links[k] \in LinkRecords
      /\ links[k].raised = FALSE
  BY <1>1, <1>2, <1>3 DEF LinkStands, HandlersTypeOK, LinkRecords
<1>5. links = [links EXCEPT ![k] = links[k]]
  BY <1>2 DEF HandlersTypeOK
<1>6. k \in Attached
  BY <1>3 DEF Attached
<1>7. links[k].kind \in LinkKinds /\ links[k] = Waiting(links[k].kind)
  BY <1>1, <1>4 DEF LinkRecords, Waiting
<1>8. WaitsIn(links, k, links[k].kind)
  BY <1>5, <1>7 DEF WaitsIn
<1> QED
  BY <1>1, <1>4, <1>6, <1>7, <1>8, LinkRunsKeeps

(* The future of a link's function is answered, or finally() looks at it.  *)
LEMMA InnerKeeps ==
    ASSUME HandlersInv, NEW k \in 1..MaxLinks, AnswerInner(k) \/ SettleFinally(k)
    PROVE  HandlersInv'
<1>0. HandlersTypeOK /\ k \in 0..MaxLinks /\ k - 1 \in 0..MaxLinks /\ k \in Nat
  BY HandlersAssumption DEF HandlersInv
<1>1. ~asserted /\ UNCHANGED <<exited, asserted>> /\ links[k].pc \in {"inner", "settling"}
  BY DEF AnswerInner, SettleFinally
<1>2. out[k].st # "none" /\ LinkStands(k)
  BY <1>1 DEF HandlersInv
<1>3. /\ out[k].st = "pending" /\ links[k].calls = 1 /\ IsReady(k - 1)
      /\ out[k - 1].st \in CallsOn(links[k].kind)
      /\ links[k] \in LinkRecords /\ out[k] \in OutRecords /\ out[k - 1] \in OutRecords
      /\ links[k].pc = "settling" => links[k].kind = "finally"
  BY <1>0, <1>1, <1>2 DEF LinkStands, HandlersTypeOK, LinkRecords, OutRecords
<1>4. exited' \in BOOLEAN /\ asserted' = FALSE /\ out[k - 1].st # "none"
  BY <1>0, <1>1, <1>3 DEF HandlersTypeOK, IsReady
<1>5. CASE /\ links[k].kind = "finally" /\ UNCHANGED out
           /\ \E b \in BOOLEAN : links' = [links EXCEPT ![k].pc = "settling", ![k].raised = b]
  <2>1. PICK b \in BOOLEAN : links' = [links EXCEPT ![k].pc = "settling", ![k].raised = b]
    BY <1>5
  <2> DEFINE m == [links[k] EXCEPT !.pc = "settling", !.raised = b]
  <2>2. m \in LinkRecords /\ m.pc = "settling" /\ m.kind = "finally" /\ m.calls = 1
    BY <1>3, <1>5 DEF LinkRecords
  <2>3. links' = [links EXCEPT ![k] = m] /\ out' = [out EXCEPT ![k] = out[k]]
    BY <1>0, <1>5, <2>1 DEF HandlersTypeOK
  <2> HIDE DEF m
  <2>4. links'[k] = m /\ out'[k] = out[k] /\ out'[k - 1] = out[k - 1]
    BY <1>0, <1>5, <2>3 DEF HandlersTypeOK
  <2>5. LinkStands(k)'
    BY <1>3, <1>5, <2>2, <2>4 DEF LinkStands, IsReady
  <2> QED
    BY <1>1, <1>3, <1>4, <2>2, <2>3, <2>5, OneLinkMoves
<1>6. ASSUME NEW r \in {"value", "failed"}, NEW m \in LinkRecords,
             links' = [links EXCEPT ![k] = m], m.pc = "over",
             m.kind = links[k].kind, m.calls = 1, m.raised = (r = "failed"),
             out' = [out EXCEPT ![k] = AfterFunction(k, links[k].kind, r)]
      PROVE  HandlersInv'
  <2> DEFINE o == AfterFunction(k, links[k].kind, r)
  <2>1. o \in OutRecords /\ o.st \in ReadyStates /\ o.st # "none"
    BY <1>0, <1>3 DEF Outcome, OutRecords, ReadyStates, AfterFunction, RethrowWithNested, IsReady
  <2>2. out' = [out EXCEPT ![k] = o]
    BY <1>6
  <2>3. o = AfterFunction(k, links[k].kind, r)
    OBVIOUS
  <2> HIDE DEF o
  <2>4. links'[k] = m /\ out'[k] = o /\ out'[k - 1] = out[k - 1]
    BY <1>0, <1>6, <2>2 DEF HandlersTypeOK
  <2>5. Settled(k)'
    BY <1>6, <2>3, <2>4 DEF Settled, AfterFunction, RethrowWithNested
  <2>6. LinkStands(k)'
    BY <1>3, <1>6, <2>4, <2>5 DEF LinkStands, IsReady
  <2> QED
    BY <1>1, <1>3, <1>4, <1>6, <2>1, <2>2, <2>6, OneLinkMoves
<1>7. ASSUME NEW r \in {"value", "failed"},
             links' = [links EXCEPT ![k].pc = "over", ![k].raised = (r = "failed")],
             out' = [out EXCEPT ![k] = AfterFunction(k, links[k].kind, r)]
      PROVE  HandlersInv'
  <2> DEFINE m == [links[k] EXCEPT !.pc = "over", !.raised = (r = "failed")]
  <2>1. /\ m \in LinkRecords /\ m.pc = "over" /\ m.kind = links[k].kind /\ m.calls = 1
        /\ m.raised = (r = "failed") /\ links' = [links EXCEPT ![k] = m]
    BY <1>3, <1>7 DEF LinkRecords
  <2> HIDE DEF m
  <2> QED
    BY <1>6, <1>7, <2>1
<1>8. CASE AnswerInner(k)
  <2>1. PICK r \in {"value", "failed"} :
          IF links[k].kind = "finally"
          THEN /\ links' = [links EXCEPT ![k].pc = "settling", ![k].raised = (r = "failed")]
               /\ UNCHANGED out
          ELSE /\ links' = [links EXCEPT ![k].pc = "over", ![k].raised = (r = "failed")]
               /\ out' = [out EXCEPT ![k] = AfterFunction(k, links[k].kind, r)]
    BY <1>8 DEF AnswerInner
  <2>2. CASE links[k].kind = "finally"
    <3>1. (r = "failed") \in BOOLEAN
      OBVIOUS
    <3> QED
      BY <1>5, <2>1, <2>2, <3>1
  <2>3. CASE links[k].kind # "finally"
    BY <1>7, <2>1, <2>3
  <2> QED
    BY <2>2, <2>3
<1>9. CASE SettleFinally(k)
  <2> DEFINE r == IF links[k].raised THEN "failed" ELSE "value"
             m == [links[k] EXCEPT !.pc = "over"]
  <2>1. links[k].pc = "settling" /\ links[k].kind = "finally" /\ r \in {"value", "failed"}
    BY <1>3, <1>9 DEF SettleFinally
  <2>2. /\ m \in LinkRecords /\ m.pc = "over" /\ m.kind = links[k].kind /\ m.calls = 1
        /\ m.raised = (r = "failed") /\ links' = [links EXCEPT ![k] = m]
    BY <1>3, <1>9 DEF LinkRecords, SettleFinally
  <2>3. out' = [out EXCEPT ![k] = AfterFunction(k, links[k].kind, r)]
    BY <1>9, <2>1 DEF SettleFinally
  <2> HIDE DEF m, r
  <2> QED
    BY <1>6, <2>1, <2>2, <2>3
<1> QED
  BY <1>8, <1>9

(* At first there is the original future alone, pending.                   *)
LEMMA HandlersStart == ASSUME HandlersInit PROVE HandlersInv
<1>0. MaxLinks \in Nat
  BY HandlersAssumption
<1>1. PICK st \in {"pending", "value", "failed"} :
          out = [k \in 0..MaxLinks |-> Outcome(IF k = 0 THEN st ELSE "none", 0)]
  BY DEF HandlersInit
<1>2. /\ out[0] = Outcome(st, 0) /\ \A k \in 1..MaxLinks : out[k] = Outcome("none", 0)
      /\ \A k \in 0..MaxLinks : k # 0 => out[k] = Outcome("none", 0)
  BY <1>0, <1>1
<1>3. /\ links = [k \in 1..MaxLinks |->
                   [kind |-> "then", pc |-> "none", calls |-> 0, raised |-> FALSE]]
      /\ exited = FALSE /\ asserted = FALSE
  BY DEF HandlersInit
<1>4. HandlersTypeOK
  <2>1. out \in [0..MaxLinks -> [st : {"none", "pending", "value", "failed", "lost", "abandoned"},
                                by : Nat]]
    BY <1>0, <1>1 DEF Outcome
  <2>2. links \in [1..MaxLinks -> [kind : LinkKinds,
                    pc : {"none", "waiting", "inner", "settling", "over", "dropped"},
                    calls : {0, 1}, raised : BOOLEAN]]
    BY <1>3 DEF LinkKinds
  <2>3. exited \in BOOLEAN /\ asserted \in BOOLEAN
    BY <1>3
  <2>4. out[0].st # "none" /\ out[0].st # "lost" /\ out[0].by = 0
    BY <1>2 DEF Outcome
  <2> QED
    BY <2>1, <2>2, <2>3, <2>4 DEF HandlersTypeOK
<1>5. AttachedInTurn
  <2>1. \A k \in 1..MaxLinks : (out[k].st # "none") <=> k <= 0
    BY <1>0, <1>2 DEF Outcome
  <2>2. 0 \in 0..MaxLinks
    BY <1>0
  <2> QED
    BY <2>1, <2>2 DEF AttachedInTurn
<1>6. \A hi \in 0..MaxLinks : IsReady(hi) => hi = 0
  BY <1>2 DEF IsReady, Outcome
<1>7. ReadyInTurn
  BY <1>0, <1>6 DEF ReadyInTurn
<1>8. \A k \in 1..MaxLinks : out[k].st = "none" /\ links[k].pc = "none"
  BY <1>2, <1>3 DEF Outcome
<1>9. AssertedByALost
  BY <1>3 DEF AssertedByALost
<1>10. IsReady(0) => ShowsTheLatest(0)
  <2>1. Failed(0) = IF st = "failed" THEN {0} ELSE {}
    <3>1. 0..0 = {0} /\ out[0].st = st
      BY <1>2 DEF Outcome
    <3> QED
      BY <3>1 DEF Failed
  <2>2. Max({0}) \in {0}
    <3>1. {0} \in SUBSET (0..0) /\ {0} # {}
      OBVIOUS
    <3> QED
      BY <3>1, MaxIs
  <2>3. 0 + 1..0 = {} /\ out[0].st = st /\ out[0].by = 0
    BY <1>2 DEF Outcome
  <2>4. st = "failed" => Max(Failed(0)) = 0 /\ Failed(0) # {}
    BY <2>1, <2>2
  <2>5. st = "value" => Failed(0) = {}
    BY <2>1
  <2>6. IsReady(0) => st \in {"value", "failed"}
    BY <2>3 DEF IsReady
  <2>7. CASE st = "failed"
    <3>1. Max(Failed(0)) = 0 /\ Failed(0) # {} /\ Max(Failed(0)) + 1..0 = {}
      BY <2>4, <2>7
    <3> QED
      BY <2>3, <2>7, <3>1 DEF ShowsTheLatest
  <2>8. CASE st = "value"
    BY <2>3, <2>5, <2>8 DEF ShowsTheLatest
  <2> QED
    BY <2>6, <2>7, <2>8
<1> QED
  BY <1>4, <1>5, <1>6, <1>7, <1>8, <1>9, <1>10 DEF HandlersInv

(* Every step keeps the invariant.                                         *)
LEMMA HandlersSteps == ASSUME HandlersInv, [HandlersNext]_hvars PROVE HandlersInv'
<1>1. CASE UNCHANGED hvars
  <2>1. UNCHANGED <<out, links, exited, asserted>>
    BY <1>1 DEF hvars
  <2>2. HandlersTypeOK' /\ AttachedInTurn' /\ ReadyInTurn'
    BY <2>1 DEF HandlersInv, HandlersTypeOK, AttachedInTurn, ReadyInTurn, IsReady
  <2>3. Attached' = Attached
    BY <2>1 DEF Attached
  <2>4. AssertedByALost'
    BY <2>1, <2>3 DEF HandlersInv, AssertedByALost, Newest
  <2>5. \A k \in 1..MaxLinks : LinkStands(k) => LinkStands(k)'
    BY <2>1 DEF LinkStands, IsReady, Settled, AfterFunction
  <2>6. \A hi \in 0..MaxLinks : ShowsTheLatest(hi) => ShowsTheLatest(hi)'
    BY <2>1, LatestStays DEF HandlersInv
  <2> QED
    BY <2>1, <2>2, <2>4, <2>5, <2>6 DEF HandlersInv, IsReady
<1>2. CASE LinkTask
  BY <1>2, RunLinkKeeps, InnerKeeps DEF LinkTask
<1>3. CASE Fate
  <2>1. 0 \in 0..MaxLinks /\ \A k \in 1..MaxLinks : k \in 0..MaxLinks
    BY HandlersAssumption
  <2> QED
    BY <1>3, <2>1, AnswerOriginalKeeps, DestroyKeeps, InnerKeeps DEF Fate
<1>4. ASSUME NEW kind \in LinkKinds, Attach(kind) PROVE HandlersInv'
  BY <1>4, AttachKeeps
<1> QED
  BY <1>1, <1>2, <1>3, <1>4 DEF HandlersNext

(* The invariant says of every future what the property asks.              *)
LEMMA FailuresAreHandled == ASSUME HandlersInv PROVE FailuresReachTheirHandler
<1>0. HandlersTypeOK /\ MaxLinks \in Nat /\ Newest \in 0..MaxLinks /\ Attached = 1..Newest
  BY HandlersAssumption, NewestIs DEF HandlersInv
<1>1. \A hi \in 0..Newest : out[hi].st \in {"value", "failed", "lost"} => ShowsTheLatest(hi)
  BY <1>0 DEF HandlersInv, IsReady
<1>2. ASSUME NEW k \in Attached
      PROVE  /\ links[k].calls <= 1
             /\ links[k].calls = 1 => IsReady(k - 1)
             /\ links[k].kind = "finally" /\ out[k].st \in {"value", "failed"} =>
                   links[k].calls = 1
             /\ links[k].kind = "handle_exception" => links[k].calls = 0
  <2>1. k \in 1..MaxLinks /\ out[k].st # "none" /\ LinkStands(k)
    BY DEF Attached, HandlersInv
  <2>2. /\ links[k].calls \in {0, 1}
        /\ links[k].pc \in {"none", "waiting", "inner", "settling", "over", "dropped"}
    BY <1>0, <2>1 DEF HandlersTypeOK
  <2>3. links[k].kind = "handle_exception" => CallsOn(links[k].kind) = {}
    BY DEF CallsOn
  <2>4. links[k].kind = "finally" => PassesOn(links[k].kind) = {}
    BY DEF PassesOn
  <2>5. out[k].st \in {"value", "failed"} => Settled(k)
    BY <2>1, <2>2 DEF LinkStands
  <2> QED
    BY <2>1, <2>2, <2>3, <2>4, <2>5 DEF LinkStands, Settled
<1>3. AssertedByALost
  BY DEF HandlersInv
<1> QED
  BY <1>1, <1>2, <1>3 DEF FailuresReachTheirHandler, ShowsTheLatest, AssertedByALost

(* future.h: however many continuations are chained, a failure reaches the *)
(* first link that takes failures, unless a later failure replaced it on   *)
(* the way, functions are called once and in turn, and the program asserts *)
(* only where a lost failure is met or at handle_exception(): whatever the *)
(* links are, whichever of them throw, and whether a link is attached      *)
(* before or after the future it waits for is ready.                       *)
THEOREM FailuresAreNotLost == HandlersSpec => []FailuresReachTheirHandler
<1>1. HandlersInit => HandlersInv
  BY HandlersStart
<1>2. HandlersInv /\ [HandlersNext]_hvars => HandlersInv'
  BY HandlersSteps
<1>3. HandlersInv => FailuresReachTheirHandler
  BY FailuresAreHandled
<1> QED
  BY <1>1, <1>2, <1>3, PTL DEF HandlersSpec

-----------------------------------------------------------------------------
(* The combinators of future_util.h.                                       *)
ForkTypeOK ==
    /\ fkind \in ForkKinds /\ n \in Nat /\ n <= MaxForks /\ (fkind = "with_timeout" => n = 1)
    /\ launched \in 0..n /\ fphase \in {"launch", "run"} /\ (fphase = "run" => launched = n)
    /\ fut \in [1..MaxForks -> Outcomes]
    /\ fcont \in SUBSET (1..launched) /\ latch \in Nat /\ ex \in 0..launched
    /\ chain \in [0..MaxForks -> Nat \cup {-1}]
    /\ bad \in SUBSET (1..launched) /\ reducing \in 0..launched /\ reduced \in Seq(1..launched)
    /\ ftimer \in {"none", "armed", "fired"} /\ fres.st \in {"pending", "value", "failed"}

\* What a combinator does not use stays as it was.
UnusedParts ==
    /\ fkind \notin Reducing => reduced = <<>>
    /\ fkind # "with_timeout" => ftimer = "none"
    /\ fkind # "parallel_for_each" => ex = 0
    /\ fkind # "map_reduce_object" => reducing = 0

\* One count for every continuation that is to come, and one for the call.
LatchCounts ==
    fkind \in Latched =>
        /\ latch = Cardinality(fcont) + (IF fphase = "launch" THEN 1 ELSE 0)
        /\ (fres.st = "pending") <=> latch # 0
        /\ \A i \in Launched \ fcont : Ready(i)
FirstErrorKept ==
    fkind = "parallel_for_each" =>
        /\ ex = 0 => \A i \in Launched \ fcont : fut[i] # "failed"
        /\ ex # 0 => ex \in Failures

\* A range waits for one future at a time, the first that is not ready.
RangeWaits ==
    fkind \in Ranges =>
        /\ fphase = "launch" => fcont = {} /\ fres.st = "pending"
        /\ fphase = "run" =>
              IF fcont = {} THEN fres.st # "pending" /\ \A j \in 1..n : Ready(j)
              ELSE /\ fres.st = "pending"
                   /\ \E i \in 1..n : fcont = {i} /\ \A j \in 1..n : j < i => Ready(j)

\* The chain of map_reduce grows from its front, behind the mappers.
ChainInOrder ==
    /\ chain[0] = 0
    /\ fkind \in Reducing =>
        /\ \A i \in Launched \ fcont : Ready(i)
        /\ \A i \in 0..MaxForks : chain[i] # -1 => i <= launched /\ i \notin fcont
        /\ \A i, j \in 0..MaxForks : j <= i /\ chain[i] # -1 => chain[j] # -1
        /\ fres.st # "pending" =>
              /\ fphase = "run" /\ chain[n] # -1
              /\ fres.st = "value" => chain[n] = 0
              /\ fres.st = "failed" => chain[n] # 0 /\ fres.of = chain[n]

\* A reducer object has had the first items, the last of them perhaps still.
ObjectReduces ==
    fkind = "map_reduce_object" =>
        /\ bad = {}
        /\ reduced = [i \in 1..Len(reduced) |-> i]
        /\ reducing # 0 => reducing = Len(reduced) /\ chain[reducing] = -1
        /\ \A i \in 1..Len(reduced) :
              /\ chain[i - 1] = 0 /\ fut[i] = "value" /\ i \notin fcont
              /\ i # reducing => chain[i] # -1
        /\ \A i \in 1..MaxForks : chain[i] = 0 => i <= Len(reduced)

\* With an initial value every mapped item was reduced or raised.
InitialReduces ==
    fkind = "map_reduce_initial" =>
        /\ IsInjective(reduced)
        /\ ToSet(reduced) \cup bad = Launched \ fcont
        /\ ToSet(reduced) \cap bad = {}
        /\ \A i \in 0..MaxForks : chain[i] # -1 =>
              IF chain[i] = 0 THEN \A k \in bad : k > i
              ELSE chain[i] \in bad /\ chain[i] <= i /\ \A k \in bad : k <= chain[i] \/ k > i

\* The timer runs from the return to the answer.
TimedOnce ==
    fkind = "with_timeout" =>
        /\ fphase = "launch" => fcont = {} /\ ftimer = "none" /\ fres.st = "pending"
        /\ ftimer = "armed" => fphase = "run" /\ fcont = {1} /\ fres.st = "pending"
        /\ fphase = "run" /\ ftimer = "none" => fcont = {} /\ fres.st # "pending" /\ Ready(1)

ForkInv ==
    /\ ForkTypeOK /\ UnusedParts /\ LatchCounts /\ FirstErrorKept /\ RangeWaits
    /\ ChainInOrder /\ ObjectReduces /\ InitialReduces /\ TimedOnce
    /\ AnsweredOnceAfterAll

(* At first nothing is launched.                                           *)
LEMMA ForkStarts == ASSUME ForkInit PROVE ForkInv
<1>1. Cardinality(fcont) = 0 /\ Launched = {} /\ launched = 0 /\ fcont = {}
  <2>1. Launched = {}
    BY DEF ForkInit, Launched
  <2> QED
    BY <2>1, FS_EmptySet DEF ForkInit
<1>2. ForkTypeOK
  BY ForkAssumption DEF ForkInit, ForkTypeOK, Outcomes
<1>3. LatchCounts /\ FirstErrorKept
  BY <1>1 DEF ForkInit, LatchCounts, FirstErrorKept
<1>4. ChainInOrder
  BY <1>1, ForkAssumption DEF ForkInit, ChainInOrder
<1>5. ObjectReduces
  BY <1>1, ForkAssumption DEF ForkInit, ObjectReduces
<1>6. InitialReduces
  <2>1. ToSet(reduced) = {}
    BY DEF ForkInit, ToSet
  <2> QED
    BY <1>1, <2>1, ForkAssumption DEF ForkInit, InitialReduces, IsInjective
<1>7. UnusedParts /\ RangeWaits /\ TimedOnce /\ AnsweredOnceAfterAll
  BY <1>1 DEF ForkInit, UnusedParts, RangeWaits, TimedOnce, AnsweredOnceAfterAll
<1> QED
  BY <1>2, <1>3, <1>4, <1>5, <1>6, <1>7 DEF ForkInv

\* What an answer says: the part of AnsweredOnceAfterAll about one.
RightAnswer ==
    /\ launched = n /\ \A i \in 1..n : Ready(i)
    /\ fkind \notin Reducing \cup {"when_all_tuple", "when_all_range"} =>
          (fres.st = "failed" <=> Failures # {})
    /\ fkind = "parallel_for_each" /\ fres.st = "failed" => fres.of \in Failures
    /\ fkind \in Succeed /\ fres.st = "failed" => fres.of = Min(Failures)
    /\ fkind \in {"when_all_tuple", "when_all_range"} =>
          fres = [st |-> "value", of |-> [i \in 1..n |-> fut[i]]]

(* Once all futures are ready, transform() gives the right answer.         *)
LEMMA TransformIsRight ==
    ASSUME fkind \in Ranges \cup {"when_all_tuple", "when_all_succeed_tuple"},
           UNCHANGED <<fkind, n, launched, fut>>, launched = n,
           \A i \in 1..n : Ready(i), Transform(fut)
    PROVE  RightAnswer' /\ fres'.st \in {"value", "failed"} /\ answers' = answers + 1
<1>1. Failures = {i \in 1..n : fut[i] = "failed"} /\ Failures' = Failures
  BY DEF Failures, Launched
<1>2. fkind \notin Reducing /\ fkind # "parallel_for_each" /\ fkind' = fkind
  BY DEF Reducing, Ranges
<1>3. launched' = n' /\ \A i \in 1..n' : Ready(i)'
  BY DEF Ready
<1>4. CASE fkind \in Succeed /\ Failures # {}
  <2>1. Exception(Min(Failures))
    BY <1>1, <1>4 DEF Transform
  <2>2. /\ fres' = [st |-> "failed", of |-> Min(Failures)] /\ answers' = answers + 1
        /\ fkind \notin {"when_all_tuple", "when_all_range"}
    BY <2>1, <1>4 DEF Exception, Answer, Succeed
  <2>3. fres'.st = "failed" /\ fres'.of = Min(Failures)'
    BY <1>1, <2>2
  <2> QED
    BY <1>1, <1>2, <1>3, <1>4, <2>2, <2>3 DEF RightAnswer
<1>5. CASE ~(fkind \in Succeed /\ Failures # {})
  <2>1. Answer("value", [i \in 1..n |-> fut[i]])
    BY <1>1, <1>5 DEF Transform
  <2>2. /\ fres' = [st |-> "value", of |-> [i \in 1..n |-> fut[i]]] /\ answers' = answers + 1
        /\ fkind \in Succeed \cup {"when_all_tuple", "when_all_range"}
    BY <2>1, <1>5 DEF Answer, Succeed, Ranges
  <2>3. fres'.st = "value" /\ fres' = [st |-> "value", of |-> [i \in 1..n |-> fut[i]]]'
    BY <2>2
  <2> QED
    BY <1>1, <1>2, <1>3, <1>5, <2>2, <2>3 DEF RightAnswer, Succeed
<1> QED
  BY <1>4, <1>5

(* The continuations that are to come are finitely many.                   *)
LEMMA ContinuationsFinite ==
    ASSUME ForkTypeOK
    PROVE  /\ IsFiniteSet(fcont) /\ Cardinality(fcont) \in Nat
           /\ Cardinality(fcont) = 0 <=> fcont = {}
<1>1. launched \in Nat /\ 1 \in Int /\ launched \in Int
  BY DEF ForkTypeOK
<1>2. IsFiniteSet(1..launched)
  BY <1>1, FS_Interval
<1>3. IsFiniteSet(fcont)
  BY <1>2, FS_Subset DEF ForkTypeOK
<1> QED
  BY <1>3, FS_CardinalityType, FS_EmptySet

(* Nothing is answered within the call.                                    *)
LEMMA NoAnswerInTheCall ==
    ASSUME ForkInv, fphase = "launch"
    PROVE  fres.st = "pending" /\ ftimer = "none"
<1>1. CASE fkind \in Latched
  <2>1. latch # 0
    BY <1>1, ContinuationsFinite DEF ForkInv, LatchCounts
  <2> QED
    BY <1>1, <2>1 DEF ForkInv, LatchCounts, UnusedParts, Latched
<1>2. CASE fkind \in Ranges
  BY <1>2 DEF ForkInv, RangeWaits, UnusedParts, Ranges
<1>3. CASE fkind \in Reducing
  BY <1>3 DEF ForkInv, ForkTypeOK, ChainInOrder, UnusedParts, Reducing
<1>4. CASE fkind = "with_timeout"
  BY <1>4 DEF ForkInv, TimedOnce
<1> QED
  BY <1>1, <1>2, <1>3, <1>4 DEF ForkInv, ForkTypeOK, ForkKinds, Latched, Ranges, Reducing

(* What the invariant says of the combinators that count.                  *)
LEMMA LatchedSuffices ==
    ASSUME fkind' \in Latched, ForkTypeOK', UnusedParts', LatchCounts', FirstErrorKept',
           chain'[0] = 0, AnsweredOnceAfterAll'
    PROVE  ForkInv'
BY DEF ForkInv, RangeWaits, ChainInOrder, ObjectReduces, InitialReduces, TimedOnce,
       Latched, Ranges, Reducing

(* What it says of the range forms of when_all.                            *)
LEMMA RangesSuffice ==
    ASSUME fkind' \in Ranges, ForkTypeOK', UnusedParts', RangeWaits',
           chain'[0] = 0, AnsweredOnceAfterAll'
    PROVE  ForkInv'
BY DEF ForkInv, LatchCounts, FirstErrorKept, ChainInOrder, ObjectReduces, InitialReduces,
       TimedOnce, Latched, Ranges, Reducing

(* What it says of map_reduce.                                             *)
LEMMA ReducingSuffices ==
    ASSUME fkind' \in Reducing, ForkTypeOK', UnusedParts', ChainInOrder', ObjectReduces',
           InitialReduces', AnsweredOnceAfterAll'
    PROVE  ForkInv'
BY DEF ForkInv, LatchCounts, FirstErrorKept, RangeWaits, TimedOnce, Latched, Ranges, Reducing

(* What it says of with_timeout.                                           *)
LEMMA TimeoutSuffices ==
    ASSUME fkind' = "with_timeout", ForkTypeOK', UnusedParts', TimedOnce',
           chain'[0] = 0, AnsweredOnceAfterAll'
    PROVE  ForkInv'
BY DEF ForkInv, LatchCounts, FirstErrorKept, RangeWaits, ChainInOrder, ObjectReduces,
       InitialReduces, Latched, Ranges, Reducing

(* One more item is launched, with the outcome o; its continuation is      *)
(* registered, or there is none.                                           *)
LEMMA LaunchedOneMore ==
    ASSUME ForkInv, fphase = "launch", launched < n, launched' = launched + 1,
           UNCHANGED <<fkind, n, fphase, chain, bad, reducing, reduced, ftimer, fres, answers>>,
           NEW o \in Outcomes, fut' = [fut EXCEPT ![launched + 1] = o],
           fcont' \in {fcont, fcont \cup {launched + 1}},
           latch' \in Nat, ex' \in 0..launched + 1, fkind # "parallel_for_each" => ex' = ex
    PROVE  /\ ForkTypeOK' /\ UnusedParts' /\ AnsweredOnceAfterAll' /\ chain'[0] = 0
           /\ launched + 1 \in 1..n /\ launched + 1 \notin fcont
           /\ Launched' = Launched \cup {launched + 1} /\ launched + 1 \notin Launched
           /\ fut'[launched + 1] = o /\ \A i \in Launched : fut'[i] = fut[i]
<1>1. /\ launched \in Nat /\ n \in Nat /\ n <= MaxForks /\ MaxForks \in Nat
      /\ launched + 1 \in 1..n /\ launched + 1 \in 1..MaxForks
  BY ForkAssumption DEF ForkInv, ForkTypeOK
<1>2. fres.st = "pending" /\ ftimer = "none"
  BY NoAnswerInTheCall
<1>3. reduced \in Seq(1..launched + 1)
  <2>1. \A i \in 1..launched : i \in 1..launched + 1
    BY <1>1
  <2>2. Len(reduced) \in Nat /\ reduced \in [1..Len(reduced) -> 1..launched]
    BY DEF ForkInv, ForkTypeOK
  <2>3. reduced \in [1..Len(reduced) -> 1..launched + 1]
    BY <2>1, <2>2
  <2> QED
    BY <2>2, <2>3
<1>4. fut' \in [1..MaxForks -> Outcomes]
  BY DEF ForkInv, ForkTypeOK
<1>5. fcont' \in SUBSET (1..launched + 1) /\ bad \in SUBSET (1..launched + 1)
  BY <1>1 DEF ForkInv, ForkTypeOK
<1>6. ForkTypeOK'
  BY <1>1, <1>3, <1>4, <1>5 DEF ForkInv, ForkTypeOK
<1>7. UnusedParts' /\ chain'[0] = 0
  BY DEF ForkInv, UnusedParts, ChainInOrder
<1>8. AnsweredOnceAfterAll'
  BY <1>2 DEF ForkInv, AnsweredOnceAfterAll
<1>9. launched + 1 \notin fcont /\ launched + 1 \notin Launched /\ Launched' = Launched \cup {launched + 1}
  BY <1>1 DEF ForkInv, ForkTypeOK, Launched
<1>10. fut'[launched + 1] = o /\ \A i \in Launched : fut'[i] = fut[i]
  BY <1>1, <1>9 DEF ForkInv, ForkTypeOK, Launched
<1> QED
  BY <1>1, <1>6, <1>7, <1>8, <1>9, <1>10

(* An item of parallel_for_each or of the variadic when_all.               *)
LEMMA LaunchLatchedKeeps ==
    ASSUME ForkInv, fkind \in Latched, fphase = "launch", launched < n, launched' = launched + 1,
           UNCHANGED <<fkind, n, fphase, chain, bad, reducing, reduced, ftimer, fres, answers>>,
           NEW o \in Outcomes, fut' = [fut EXCEPT ![launched + 1] = o],
           \/ /\ fcont' = fcont /\ latch' = latch /\ o # "pending"
              /\ ex' = IF o = "failed" /\ fkind = "parallel_for_each" /\ ex = 0
                       THEN launched + 1 ELSE ex
           \/ fcont' = fcont \cup {launched + 1} /\ latch' = latch + 1 /\ ex' = ex
    PROVE  ForkInv'
<1> DEFINE i == launched + 1
<1>0. ForkTypeOK /\ ex \in Nat /\ latch \in Nat /\ ex <= launched /\ launched \in Nat
  BY DEF ForkInv, ForkTypeOK
<1>1. /\ ForkTypeOK' /\ UnusedParts' /\ AnsweredOnceAfterAll' /\ chain'[0] = 0
      /\ i \in 1..n /\ i \notin fcont
      /\ Launched' = Launched \cup {i} /\ i \notin Launched
      /\ fut'[i] = o /\ \A j \in Launched : fut'[j] = fut[j]
  <2>1. latch' \in Nat /\ ex' \in 0..launched + 1 /\ (fkind # "parallel_for_each" => ex' = ex)
    BY <1>0
  <2>2. fcont' \in {fcont, fcont \cup {launched + 1}}
    OBVIOUS
  <2> QED
    BY <2>1, <2>2, LaunchedOneMore
<1>2. fres.st = "pending" /\ latch # 0 /\ latch = Cardinality(fcont) + 1
  BY NoAnswerInTheCall DEF ForkInv, LatchCounts
<1>3. IsFiniteSet(fcont) /\ Cardinality(fcont) \in Nat
  BY <1>0, ContinuationsFinite
<1>4. Cardinality(fcont \cup {i}) = Cardinality(fcont) + 1
  BY <1>1, <1>3, FS_AddElement
<1>5. i # 0 /\ \A j \in Launched \ fcont : fut[j] # "pending"
  BY <1>0 DEF ForkInv, LatchCounts, Ready
<1>6. LatchCounts'
  <2>1. \A j \in Launched' \ fcont' : fut'[j] # "pending"
    BY <1>1, <1>5
  <2>2. latch' = Cardinality(fcont') + 1 /\ latch' # 0
    <3>1. CASE fcont' = fcont /\ latch' = latch
      BY <1>2, <3>1
    <3>2. CASE fcont' = fcont \cup {i} /\ latch' = latch + 1
      <4>1. Cardinality(fcont') = Cardinality(fcont) + 1
        BY <1>4, <3>2
      <4> QED
        BY <1>2, <1>3, <3>2, <4>1
    <3> QED
      BY <3>1, <3>2
  <2> QED
    BY <1>2, <2>1, <2>2 DEF LatchCounts, Ready
<1>7. FirstErrorKept'
  <2> SUFFICES ASSUME fkind = "parallel_for_each" PROVE FirstErrorKept'
    BY DEF FirstErrorKept
  <2>1. /\ ex = 0 => \A j \in Launched \ fcont : fut[j] # "failed"
        /\ ex # 0 => ex \in Launched /\ fut[ex] = "failed"
    BY DEF ForkInv, FirstErrorKept, Failures
  <2> HIDE DEF i
  <2>2. ex' # 0 => ex' \in Launched' /\ fut'[ex'] = "failed"
    BY <1>1, <2>1 DEF i
  <2>3. ex' = 0 => \A j \in Launched' \ fcont' : fut'[j] # "failed"
    BY <1>0, <1>1, <1>5, <2>1 DEF i
  <2> QED
    BY <2>2, <2>3 DEF FirstErrorKept, Failures
<1> QED
  BY <1>1, <1>6, <1>7, LatchedSuffices

(* A reducer object has had items that were launched, each in its place.   *)
LEMMA ReducedInOrder ==
    ASSUME ForkInv, fkind = "map_reduce_object"
    PROVE  /\ Len(reduced) \in Nat /\ Len(reduced) <= launched
           /\ \A j \in 1..Len(reduced) : reduced[j] = j /\ j \in Launched
<1>1. reduced \in Seq(1..launched) /\ launched \in Nat
  BY DEF ForkInv, ForkTypeOK
<1>2. PICK m \in Nat : m = Len(reduced)
  BY <1>1
<1>3. reduced = [i \in 1..m |-> i]
  BY <1>2 DEF ForkInv, ObjectReduces
<1>4. \A j \in 1..m : reduced[j] = j
  BY <1>3
<1>5. \A j \in 1..m : reduced[j] \in 1..launched
  BY <1>1, <1>2
<1>6. \A j \in 1..m : j \in 1..launched
  BY <1>4, <1>5
<1>7. m <= launched
  BY <1>1, <1>6
<1> QED
  BY <1>2, <1>4, <1>6, <1>7 DEF Launched

(* An item whose future the call keeps for later.                          *)
LEMMA LaunchPlainKeeps ==
    ASSUME ForkInv, fkind \notin Latched, fphase = "launch", launched < n,
           launched' = launched + 1,
           UNCHANGED <<fkind, n, fphase, chain, bad, reducing, reduced, ftimer, fres, answers,
                       latch, ex>>,
           NEW o \in Outcomes, fut' = [fut EXCEPT ![launched + 1] = o],
           fcont' = IF fkind \in Reducing THEN fcont \cup {launched + 1} ELSE fcont
    PROVE  ForkInv'
<1> DEFINE i == launched + 1
<1>0. ForkTypeOK /\ ex \in Nat /\ latch \in Nat /\ ex <= launched /\ launched \in Nat
  BY DEF ForkInv, ForkTypeOK
<1>1. /\ ForkTypeOK' /\ UnusedParts' /\ AnsweredOnceAfterAll' /\ chain'[0] = 0
      /\ i \in 1..n /\ i \notin fcont
      /\ Launched' = Launched \cup {i} /\ i \notin Launched
      /\ fut'[i] = o /\ \A j \in Launched : fut'[j] = fut[j]
  <2>1. latch' \in Nat /\ ex' \in 0..launched + 1 /\ (fkind # "parallel_for_each" => ex' = ex)
    BY <1>0
  <2>2. fcont' \in {fcont, fcont \cup {launched + 1}}
    OBVIOUS
  <2> QED
    BY <2>1, <2>2, LaunchedOneMore
<1>2. fres.st = "pending" /\ ftimer = "none"
  BY NoAnswerInTheCall
<1>3. CASE fkind \in Ranges
  <2>1. fcont' = fcont
    BY <1>3 DEF Ranges, Reducing
  <2>2. RangeWaits'
    BY <1>2, <1>3, <2>1 DEF ForkInv, RangeWaits
  <2> QED
    BY <1>1, <1>3, <2>2, RangesSuffice
<1>4. CASE fkind = "with_timeout"
  <2>1. fcont' = fcont
    BY <1>4 DEF Reducing
  <2>2. TimedOnce'
    BY <1>2, <1>4, <2>1 DEF ForkInv, TimedOnce
  <2> QED
    BY <1>1, <1>4, <2>2, TimeoutSuffices
<1>5. CASE fkind \in Reducing
  <2>1. fcont' = fcont \cup {i}
    BY <1>5
  <2>2. Launched' \ fcont' = Launched \ fcont
    BY <1>1, <2>1
  <2>3. \A j \in 0..MaxForks : chain[j] # -1 => j <= launched /\ j # i
    BY <1>0, <1>5 DEF ForkInv, ChainInOrder
  <2>4. ChainInOrder'
    BY <1>0, <1>1, <1>2, <1>5, <2>1, <2>2, <2>3 DEF ForkInv, ChainInOrder, Ready
  <2>5. ObjectReduces'
    <3> SUFFICES ASSUME fkind = "map_reduce_object" PROVE ObjectReduces'
      BY DEF ObjectReduces
    <3>1. \A j \in 1..Len(reduced) : j \in Launched /\ j # i
      BY <1>1, ReducedInOrder
    <3> QED
      BY <1>1, <2>1, <3>1 DEF ForkInv, ObjectReduces
  <2>6. InitialReduces'
    BY <2>2 DEF ForkInv, InitialReduces
  <2> QED
    BY <1>1, <1>5, <2>4, <2>5, <2>6, ReducingSuffices
<1> QED
  BY <1>0, <1>3, <1>4, <1>5 DEF ForkTypeOK, ForkKinds, Latched, Ranges, Reducing

(* The next item is launched.                                              *)
LEMMA LaunchKeeps == ASSUME ForkInv, Launch PROVE ForkInv'
<1> DEFINE i == launched + 1
<1>1. /\ fphase = "launch" /\ launched < n /\ launched' = launched + 1
      /\ UNCHANGED <<fkind, n, fphase, chain, bad, reducing, reduced, ftimer>>
  BY DEF Launch
<1>2. CASE fkind = "parallel_for_each"
  <2>0. fkind \in Latched
    BY <1>2 DEF Latched
  <2>1. ASSUME LaunchThrows(i) PROVE ForkInv'
    <3>1. /\ fut' = [fut EXCEPT ![i] = "failed"] /\ UNCHANGED fcont
          /\ CountDown(latch + 1, FirstError(i, TRUE), fut')
      BY <2>1 DEF LaunchThrows
    <3>2. latch \in Nat /\ latch # 0
      BY <1>1, <2>0, NoAnswerInTheCall DEF ForkInv, ForkTypeOK, LatchCounts
    <3>3. latch + 1 # 1 /\ (latch + 1) - 1 = latch
      BY <3>2
    <3>4. latch' = latch /\ ex' = (IF ex = 0 THEN i ELSE ex) /\ UNCHANGED <<fres, answers>>
      BY <3>1, <3>3 DEF CountDown, FirstError, NoAnswer
    <3>5. "failed" \in Outcomes
      BY DEF Outcomes
    <3> HIDE DEF i
    <3>6. /\ fut' = [fut EXCEPT ![launched + 1] = "failed"]
          /\ ex' = (IF ex = 0 THEN launched + 1 ELSE ex)
      BY <3>1, <3>4 DEF i
    <3> QED
      BY <1>1, <1>2, <2>0, <3>1, <3>4, <3>5, <3>6, LaunchLatchedKeeps
  <2>2. ASSUME NEW o \in Outcomes, LaunchEach(i, o) PROVE ForkInv'
    BY <1>1, <2>0, <2>2, LaunchLatchedKeeps DEF LaunchEach
  <2>3. LaunchThrows(i) \/ \E o \in Outcomes : LaunchEach(i, o)
    BY <1>2 DEF Launch
  <2> QED
    BY <2>1, <2>2, <2>3
<1>3. CASE fkind \in {"when_all_tuple", "when_all_succeed_tuple"}
  <2>0. fkind \in Latched /\ fkind # "parallel_for_each"
    BY <1>3 DEF Latched
  <2>1. PICK o \in Outcomes : LaunchTuple(i, o)
    BY <1>3 DEF Launch
  <2>2. CASE o = "pending"
    BY <1>1, <2>0, <2>1, <2>2, LaunchLatchedKeeps DEF LaunchTuple
  <2>3. CASE o # "pending"
    BY <1>1, <2>0, <2>1, <2>3, LaunchLatchedKeeps DEF LaunchTuple
  <2> QED
    BY <2>2, <2>3
<1>4. CASE fkind \notin Latched
  <2>1. PICK o \in Outcomes : LaunchPlain(i, o)
    BY <1>4 DEF Launch, Latched
  <2> QED
    BY <1>1, <1>4, <2>1, LaunchPlainKeeps DEF LaunchPlain
<1> QED
  BY <1>2, <1>3, <1>4 DEF Latched

(* A promise of the program is answered: its future was pending, so that   *)
(* nothing that the invariant says of ready futures is touched.            *)
LEMMA ForkResolveKeeps ==
    ASSUME ForkInv, NEW i \in Launched, Resolve(i)
    PROVE  ForkInv'
<1>0. /\ fut[i] = "pending"
      /\ UNCHANGED <<fkind, n, launched, fphase, fcont, latch, ex, chain, bad,
                     reducing, reduced, ftimer, fres, answers>>
  BY DEF Resolve
<1>1. PICK o \in {"value", "failed"} : fut' = [fut EXCEPT ![i] = o]
  BY DEF Resolve
<1>2. i \in 1..n /\ i \in 1..MaxForks /\ n \in Nat
  BY ForkAssumption DEF ForkInv, ForkTypeOK, Launched
<1>3. fut' \in [1..MaxForks -> Outcomes] /\ \A j \in 1..MaxForks : j # i => fut'[j] = fut[j]
  BY <1>1, <1>2 DEF ForkInv, ForkTypeOK, Outcomes
<1>4. \A j \in 1..MaxForks : Ready(j) => Ready(j)' /\ fut'[j] = fut[j]
  BY <1>0, <1>3 DEF Ready
<1>5. 1..n \subseteq 1..MaxForks /\ Launched \subseteq 1..MaxForks /\ Launched' = Launched
  BY <1>0, ForkAssumption DEF ForkInv, ForkTypeOK, Launched
<1>6. ForkTypeOK'
  BY <1>0, <1>3 DEF ForkInv, ForkTypeOK
<1>7. UnusedParts' /\ chain'[0] = 0
  BY <1>0 DEF ForkInv, UnusedParts, ChainInOrder
<1>8. AnsweredOnceAfterAll'
  <2>1. CASE fres.st # "pending" /\ ftimer # "fired"
    BY <1>0, <1>2, <2>1 DEF ForkInv, AnsweredOnceAfterAll, Ready
  <2>2. CASE ~(fres.st # "pending" /\ ftimer # "fired")
    BY <1>0, <2>2 DEF ForkInv, AnsweredOnceAfterAll
  <2> QED
    BY <2>1, <2>2
<1>9. LatchCounts'
  BY <1>0, <1>4, <1>5 DEF ForkInv, LatchCounts
<1>10. FirstErrorKept'
  <2> SUFFICES ASSUME fkind = "parallel_for_each" PROVE FirstErrorKept'
    BY <1>0 DEF FirstErrorKept
  <2>1. \A j \in Launched \ fcont : Ready(j)
    BY DEF ForkInv, LatchCounts, Latched
  <2> QED
    BY <1>0, <1>4, <1>5, <2>1 DEF ForkInv, FirstErrorKept, Failures, Ready
<1>11. RangeWaits'
  BY <1>0, <1>4, <1>5 DEF ForkInv, RangeWaits
<1>12. ChainInOrder'
  BY <1>0, <1>4, <1>5 DEF ForkInv, ChainInOrder
<1>13. ObjectReduces'
  <2> SUFFICES ASSUME fkind = "map_reduce_object" PROVE ObjectReduces'
    BY <1>0 DEF ObjectReduces
  <2>1. \A j \in 1..Len(reduced) : fut[j] = "value" /\ j # i
    BY <1>0 DEF ForkInv, ObjectReduces
  <2>2. \A j \in 1..Len(reduced) : fut'[j] = "value"
    BY <1>3, <1>5, <2>1, ReducedInOrder
  <2> QED
    BY <1>0, <2>2 DEF ForkInv, ObjectReduces
<1>14. InitialReduces'
  BY <1>0, <1>5 DEF ForkInv, InitialReduces
<1>15. TimedOnce'
  <2>1. 1 \in 1..MaxForks
    BY <1>2, ForkAssumption
  <2> QED
    BY <1>0, <1>4, <2>1 DEF ForkInv, TimedOnce
<1> QED
  BY <1>6, <1>7, <1>8, <1>9, <1>10, <1>11, <1>12, <1>13, <1>14, <1>15 DEF ForkInv

(* One of those counted is over; the last of them answers.                 *)
LEMMA LatchDropsKeeps ==
    ASSUME ForkInv, fkind \in Latched,
           UNCHANGED <<fkind, n, launched, fut, chain, bad, reducing, reduced, ftimer>>,
           NEW e \in 0..launched, CountDown(latch, e, fut),
           fcont' \in SUBSET fcont, fphase' \in {"launch", "run"}, fphase' = "run" => launched = n,
           latch # 0, latch - 1 = Cardinality(fcont') + (IF fphase' = "launch" THEN 1 ELSE 0),
           \A i \in Launched \ fcont' : Ready(i),
           fkind = "parallel_for_each" =>
               /\ e = 0 => \A i \in Launched \ fcont' : fut[i] # "failed"
               /\ e # 0 => e \in Failures,
           fkind # "parallel_for_each" => e = 0
    PROVE  ForkInv'
<1>1. /\ latch \in Nat /\ fres.st = "pending" /\ ftimer = "none" /\ fkind # "with_timeout"
      /\ answers = 0 /\ latch' = latch - 1 /\ latch' \in Nat /\ ex' = e
  BY DEF ForkInv, ForkTypeOK, LatchCounts, UnusedParts, Latched, AnsweredOnceAfterAll, CountDown
<1>2. IsFiniteSet(fcont') /\ Cardinality(fcont') \in Nat /\ (Cardinality(fcont') = 0 <=> fcont' = {})
  <2>1. IsFiniteSet(fcont)
    BY ContinuationsFinite DEF ForkInv
  <2>2. IsFiniteSet(fcont')
    BY <2>1, FS_Subset
  <2> QED
    BY <2>2, FS_CardinalityType, FS_EmptySet
<1>3. Launched' = Launched /\ Failures' = Failures
  BY DEF Launched, Failures
<1>4. UnusedParts' /\ chain'[0] = 0
  BY <1>1 DEF ForkInv, UnusedParts, ChainInOrder
<1>5. FirstErrorKept'
  BY <1>1, <1>3 DEF FirstErrorKept
<1>6. ASSUME fres'.st \in {"pending", "value", "failed"} PROVE ForkTypeOK'
  BY <1>1, <1>6 DEF ForkInv, ForkTypeOK
<1>7. \A i \in Launched' \ fcont' : Ready(i)'
  BY <1>3 DEF Ready
<1>8. CASE latch # 1
  <2>1. UNCHANGED <<fres, answers>>
    BY <1>8 DEF CountDown, NoAnswer
  <2>2. LatchCounts'
    BY <1>1, <1>7, <1>8, <2>1 DEF LatchCounts
  <2>3. AnsweredOnceAfterAll'
    BY <1>1, <2>1 DEF AnsweredOnceAfterAll
  <2>4. ForkTypeOK'
    BY <1>1, <1>6, <2>1
  <2> QED
    BY <1>4, <1>5, <2>2, <2>3, <2>4, LatchedSuffices
<1>9. CASE latch = 1
  <2>1. fcont' = {} /\ fphase' = "run" /\ launched = n
    BY <1>1, <1>2, <1>9
  <2>2. \A i \in 1..n : Ready(i)
    BY <2>1 DEF Launched
  <2>3. RightAnswer' /\ fres'.st \in {"value", "failed"} /\ answers' = answers + 1
    <3>1. CASE fkind # "parallel_for_each"
      <4>1. Transform(fut) /\ fkind \in Ranges \cup {"when_all_tuple", "when_all_succeed_tuple"}
        BY <1>9, <3>1 DEF CountDown, Latched, Ranges
      <4> QED
        BY <2>1, <2>2, <4>1, TransformIsRight
    <3>2. CASE fkind = "parallel_for_each" /\ e # 0
      <4>1. fres' = [st |-> "failed", of |-> e] /\ answers' = answers + 1
        BY <1>9, <3>2 DEF CountDown, Exception, Answer
      <4>2. fres'.st = "failed" /\ fres'.of = e
        BY <4>1
      <4>3. \A i \in 1..n' : Ready(i)'
        BY <2>2 DEF Ready
      <4> QED
        BY <1>3, <2>1, <3>2, <4>1, <4>2, <4>3 DEF RightAnswer, Reducing, Succeed
    <3>3. CASE fkind = "parallel_for_each" /\ e = 0
      <4>1. fres' = [st |-> "value", of |-> <<>>] /\ answers' = answers + 1
        BY <1>9, <3>3 DEF CountDown, Answer
      <4>2. fres'.st = "value"
        BY <4>1
      <4>3. \A i \in 1..n' : Ready(i)'
        BY <2>2 DEF Ready
      <4>4. Failures = {}
        BY <2>1, <3>3 DEF Failures
      <4> QED
        BY <1>3, <2>1, <3>3, <4>1, <4>2, <4>3, <4>4 DEF RightAnswer, Reducing, Succeed
    <3> QED
      BY <3>1, <3>2, <3>3
  <2>4. LatchCounts'
    BY <1>1, <1>2, <1>7, <1>9, <2>1, <2>3 DEF LatchCounts
  <2>5. AnsweredOnceAfterAll'
    <3>1. answers' = 1 /\ ftimer' # "fired"
      BY <1>1, <2>3
    <3>2. fres'.st # "pending"
      BY <2>3
    <3> QED
      BY <2>3, <3>1, <3>2, <1>1 DEF AnsweredOnceAfterAll, RightAnswer
  <2>6. ForkTypeOK'
    BY <1>6, <2>3
  <2> QED
    BY <1>4, <1>5, <2>4, <2>5, <2>6, LatchedSuffices
<1> QED
  BY <1>8, <1>9

(* The continuation of one item of parallel_for_each or when_all runs.     *)
LEMMA CompleteItemKeeps ==
    ASSUME ForkInv, NEW i \in Launched, CompleteItem(i)
    PROVE  ForkInv'
<1> DEFINE failed == fut[i] = "failed"
           e == IF fkind = "parallel_for_each" THEN FirstError(i, failed) ELSE ex
<1>1. /\ fkind \in Latched /\ i \in fcont /\ Ready(i) /\ fcont' = fcont \ {i}
      /\ CountDown(latch, e, fut)
      /\ UNCHANGED <<fkind, n, launched, fphase, fut, chain, bad, reducing, reduced, ftimer>>
  BY DEF CompleteItem, MayRun
<1>2. /\ launched \in Nat /\ ex \in 0..launched /\ i \in 1..launched
      /\ fphase \in {"launch", "run"} /\ (fphase = "run" => launched = n)
  BY DEF ForkInv, ForkTypeOK, Launched
<1>3. e \in 0..launched
  BY <1>2 DEF FirstError
<1>4. /\ IsFiniteSet(fcont) /\ Cardinality(fcont) \in Nat
      /\ Cardinality(fcont) = 0 <=> fcont = {}
  BY ContinuationsFinite DEF ForkInv
<1>5. Cardinality(fcont \ {i}) = Cardinality(fcont) - 1
  BY <1>1, <1>4, FS_RemoveElement
<1>6. latch = Cardinality(fcont) + (IF fphase = "launch" THEN 1 ELSE 0)
  BY <1>1 DEF ForkInv, LatchCounts
<1>7. latch # 0 /\ latch - 1 = Cardinality(fcont') + (IF fphase' = "launch" THEN 1 ELSE 0)
  <2>1. Cardinality(fcont') = Cardinality(fcont) - 1
    BY <1>1, <1>5
  <2>2. Cardinality(fcont) # 0 /\ fphase' = fphase
    BY <1>1, <1>4
  <2> QED
    BY <1>4, <1>6, <2>1, <2>2
<1>8. \A j \in Launched \ fcont' : Ready(j)
  BY <1>1 DEF ForkInv, LatchCounts
<1>9. ASSUME fkind = "parallel_for_each"
      PROVE  /\ e = 0 => \A j \in Launched \ fcont' : fut[j] # "failed"
             /\ e # 0 => e \in Failures
  BY <1>1, <1>2, <1>9 DEF ForkInv, FirstErrorKept, FirstError, Failures
<1>10. fcont' \in SUBSET fcont /\ fphase' \in {"launch", "run"} /\ (fphase' = "run" => launched = n)
  BY <1>1, <1>2
<1>11. fkind # "parallel_for_each" => e = 0
  BY DEF ForkInv, UnusedParts
<1> HIDE DEF e
<1> QED
  BY <1>1, <1>3, <1>11, <1>7, <1>8, <1>9, <1>10, LatchDropsKeeps

(* A set of numbers has a smallest one: the mirror image of Largest.       *)
LEMMA Smallest ==
    ASSUME NEW L \in Nat, NEW S \in SUBSET (0..L), S # {}
    PROVE  \E i \in S : \A j \in S : i <= j
<1> DEFINE T == {L - i : i \in S}
<1>1. T \in SUBSET (0..L) /\ T # {}
  <2>1. \A i \in S : L - i \in 0..L
    OBVIOUS
  <2> QED
    BY <2>1
<1>2. PICK m \in T : \A k \in T : k <= m
  <2> HIDE DEF T
  <2> QED
    BY <1>1, Largest
<1>3. PICK i \in S : m = L - i
  BY <1>2
<1>4. \A j \in S : L - j <= L - i
  BY <1>2, <1>3
<1> QED
  BY <1>4

(* The future that a range of when_all waits for is the first one that is  *)
(* not ready; if there is none it is answered.                             *)
LEMMA WaitFromKeeps ==
    ASSUME ForkInv, fkind \in Ranges, fres.st = "pending", launched = n, fphase' = "run",
           UNCHANGED <<fkind, n, launched, fut, latch, ex, chain, bad, reducing, reduced, ftimer>>,
           NEW pos \in Nat \ {0}, \A j \in 1..n : j < pos => Ready(j), WaitFrom(pos)
    PROVE  ForkInv'
<1> DEFINE unready == {i \in pos..n : ~Ready(i)}
<1>1. n \in Nat /\ answers = 0 /\ ftimer = "none" /\ fkind # "with_timeout"
  BY DEF ForkInv, ForkTypeOK, UnusedParts, AnsweredOnceAfterAll, Ranges
<1>2. UnusedParts' /\ chain'[0] = 0
  BY DEF ForkInv, UnusedParts, ChainInOrder
<1>3. CASE unready = {}
  <2>1. fcont' = {} /\ Transform(fut)
    BY <1>3 DEF WaitFrom
  <2>2. \A j \in 1..n : Ready(j)
    <3>1. \A j \in 1..n : j < pos \/ j \in pos..n
      BY <1>1
    <3> QED
      BY <1>3, <3>1
  <2>3. RightAnswer' /\ fres'.st \in {"value", "failed"} /\ answers' = answers + 1
    BY <2>1, <2>2, TransformIsRight
  <2>4. AnsweredOnceAfterAll'
    <3>1. answers' = 1 /\ ftimer' # "fired" /\ fres'.st # "pending"
      BY <1>1, <2>3
    <3> QED
      BY <2>3, <3>1, <1>1 DEF AnsweredOnceAfterAll, RightAnswer
  <2>5. ForkTypeOK'
    BY <2>1, <2>3 DEF ForkInv, ForkTypeOK
  <2>6. RangeWaits'
    BY <2>1, <2>2, <2>3 DEF RangeWaits, Ready
  <2> QED
    BY <1>2, <2>4, <2>5, <2>6, RangesSuffice
<1>4. CASE unready # {}
  <2>1. \E i \in unready : \A j \in unready : i <= j
    <3>1. unready \in SUBSET (0..n)
      BY <1>1
    <3> HIDE DEF unready
    <3> QED
      BY <1>1, <1>4, <3>1, Smallest
  <2>2. Min(unready) \in unready /\ \A j \in unready : Min(unready) <= j
    BY <2>1 DEF Min
  <2>3. PICK i \in pos..n : i = Min(unready) /\ ~Ready(i) /\ \A j \in unready : i <= j
    BY <2>2
  <2>4. fcont' = {i} /\ UNCHANGED <<fres, answers>>
    BY <1>4, <2>3 DEF WaitFrom, NoAnswer
  <2>5. i \in 1..n /\ \A j \in 1..n : j < i => Ready(j)
    <3>1. \A j \in 1..n : j < i => j < pos \/ (j \in pos..n /\ j \notin unready)
      BY <1>1, <2>3
    <3> QED
      BY <1>1, <2>3, <3>1
  <2>6. ForkTypeOK'
    BY <2>4, <2>5 DEF ForkInv, ForkTypeOK
  <2>7. RangeWaits'
    BY <2>4, <2>5 DEF RangeWaits, Ready
  <2>8. AnsweredOnceAfterAll'
    BY <1>1, <2>4 DEF AnsweredOnceAfterAll
  <2> QED
    BY <1>2, <2>6, <2>7, <2>8, RangesSuffice
<1> QED
  BY <1>3, <1>4

(* The future that it waited for is ready.                                 *)
LEMMA CompleteRangeKeeps ==
    ASSUME ForkInv, NEW i \in Launched, CompleteRange(i)
    PROVE  ForkInv'
<1>1. /\ fkind \in Ranges /\ i \in fcont /\ Ready(i) /\ WaitFrom(i + 1)
      /\ UNCHANGED <<fkind, n, launched, fphase, fut, latch, ex, chain, bad,
                     reducing, reduced, ftimer>>
  BY DEF CompleteRange, MayRun
<1>2. fphase = "run" /\ fres.st = "pending" /\ launched = n /\ n \in Nat
  BY <1>1 DEF ForkInv, ForkTypeOK, RangeWaits
<1>3. i \in 1..n /\ \A j \in 1..n : j < i => Ready(j)
  BY <1>1, <1>2 DEF ForkInv, RangeWaits
<1>4. i + 1 \in Nat \ {0} /\ \A j \in 1..n : j < i + 1 => Ready(j)
  BY <1>1, <1>2, <1>3
<1> QED
  BY <1>1, <1>2, <1>4, WaitFromKeeps

(* The call returns.                                                       *)
LEMMA ReturnKeeps == ASSUME ForkInv, Return PROVE ForkInv'
<1>1. /\ fphase = "launch" /\ launched = n /\ fphase' = "run"
      /\ UNCHANGED <<fkind, n, launched, fut, chain, bad, reducing, reduced>>
  BY DEF Return
<1>2. fres.st = "pending" /\ ftimer = "none" /\ answers = 0
  BY <1>1, NoAnswerInTheCall DEF ForkInv, AnsweredOnceAfterAll
<1>3. /\ n \in Nat /\ ex \in 0..launched /\ latch \in Nat /\ Launched' = Launched
      /\ Failures' = Failures
  BY <1>1 DEF ForkInv, ForkTypeOK, Launched, Failures
<1>4. CASE fkind \in Latched
  <2>1. CountDown(latch, ex, fut) /\ UNCHANGED <<fcont, ftimer>>
    BY <1>4 DEF Return, Latched, Ranges, Reducing
  <2>2. Cardinality(fcont) \in Nat
    BY ContinuationsFinite DEF ForkInv
  <2>3. latch # 0 /\ latch - 1 = Cardinality(fcont') + (IF fphase' = "launch" THEN 1 ELSE 0)
    BY <1>1, <1>4, <2>1, <2>2 DEF ForkInv, LatchCounts
  <2>4. /\ fcont' \in SUBSET fcont /\ fphase' \in {"launch", "run"}
        /\ \A i \in Launched \ fcont' : Ready(i)
    BY <1>1, <1>4, <2>1 DEF ForkInv, LatchCounts
  <2>5. /\ fkind = "parallel_for_each" =>
               /\ ex = 0 => \A i \in Launched \ fcont' : fut[i] # "failed"
               /\ ex # 0 => ex \in Failures
        /\ fkind # "parallel_for_each" => ex = 0
    BY <2>1 DEF ForkInv, FirstErrorKept, UnusedParts
  <2> QED
    BY <1>1, <1>3, <1>4, <2>1, <2>3, <2>4, <2>5, LatchDropsKeeps
<1>5. CASE fkind \in Ranges
  <2>1. WaitFrom(1) /\ UNCHANGED <<latch, ex, ftimer>>
    BY <1>5 DEF Return, Latched, Ranges, Reducing
  <2>2. 1 \in Nat \ {0} /\ \A j \in 1..n : j < 1 => Ready(j)
    BY <1>3
  <2> QED
    BY <1>1, <1>2, <1>5, <2>1, <2>2, WaitFromKeeps
<1>6. CASE fkind \in Reducing
  <2>1. UNCHANGED <<fcont, latch, ex, ftimer, fres, answers>>
    BY <1>6 DEF Return, NoAnswer, Reducing, Ranges, Latched
  <2>2. ForkTypeOK' /\ UnusedParts'
    BY <1>1, <2>1 DEF ForkInv, ForkTypeOK, UnusedParts
  <2>3. ChainInOrder'
    BY <1>1, <1>2, <1>3, <2>1 DEF ForkInv, ChainInOrder, Ready
  <2>4. ObjectReduces' /\ InitialReduces'
    BY <1>1, <1>3, <2>1 DEF ForkInv, ObjectReduces, InitialReduces
  <2>5. AnsweredOnceAfterAll'
    BY <1>2, <2>1 DEF AnsweredOnceAfterAll
  <2> QED
    BY <1>1, <1>6, <2>2, <2>3, <2>4, <2>5, ReducingSuffices
<1>7. CASE fkind = "with_timeout"
  <2>1. n = 1 /\ fcont = {} /\ chain'[0] = 0 /\ UNCHANGED <<latch, ex>>
    BY <1>1, <1>7 DEF ForkInv, ForkTypeOK, TimedOnce, ChainInOrder, Return, Latched, Ranges, Reducing
  <2>2. CASE Ready(1)
    <3>1. UNCHANGED <<fcont, ftimer>> /\ answers' = answers + 1
          /\ \/ fut[1] = "failed" /\ fres' = [st |-> "failed", of |-> 1]
             \/ fut[1] # "failed" /\ fres' = [st |-> "value", of |-> <<1>>]
      BY <1>7, <2>2 DEF Return, Exception, Answer, Latched, Ranges, Reducing
    <3>2. fres'.st \in {"value", "failed"} /\ (fres'.st = "failed" <=> fut[1] = "failed")
      BY <3>1
    <3>3. ForkTypeOK' /\ UnusedParts'
      BY <1>1, <1>7, <2>1, <3>1, <3>2 DEF ForkInv, ForkTypeOK, UnusedParts
    <3>4. TimedOnce'
      BY <1>1, <1>2, <2>1, <2>2, <3>1, <3>2 DEF TimedOnce, Ready
    <3>5. Failures # {} <=> fut[1] = "failed"
      BY <1>1, <2>1 DEF Failures, Launched
    <3>6. AnsweredOnceAfterAll'
      BY <1>1, <1>2, <1>3, <1>7, <2>1, <2>2, <3>1, <3>2, <3>5
         DEF AnsweredOnceAfterAll, Ready, Succeed, Reducing
    <3> QED
      BY <1>1, <1>7, <2>1, <3>3, <3>4, <3>6, TimeoutSuffices
  <2>3. CASE ~Ready(1)
    <3>1. fcont' = {1} /\ ftimer' = "armed" /\ UNCHANGED <<fres, answers>>
      BY <1>7, <2>3 DEF Return, NoAnswer, Latched, Ranges, Reducing
    <3>2. ForkTypeOK' /\ UnusedParts'
      BY <1>1, <1>7, <2>1, <3>1 DEF ForkInv, ForkTypeOK, UnusedParts
    <3>3. TimedOnce'
      BY <1>1, <1>2, <3>1 DEF TimedOnce
    <3>4. AnsweredOnceAfterAll'
      BY <1>2, <3>1 DEF AnsweredOnceAfterAll
    <3> QED
      BY <1>1, <1>7, <2>1, <3>2, <3>3, <3>4, TimeoutSuffices
  <2> QED
    BY <2>2, <2>3
<1> QED
  BY <1>4, <1>5, <1>6, <1>7 DEF ForkInv, ForkTypeOK, ForkKinds, Latched, Ranges, Reducing

(* The timer fires: the answer is its.                                     *)
LEMMA TimerFiresKeeps == ASSUME ForkInv, TimerFires PROVE ForkInv'
<1>1. /\ ftimer = "armed" /\ ftimer' = "fired" /\ fres' = [st |-> "failed", of |-> 0]
      /\ answers' = answers + 1
      /\ UNCHANGED <<fkind, n, launched, fphase, fut, fcont, latch, ex, chain, bad,
                     reducing, reduced>>
  BY DEF TimerFires, Exception, Answer
<1>2. fkind = "with_timeout" /\ chain[0] = 0 /\ fphase = "run"
  BY <1>1 DEF ForkInv, UnusedParts, ChainInOrder, TimedOnce
<1>3. fres.st = "pending" /\ answers = 0 /\ fres'.st = "failed"
  BY <1>1, <1>2 DEF ForkInv, TimedOnce, AnsweredOnceAfterAll
<1>4. ForkTypeOK' /\ UnusedParts'
  BY <1>1, <1>2, <1>3 DEF ForkInv, ForkTypeOK, UnusedParts
<1>5. TimedOnce'
  BY <1>1, <1>2 DEF TimedOnce
<1>6. AnsweredOnceAfterAll'
  BY <1>1, <1>3 DEF AnsweredOnceAfterAll
<1> QED
  BY <1>1, <1>2, <1>4, <1>5, <1>6, TimeoutSuffices

(* The future that with_timeout was given is ready, in time or late.       *)
LEMMA AnsweredKeeps ==
    ASSUME ForkInv, NEW i \in Launched, Answered(i)
    PROVE  ForkInv'
<1>1. /\ fkind = "with_timeout" /\ i \in fcont /\ Ready(i) /\ fcont' = {}
      /\ UNCHANGED <<fkind, n, launched, fphase, fut, latch, ex, chain, bad,
                     reducing, reduced>>
  BY DEF Answered, MayRun
<1>2. /\ n = 1 /\ launched = 1 /\ i = 1 /\ chain'[0] = 0 /\ fphase = "run"
      /\ ftimer \in {"armed", "fired"}
  BY <1>1 DEF ForkInv, ForkTypeOK, TimedOnce, ChainInOrder, Launched
<1>3. CASE ftimer = "armed"
  <2>1. /\ ftimer' = "none" /\ answers' = answers + 1
        /\ \/ fut[1] = "failed" /\ fres' = [st |-> "failed", of |-> 1]
           \/ fut[1] # "failed" /\ fres' = [st |-> "value", of |-> <<1>>]
    BY <1>2, <1>3 DEF Answered, Exception, Answer
  <2>2. fres'.st \in {"value", "failed"} /\ (fres'.st = "failed" <=> fut[1] = "failed")
    BY <2>1
  <2>3. ForkTypeOK' /\ UnusedParts'
    BY <1>1, <1>2, <2>1, <2>2 DEF ForkInv, ForkTypeOK, UnusedParts
  <2>4. TimedOnce'
    BY <1>1, <1>2, <2>1, <2>2 DEF TimedOnce, Ready
  <2>5. fres.st = "pending" /\ answers = 0
    BY <1>1, <1>3 DEF ForkInv, TimedOnce, AnsweredOnceAfterAll
  <2>6. /\ Failures # {} <=> fut[1] = "failed"
        /\ Failures' = Failures
    BY <1>1, <1>2 DEF Failures, Launched
  <2>7. AnsweredOnceAfterAll'
    BY <1>1, <1>2, <2>1, <2>2, <2>5, <2>6 DEF AnsweredOnceAfterAll, Ready, Succeed, Reducing
  <2> QED
    BY <1>1, <1>2, <2>3, <2>4, <2>7, TimeoutSuffices
<1>4. CASE ftimer = "fired"
  <2>1. UNCHANGED <<fres, answers, ftimer>>
    BY <1>4 DEF Answered, NoAnswer
  <2>2. ForkTypeOK' /\ UnusedParts'
    BY <1>1, <2>1 DEF ForkInv, ForkTypeOK, UnusedParts
  <2>3. TimedOnce'
    BY <1>1, <1>2, <1>4, <2>1 DEF TimedOnce
  <2>4. AnsweredOnceAfterAll'
    BY <1>4, <2>1 DEF ForkInv, AnsweredOnceAfterAll
  <2> QED
    BY <1>1, <1>2, <2>2, <2>3, <2>4, TimeoutSuffices
<1> QED
  BY <1>2, <1>3, <1>4

(* One more element of a sequence.                                         *)
LEMMA ToSetOfAppend ==
    ASSUME NEW S, NEW s \in Seq(S), NEW x \in S
    PROVE  /\ Append(s, x) \in Seq(S) /\ ToSet(Append(s, x)) = ToSet(s) \cup {x}
           /\ IsInjective(s) /\ x \notin ToSet(s) => IsInjective(Append(s, x))
<1> DEFINE t == Append(s, x)
<1>1. PICK k \in Nat : k = Len(s) /\ DOMAIN s = 1..k
  OBVIOUS
<1>2. t \in Seq(S) /\ Len(t) = k + 1 /\ DOMAIN t = 1..k + 1
  BY <1>1
<1>3. t[k + 1] = x /\ \A i \in 1..k : t[i] = s[i]
  BY <1>1
<1>4. 1..k + 1 = 1..k \cup {k + 1}
  OBVIOUS
<1> HIDE DEF t
<1>5. ToSet(t) = ToSet(s) \cup {x}
  BY <1>1, <1>2, <1>3, <1>4 DEF ToSet
<1>6. ASSUME IsInjective(s), x \notin ToSet(s) PROVE IsInjective(t)
  <2>1. \A i \in 1..k : s[i] # x
    BY <1>1, <1>6 DEF ToSet
  <2>2. \A i, j \in 1..k : s[i] = s[j] => i = j
    BY <1>1, <1>6 DEF IsInjective
  <2> QED
    BY <1>2, <1>3, <1>4, <2>1, <2>2 DEF IsInjective
<1> QED
  BY <1>2, <1>5, <1>6 DEF t

(* A mapper's future is ready: with an initial value the reduction takes   *)
(* place, or raises.                                                       *)
LEMMA MappedKeeps ==
    ASSUME ForkInv, NEW i \in Launched, Mapped(i)
    PROVE  ForkInv'
<1>1. /\ fkind \in Reducing /\ i \in fcont /\ Ready(i) /\ fcont' = fcont \ {i}
      /\ UNCHANGED <<fkind, n, launched, fphase, fut, latch, ex, chain, reducing,
                     ftimer, fres, answers>>
  BY DEF Mapped, MayRun
<1>2. \/ fkind = "map_reduce_object" /\ bad' = bad /\ reduced' = reduced
      \/ fkind # "map_reduce_object" /\ bad' = bad /\ reduced' = Append(reduced, i)
      \/ fkind # "map_reduce_object" /\ bad' = bad \cup {i} /\ reduced' = reduced
  BY DEF Mapped
<1>3. /\ launched \in Nat /\ launched <= n /\ n \in Nat /\ n <= MaxForks /\ MaxForks \in Nat
      /\ i \in 1..launched /\ reduced \in Seq(1..launched) /\ bad \in SUBSET (1..launched)
  BY ForkAssumption DEF ForkInv, ForkTypeOK, Launched
<1>4. /\ Append(reduced, i) \in Seq(1..launched)
      /\ ToSet(Append(reduced, i)) = ToSet(reduced) \cup {i}
      /\ IsInjective(reduced) /\ i \notin ToSet(reduced) => IsInjective(Append(reduced, i))
  BY <1>3, ToSetOfAppend
<1>5. Launched' = Launched /\ Launched' \ fcont' = (Launched \ fcont) \cup {i}
  BY <1>1 DEF Launched
<1>6. ForkTypeOK'
  <2>1. reduced' \in Seq(1..launched) /\ bad' \in SUBSET (1..launched)
    BY <1>2, <1>3, <1>4
  <2> QED
    BY <1>1, <2>1 DEF ForkInv, ForkTypeOK
<1>7. UnusedParts'
  BY <1>1 DEF ForkInv, UnusedParts
<1>8. ChainInOrder'
  BY <1>1, <1>5 DEF ForkInv, ChainInOrder, Ready
<1>9. AnsweredOnceAfterAll'
  BY <1>1, <1>5 DEF ForkInv, AnsweredOnceAfterAll, Failures, Ready
<1>10. ObjectReduces'
  BY <1>1, <1>2 DEF ForkInv, ObjectReduces
<1>11. \A j \in 0..MaxForks : chain[j] # -1 => j < i
  <2>1. chain[i] = -1 /\ i \in 0..MaxForks
    BY <1>1, <1>3 DEF ForkInv, ChainInOrder
  <2>2. \A j \in 0..MaxForks : i <= j /\ chain[j] # -1 => chain[i] # -1
    BY <1>1, <2>1 DEF ForkInv, ChainInOrder
  <2> QED
    BY <1>3, <2>1, <2>2
<1>12. InitialReduces'
  <2> SUFFICES ASSUME fkind = "map_reduce_initial" PROVE InitialReduces'
    BY <1>1 DEF InitialReduces
  <2>1. /\ IsInjective(reduced) /\ ToSet(reduced) \cup bad = Launched \ fcont
        /\ ToSet(reduced) \cap bad = {} /\ i \notin ToSet(reduced) /\ i \notin bad
        /\ \A j \in 0..MaxForks : chain[j] # -1 =>
              IF chain[j] = 0 THEN \A k \in bad : k > j
              ELSE chain[j] \in bad /\ chain[j] <= j /\ \A k \in bad : k <= chain[j] \/ k > j
    BY <1>1 DEF ForkInv, InitialReduces
  <2>2. CASE bad' = bad /\ reduced' = Append(reduced, i)
    <3>1. /\ IsInjective(reduced') /\ ToSet(reduced') = ToSet(reduced) \cup {i}
      BY <1>4, <2>1, <2>2
    <3>2. ToSet(reduced') \cup bad' = Launched' \ fcont' /\ ToSet(reduced') \cap bad' = {}
      BY <1>5, <2>1, <2>2, <3>1
    <3> QED
      BY <1>1, <2>1, <2>2, <3>1, <3>2 DEF InitialReduces
  <2>3. CASE bad' = bad \cup {i} /\ reduced' = reduced
    <3>2. ToSet(reduced') \cup bad' = Launched' \ fcont' /\ ToSet(reduced') \cap bad' = {}
      BY <1>5, <2>1, <2>3
    <3>3. ASSUME NEW j \in 0..MaxForks, chain[j] # -1
          PROVE  IF chain[j] = 0 THEN \A k \in bad' : k > j
                 ELSE chain[j] \in bad' /\ chain[j] <= j /\ \A k \in bad' : k <= chain[j] \/ k > j
      BY <1>11, <2>1, <2>3, <3>3
    <3> QED
      BY <1>1, <2>1, <2>3, <3>2, <3>3 DEF InitialReduces
  <2> QED
    BY <1>2, <2>2, <2>3
<1> QED
  BY <1>1, <1>6, <1>7, <1>8, <1>9, <1>10, <1>12, ReducingSuffices

(* The chain of map_reduce grows by the item i: the one before it is       *)
(* settled, i itself is mapped, and what comes after it is not settled.    *)
LEMMA ChainGrows ==
    ASSUME ForkInv, fkind \in Reducing, NEW i \in Launched, i \notin fcont,
           chain[i] = -1, chain[i - 1] # -1, NEW k \in Nat,
           chain' = [chain EXCEPT ![i] = k],
           UNCHANGED <<fkind, n, launched, fphase, fut, fcont, latch, ex, bad,
                       ftimer, fres, answers>>
    PROVE  /\ ChainInOrder' /\ AnsweredOnceAfterAll' /\ fres.st = "pending"
           /\ i \in 1..launched /\ i - 1 \in 0..MaxForks /\ i \in 0..MaxForks
           /\ chain'[i] = k /\ \A j \in 0..MaxForks : j # i => chain'[j] = chain[j]
           /\ chain' \in [0..MaxForks -> Nat \cup {-1}]
<1>1. /\ launched \in Nat /\ launched <= n /\ n \in Nat /\ n <= MaxForks /\ MaxForks \in Nat
      /\ i \in 1..launched /\ i \in 0..MaxForks /\ i - 1 \in 0..MaxForks /\ n \in 0..MaxForks
      /\ 0 \in 0..MaxForks
  BY ForkAssumption DEF ForkInv, ForkTypeOK, Launched
<1>2. \A j, m \in 0..MaxForks : j <= m /\ chain[m] # -1 => chain[j] # -1
  BY DEF ForkInv, ChainInOrder
<1>3. chain[n] = -1
  BY <1>1, <1>2
<1>4. fres.st = "pending"
  BY <1>3 DEF ForkInv, ChainInOrder
<1>5. /\ chain'[i] = k /\ \A j \in 0..MaxForks : j # i => chain'[j] = chain[j]
      /\ chain' \in [0..MaxForks -> Nat \cup {-1}] /\ k # -1
  BY <1>1 DEF ForkInv, ForkTypeOK
<1>6. \A j, m \in 0..MaxForks : j <= m /\ chain'[m] # -1 => chain'[j] # -1
  <2>1. \A j \in 0..MaxForks : j <= i - 1 => chain[j] # -1
    BY <1>1, <1>2
  <2>2. \A j \in 0..MaxForks : j <= i => j = i \/ j <= i - 1
    BY <1>1
  <2> QED
    BY <1>2, <1>5, <2>1, <2>2
<1>7. chain'[0] = 0
  BY <1>1, <1>5 DEF ForkInv, ChainInOrder
<1>8. ChainInOrder'
  <2>1. \A j \in 0..MaxForks : chain'[j] # -1 => j <= launched /\ j \notin fcont
    BY <1>1, <1>5 DEF ForkInv, ChainInOrder
  <2>2. \A j \in Launched' \ fcont' : Ready(j)'
    BY DEF ForkInv, ChainInOrder, Launched, Ready
  <2> QED
    BY <1>4, <1>6, <1>7, <2>1, <2>2 DEF ChainInOrder
<1>9. AnsweredOnceAfterAll'
  BY <1>4 DEF ForkInv, AnsweredOnceAfterAll
<1> QED
  BY <1>1, <1>4, <1>5, <1>8, <1>9

(* With an initial value: the answer of the item, if it raised, or of the  *)
(* one before it.                                                          *)
LEMMA LinkInitialKeeps ==
    ASSUME ForkInv, NEW i \in Launched, LinkInitial(i),
           UNCHANGED <<fkind, n, launched, fphase, fut, fcont, latch, ex, bad,
                       ftimer, fres, answers>>
    PROVE  ForkInv'
<1> DEFINE k == IF i \in bad THEN i ELSE chain[i - 1]
<1>1. /\ fkind = "map_reduce_initial" /\ i \notin fcont /\ chain[i] = -1 /\ chain[i - 1] # -1
      /\ chain' = [chain EXCEPT ![i] = k] /\ UNCHANGED <<reducing, reduced>>
  BY DEF LinkInitial, Linked, SetChain
<1>2. fkind \in Reducing /\ fkind # "map_reduce_object"
  BY <1>1 DEF Reducing
<1>3. i \in 1..launched /\ launched \in Nat /\ i - 1 \in 0..MaxForks /\ chain[i - 1] \in Nat
  BY <1>1, ForkAssumption DEF ForkInv, ForkTypeOK, Launched
<1>4. k \in Nat /\ (i \in bad => k = i) /\ (i \notin bad => k = chain[i - 1])
  BY <1>3
<1> HIDE DEF k
<1>5. /\ ChainInOrder' /\ AnsweredOnceAfterAll'
      /\ chain'[i] = k /\ \A j \in 0..MaxForks : j # i => chain'[j] = chain[j]
      /\ chain' \in [0..MaxForks -> Nat \cup {-1}]
  BY <1>1, <1>2, <1>4, ChainGrows
<1>6. ForkTypeOK' /\ UnusedParts'
  BY <1>1, <1>5 DEF ForkInv, ForkTypeOK, UnusedParts
<1>7. ObjectReduces'
  BY <1>2 DEF ObjectReduces
<1>8. InitialReduces'
  <2>1. \A j \in 0..MaxForks : chain[j] # -1 =>
              IF chain[j] = 0 THEN \A b \in bad : b > j
              ELSE chain[j] \in bad /\ chain[j] <= j /\ \A b \in bad : b <= chain[j] \/ b > j
    BY <1>1 DEF ForkInv, InitialReduces
  <2>2. \A b \in bad : b \in Nat
    BY DEF ForkInv, ForkTypeOK
  <2>3. IF k = 0 THEN \A b \in bad : b > i
        ELSE k \in bad /\ k <= i /\ \A b \in bad : b <= k \/ b > i
    <3>1. CASE i \in bad
      BY <1>3, <1>4, <2>2, <3>1
    <3>2. CASE i \notin bad
      <4>1. \A b \in bad : b > i - 1 => b > i
        BY <1>3, <2>2, <3>2
      <4> QED
        BY <1>1, <1>3, <1>4, <2>1, <2>2, <3>2, <4>1
    <3> QED
      BY <3>1, <3>2
  <2>4. \A j \in 0..MaxForks : chain'[j] # -1 =>
              IF chain'[j] = 0 THEN \A b \in bad : b > j
              ELSE chain'[j] \in bad /\ chain'[j] <= j /\ \A b \in bad : b <= chain'[j] \/ b > j
    BY <1>5, <2>1, <2>3
  <2>5. Launched' = Launched
    BY DEF Launched
  <2> QED
    BY <1>1, <2>4, <2>5 DEF ForkInv, InitialReduces
<1> QED
  BY <1>2, <1>5, <1>6, <1>7, <1>8, ReducingSuffices

(* With an object: a failure is passed on or is the item's own, or the     *)
(* reducer is called for the item, the next one in the order of the range. *)
LEMMA LinkObjectKeeps ==
    ASSUME ForkInv, NEW i \in Launched, LinkObject(i),
           UNCHANGED <<fkind, n, launched, fphase, fut, fcont, latch, ex, bad,
                       ftimer, fres, answers>>
    PROVE  ForkInv'
<1>1. /\ fkind = "map_reduce_object" /\ i \notin fcont /\ chain[i] = -1 /\ chain[i - 1] # -1
      /\ reducing = 0
  BY DEF LinkObject, Linked
<1>2. fkind \in Reducing
  BY <1>1 DEF Reducing
<1>3. /\ i \in 1..launched /\ launched \in Nat /\ launched <= n /\ n \in Nat /\ n <= MaxForks
      /\ MaxForks \in Nat /\ i - 1 \in 0..MaxForks /\ chain[i - 1] \in Nat /\ i \in 1..MaxForks
  BY <1>1, ForkAssumption DEF ForkInv, ForkTypeOK, Launched
<1>4. /\ Len(reduced) \in Nat /\ Len(reduced) <= launched
      /\ \A j \in 1..Len(reduced) : reduced[j] = j /\ j \in Launched
  BY <1>1, ReducedInOrder
<1>5. /\ bad = {}
      /\ reduced = [j \in 1..Len(reduced) |-> j]
      /\ \A j \in 1..Len(reduced) :
            chain[j - 1] = 0 /\ fut[j] = "value" /\ j \notin fcont /\ chain[j] # -1
      /\ \A j \in 1..MaxForks : chain[j] = 0 => j <= Len(reduced)
  <2>1. \A j \in 1..Len(reduced) : j # reducing
    BY <1>1
  <2> QED
    BY <1>1, <2>1 DEF ForkInv, ObjectReduces
<1>6. i > Len(reduced)
  BY <1>1, <1>3, <1>4, <1>5
<1>7. InitialReduces'
  BY <1>1 DEF InitialReduces
<1>8. ASSUME NEW k \in Nat, k # 0, chain' = [chain EXCEPT ![i] = k], UNCHANGED <<reducing, reduced>>
      PROVE  ForkInv'
  <2>1. /\ ChainInOrder' /\ AnsweredOnceAfterAll'
        /\ chain'[i] = k /\ \A j \in 0..MaxForks : j # i => chain'[j] = chain[j]
        /\ chain' \in [0..MaxForks -> Nat \cup {-1}]
    BY <1>1, <1>2, <1>8, ChainGrows
  <2>2. ForkTypeOK' /\ UnusedParts'
    BY <1>8, <2>1 DEF ForkInv, ForkTypeOK, UnusedParts
  <2>3. \A j \in 1..Len(reduced) : j - 1 \in 0..MaxForks /\ j - 1 # i /\ j \in 0..MaxForks /\ j # i
    BY <1>3, <1>4, <1>6
  <2>4. \A j \in 1..Len(reduced) : chain'[j - 1] = 0 /\ chain'[j] # -1
    BY <1>5, <2>1, <2>3
  <2>5. \A j \in 1..MaxForks : chain'[j] = 0 => j <= Len(reduced)
    BY <1>5, <1>8, <2>1
  <2>6. ObjectReduces'
    BY <1>1, <1>5, <1>8, <2>4, <2>5 DEF ObjectReduces
  <2> QED
    BY <1>2, <1>7, <2>1, <2>2, <2>6, ReducingSuffices
<1>9. CASE chain[i - 1] > 0
  <2>1. chain' = [chain EXCEPT ![i] = chain[i - 1]] /\ UNCHANGED <<reducing, reduced>>
    BY <1>9 DEF LinkObject, SetChain
  <2>2. PICK k \in Nat : k = chain[i - 1] /\ k # 0
    BY <1>3, <1>9
  <2>3. chain' = [chain EXCEPT ![i] = k]
    BY <2>1, <2>2
  <2> QED
    BY <1>8, <2>1, <2>2, <2>3
<1>10. CASE chain[i - 1] = 0 /\ fut[i] = "failed"
  <2>1. chain' = [chain EXCEPT ![i] = i] /\ UNCHANGED <<reducing, reduced>>
    BY <1>10 DEF LinkObject, SetChain
  <2>2. i \in Nat /\ i # 0
    BY <1>3
  <2> QED
    BY <1>8, <2>1, <2>2
<1>11. CASE chain[i - 1] = 0 /\ fut[i] # "failed"
  <2>1. reducing' = i /\ reduced' = Append(reduced, i) /\ UNCHANGED chain
    BY <1>11 DEF LinkObject
  <2>2. PICK m \in Nat : m = Len(reduced)
    BY <1>4
  <2>3. i = m + 1
    <3>1. i = 1 \/ i - 1 \in 1..MaxForks
      BY <1>3
    <3> QED
      BY <1>3, <1>5, <1>6, <1>11, <2>2, <3>1
  <2>4. /\ reduced' \in Seq(1..launched) /\ Len(reduced') = m + 1
    BY <1>3, <2>1, <2>2 DEF ForkInv, ForkTypeOK
  <2>5. reduced' = [j \in 1..m + 1 |-> j]
    <3>1. reduced \in Seq(1..launched) /\ reduced = [j \in 1..m |-> j]
      BY <1>5, <2>2 DEF ForkInv, ForkTypeOK
    <3>2. \A j \in 1..m + 1 : Append(reduced, i)[j] = j
      BY <2>2, <2>3, <3>1
    <3>3. Append(reduced, i) = [j \in 1..m + 1 |-> Append(reduced, i)[j]]
      BY <1>3, <2>2, <3>1
    <3> QED
      BY <2>1, <3>2, <3>3
  <2>6. fut[i] = "value"
    <3>1. Ready(i) /\ fut[i] \in Outcomes
      BY <1>1, <1>2, <1>3 DEF ForkInv, ForkTypeOK, ChainInOrder
    <3> QED
      BY <1>11, <3>1 DEF Ready, Outcomes
  <2>7. ForkTypeOK'
    BY <1>3, <2>1, <2>4 DEF ForkInv, ForkTypeOK
  <2>8. UnusedParts'
    BY <1>1, <1>2 DEF ForkInv, UnusedParts
  <2>9. ChainInOrder'
    BY <2>1 DEF ForkInv, ChainInOrder, Ready, Launched
  <2>10. AnsweredOnceAfterAll'
    BY DEF ForkInv, AnsweredOnceAfterAll, Failures, Launched, Ready
  <2>11. ObjectReduces'
    <3>1. \A j \in 1..m + 1 : j \in 1..m \/ j = i
      BY <2>3
    <3>2. \A j \in 1..m + 1 : /\ chain[j - 1] = 0 /\ fut[j] = "value" /\ j \notin fcont
                              /\ j # i => chain[j] # -1
      BY <1>1, <1>5, <1>11, <2>2, <2>6, <3>1
    <3>3. \A j \in 1..MaxForks : chain[j] = 0 => j <= m + 1
      BY <1>5, <2>2
    <3>4. reducing' = Len(reduced') /\ chain'[reducing'] = -1
      BY <1>1, <2>1, <2>3, <2>4
    <3> QED
      BY <1>5, <2>1, <2>4, <2>5, <3>2, <3>3, <3>4 DEF ObjectReduces
  <2> QED
    BY <1>2, <1>7, <2>7, <2>8, <2>9, <2>10, <2>11, ReducingSuffices
<1> QED
  BY <1>3, <1>9, <1>10, <1>11

(* The future that the reducer returned is ready, or failed.               *)
LEMMA ReducerDoneKeeps ==
    ASSUME ForkInv, ReducerDone,
           UNCHANGED <<fkind, n, launched, fphase, fut, fcont, latch, ex, bad,
                       ftimer, fres, answers>>
    PROVE  ForkInv'
<1>1. PICK i \in 1..launched : i = reducing /\ i # 0
  BY DEF ReducerDone, ForkInv, ForkTypeOK
<1>2. fkind = "map_reduce_object" /\ fkind \in Reducing /\ i \in Launched
  BY <1>1 DEF ForkInv, UnusedParts, Reducing, Launched
<1>3. /\ Len(reduced) \in Nat /\ Len(reduced) <= launched /\ launched \in Nat
      /\ \A j \in 1..Len(reduced) : reduced[j] = j /\ j \in Launched
  BY <1>2, ReducedInOrder DEF ForkInv, ForkTypeOK
<1>4. /\ bad = {} /\ i = Len(reduced) /\ chain[i] = -1
      /\ reduced = [j \in 1..Len(reduced) |-> j]
      /\ \A j \in 1..Len(reduced) :
            /\ chain[j - 1] = 0 /\ fut[j] = "value" /\ j \notin fcont
            /\ j # i => chain[j] # -1
      /\ \A j \in 1..MaxForks : chain[j] = 0 => j <= Len(reduced)
  BY <1>1, <1>2 DEF ForkInv, ObjectReduces
<1>5. i \notin fcont /\ chain[i - 1] # -1
  BY <1>1, <1>3, <1>4
<1>6. PICK k \in {0, i} : chain' = [chain EXCEPT ![i] = k] /\ reducing' = 0 /\ UNCHANGED reduced
  BY <1>1 DEF ReducerDone, SetChain
<1>7. k \in Nat /\ k # -1
  BY <1>1, <1>6
<1>8. /\ ChainInOrder' /\ AnsweredOnceAfterAll'
      /\ chain'[i] = k /\ \A j \in 0..MaxForks : j # i => chain'[j] = chain[j]
      /\ chain' \in [0..MaxForks -> Nat \cup {-1}]
  BY <1>2, <1>4, <1>5, <1>6, <1>7, ChainGrows
<1>9. ForkTypeOK' /\ UnusedParts'
  BY <1>2, <1>6, <1>8 DEF ForkInv, ForkTypeOK, UnusedParts, Reducing
<1>10. ObjectReduces'
  <2>1. \A j \in 1..Len(reduced) : j - 1 \in 0..MaxForks /\ j - 1 # i /\ j \in 0..MaxForks
    BY <1>3, <1>4, ForkAssumption DEF ForkInv, ForkTypeOK
  <2>2. \A j \in 1..Len(reduced) : chain'[j - 1] = 0 /\ chain'[j] # -1
    BY <1>4, <1>7, <1>8, <2>1
  <2>3. \A j \in 1..MaxForks : chain'[j] = 0 => j <= Len(reduced)
    <3>1. \A j \in 1..MaxForks : j \in 0..MaxForks /\ (j = i => j <= Len(reduced))
      BY <1>3, <1>4
    <3> QED
      BY <1>4, <1>8, <3>1
  <2> QED
    BY <1>2, <1>4, <1>6, <2>2, <2>3 DEF ObjectReduces
<1>11. InitialReduces'
  BY <1>2 DEF InitialReduces
<1> QED
  BY <1>2, <1>8, <1>9, <1>10, <1>11, ReducingSuffices

(* When the chain has come to the last item, every item was mapped.        *)
LEMMA ChainIsThrough ==
    ASSUME ForkInv, fkind \in Reducing, chain[n] # -1, launched = n
    PROVE  \A i \in 1..n : i \in Launched /\ i \notin fcont /\ Ready(i) /\ chain[i] # -1
<1>1. n \in Nat /\ n <= MaxForks /\ MaxForks \in Nat /\ n \in 0..MaxForks
  BY ForkAssumption DEF ForkInv, ForkTypeOK
<1>2. \A i \in 1..n : i \in 0..MaxForks /\ i <= n /\ i \in Launched
  BY <1>1 DEF Launched
<1>3. \A i \in 1..n : chain[i] # -1
  BY <1>1, <1>2 DEF ForkInv, ChainInOrder
<1> QED
  BY <1>2, <1>3 DEF ForkInv, ChainInOrder

(* The last then() of map_reduce answers.                                  *)
LEMMA ReducedKeeps == ASSUME ForkInv, Reduced PROVE ForkInv'
<1>1. /\ fkind \in Reducing /\ fphase = "run" /\ chain[n] # -1 /\ fres.st = "pending"
      /\ UNCHANGED <<fkind, n, launched, fphase, fut, fcont, latch, ex, chain, bad,
                     reducing, reduced, ftimer>>
  BY DEF Reduced
<1>2. launched = n /\ answers = 0 /\ ftimer # "fired"
  BY <1>1 DEF ForkInv, ForkTypeOK, AnsweredOnceAfterAll, UnusedParts, Reducing
<1>3. /\ answers' = answers + 1
      /\ \/ chain[n] = 0 /\ fres' = [st |-> "value", of |-> reduced]
         \/ chain[n] # 0 /\ fres' = [st |-> "failed", of |-> chain[n]]
  BY DEF Reduced, Exception, Answer
<1>4. /\ fres'.st \in {"value", "failed"} /\ (fres'.st = "value" => chain[n] = 0)
      /\ fres'.st = "failed" => chain[n] # 0 /\ fres'.of = chain[n]
  BY <1>3
<1>5. \A i \in 1..n : Ready(i)
  BY <1>1, <1>2, ChainIsThrough
<1>6. ForkTypeOK' /\ UnusedParts'
  BY <1>1, <1>4 DEF ForkInv, ForkTypeOK, UnusedParts
<1>7. ChainInOrder'
  BY <1>1, <1>4 DEF ForkInv, ChainInOrder, Ready, Launched
<1>8. ObjectReduces' /\ InitialReduces'
  BY <1>1 DEF ForkInv, ObjectReduces, InitialReduces, Launched
<1>9. AnsweredOnceAfterAll'
  <2>1. fkind' \in Reducing /\ launched' = n' /\ answers' = 1 /\ fres'.st # "pending"
        /\ ftimer' # "fired"
    BY <1>1, <1>2, <1>3, <1>4
  <2>2. \A i \in 1..n' : Ready(i)'
    BY <1>1, <1>5 DEF Ready
  <2>3. fkind' # "parallel_for_each" /\ fkind' \notin Succeed
        /\ fkind' \notin {"when_all_tuple", "when_all_range"}
    BY <2>1 DEF Reducing, Succeed
  <2> QED
    BY <2>1, <2>2, <2>3 DEF AnsweredOnceAfterAll
<1> QED
  BY <1>1, <1>6, <1>7, <1>8, <1>9, ReducingSuffices

(* Every step keeps the invariant.                                         *)
LEMMA ForkSteps == ASSUME ForkInv, [ForkNext]_fvars PROVE ForkInv'
<1>1. CASE UNCHANGED fvars
  BY <1>1 DEF fvars, ForkInv, ForkTypeOK, UnusedParts, LatchCounts, FirstErrorKept, RangeWaits,
              ChainInOrder, ObjectReduces, InitialReduces, TimedOnce, AnsweredOnceAfterAll,
              Launched, Ready, Failures
<1>2. CASE Launch
  BY <1>2, LaunchKeeps
<1>3. CASE Return
  BY <1>3, ReturnKeeps
<1>4. ASSUME NEW i \in Launched, CompleteItem(i) PROVE ForkInv'
  BY <1>4, CompleteItemKeeps
<1>5. ASSUME NEW i \in Launched, CompleteRange(i) PROVE ForkInv'
  BY <1>5, CompleteRangeKeeps
<1>6. ASSUME NEW i \in Launched, Mapped(i) PROVE ForkInv'
  BY <1>6, MappedKeeps
<1>7. ASSUME NEW i \in Launched, Answered(i) PROVE ForkInv'
  BY <1>7, AnsweredKeeps
<1>8. CASE Link
  <2>1. UNCHANGED <<fkind, n, launched, fphase, fut, fcont, latch, ex, bad,
                    ftimer, fres, answers>>
    BY <1>8 DEF Link
  <2> QED
    BY <1>8, <2>1, LinkInitialKeeps, LinkObjectKeeps, ReducerDoneKeeps DEF Link
<1>9. CASE Reduced
  BY <1>9, ReducedKeeps
<1>10. CASE TimerFires
  BY <1>10, TimerFiresKeeps
<1>11. ASSUME NEW i \in Launched, Resolve(i) PROVE ForkInv'
  BY <1>11, ForkResolveKeeps
<1> QED
  BY <1>1, <1>2, <1>3, <1>4, <1>5, <1>6, <1>7, <1>8, <1>9, <1>10, <1>11 DEF ForkNext, ForkTask

(* The invariant says that every item is reduced once.                     *)
LEMMA ReducedOnce == ASSUME ForkInv PROVE ReducesEachOnce
<1>1. /\ n \in Nat /\ n <= MaxForks /\ MaxForks \in Nat /\ launched \in 0..n
      /\ bad \in SUBSET (1..launched) /\ reduced \in Seq(1..launched)
  BY ForkAssumption DEF ForkInv, ForkTypeOK
<1>2. CASE fkind \notin Reducing
  <2>1. reduced = <<>>
    BY <1>2 DEF ForkInv, UnusedParts
  <2> QED
    BY <1>2, <2>1 DEF ReducesEachOnce, Reducing, IsInjective
<1>3. CASE fkind = "map_reduce_object"
  <2>1. /\ Len(reduced) \in Nat /\ Len(reduced) <= launched
        /\ \A j \in 1..Len(reduced) : reduced[j] = j
    BY <1>3, ReducedInOrder
  <2>2. DOMAIN reduced = 1..Len(reduced)
    BY <1>1
  <2>3. IsInjective(reduced)
    BY <2>1, <2>2 DEF IsInjective
  <2>4. ASSUME fres.st = "value" PROVE ToSet(reduced) = 1..n
    <3>1. chain[n] = 0 /\ launched = n
      BY <1>3, <2>4 DEF ForkInv, ForkTypeOK, ChainInOrder, Reducing
    <3>2. n <= Len(reduced)
      <4>1. n = 0 \/ n \in 1..MaxForks
        BY <1>1
      <4> QED
        BY <1>3, <2>1, <3>1, <4>1 DEF ForkInv, ObjectReduces
    <3>3. n = Len(reduced)
      BY <1>1, <2>1, <3>1, <3>2
    <3> QED
      BY <2>1, <2>2, <3>3 DEF ToSet
  <2>5. /\ reduced = [i \in 1..Len(reduced) |-> i]
        /\ reducing # 0 => reducing = Len(reduced)
        /\ \A i \in 1..Len(reduced) : chain[i - 1] = 0 /\ fut[i] = "value"
    BY <1>3 DEF ForkInv, ObjectReduces
  <2> QED
    BY <1>3, <2>3, <2>4, <2>5 DEF ReducesEachOnce
<1>4. CASE fkind = "map_reduce_initial"
  <2>0. fkind \in Reducing
    BY <1>4 DEF Reducing
  <2>1. /\ IsInjective(reduced)
        /\ ToSet(reduced) \cup bad = Launched \ fcont
        /\ \A i \in 0..MaxForks : chain[i] # -1 =>
              IF chain[i] = 0 THEN \A k \in bad : k > i
              ELSE chain[i] \in bad /\ chain[i] <= i /\ \A k \in bad : k <= chain[i] \/ k > i
    BY <1>4 DEF ForkInv, InitialReduces
  <2>2. n \in 0..MaxForks
    BY <1>1
  <2>3. ASSUME fres.st \in {"value", "failed"}
        PROVE  /\ chain[n] # -1 /\ launched = n /\ ToSet(reduced) \cup bad = 1..n
               /\ fres.st = "value" => chain[n] = 0
               /\ fres.st = "failed" => chain[n] # 0 /\ fres.of = chain[n]
    <3>1. /\ chain[n] # -1 /\ launched = n
          /\ fres.st = "value" => chain[n] = 0
          /\ fres.st = "failed" => chain[n] # 0 /\ fres.of = chain[n]
      BY <2>0, <2>3 DEF ForkInv, ForkTypeOK, ChainInOrder
    <3>2. \A i \in 1..n : i \in Launched /\ i \notin fcont
      BY <2>0, <3>1, ChainIsThrough
    <3>3. Launched \ fcont = 1..n
      BY <3>1, <3>2 DEF Launched
    <3> QED
      BY <2>1, <3>1, <3>3
  <2>4. fres.st = "value" => ToSet(reduced) = 1..n
    <3> SUFFICES ASSUME fres.st = "value" PROVE ToSet(reduced) = 1..n
      OBVIOUS
    <3>1. \A k \in bad : k > n
      BY <2>1, <2>2, <2>3
    <3>2. bad = {}
      BY <1>1, <3>1
    <3> QED
      BY <2>3, <3>2
  <2>5. fres.st = "failed" => fres.of = Max(bad)
    <3> SUFFICES ASSUME fres.st = "failed" PROVE fres.of = Max(bad)
      OBVIOUS
    <3>1. fres.of \in bad /\ \A k \in bad : k <= fres.of
      <4>1. chain[n] \in bad /\ \A k \in bad : k <= chain[n] \/ k > n
        BY <2>1, <2>2, <2>3
      <4>2. \A k \in bad : ~(k > n)
        BY <1>1
      <4> QED
        BY <2>3, <4>1, <4>2
    <3>2. bad \in SUBSET (0..n) /\ bad # {}
      BY <1>1, <3>1
    <3>3. Max(bad) \in bad /\ \A k \in bad : k <= Max(bad)
      BY <1>1, <3>2, MaxIs
    <3>4. fres.of \in Nat /\ Max(bad) \in Nat
      <4>1. \A k \in bad : k \in Nat
        BY <1>1
      <4> QED
        BY <3>1, <3>3, <4>1
    <3>5. Max(bad) <= fres.of /\ fres.of <= Max(bad)
      BY <3>1, <3>3
    <3> HIDE DEF Max
    <3> QED
      BY <3>4, <3>5
  <2> QED
    BY <1>4, <2>1, <2>3, <2>4, <2>5 DEF ReducesEachOnce
<1> QED
  BY <1>2, <1>3, <1>4 DEF Reducing

(* future_util.h: for calls of any number of items, and whatever becomes   *)
(* of them and when: parallel_for_each, when_all, when_all_succeed,        *)
(* map_reduce and with_timeout answer once, not before every item is       *)
(* through, and with the right answer; and every item is reduced once.     *)
THEOREM CallsAnswerRight == ForkSpec => []ForkAnswersRight
<1>1. ForkInit => ForkInv
  BY ForkStarts
<1>2. ForkInv /\ [ForkNext]_fvars => ForkInv'
  BY ForkSteps
<1>3. ForkInv => ForkAnswersRight
  BY ReducedOnce DEF ForkInv, ForkAnswersRight
<1> QED
  BY <1>1, <1>2, <1>3, PTL DEF ForkSpec

-----------------------------------------------------------------------------
(* The reactor's tasks and the threads of thread.h.                        *)
TaskKinds == {"program", "later", "wake", "reap"}
ThreadTasks == {x \in [run : TaskKinds, of : Contexts] : (x.run = "program") <=> (x.of = Main)}

\* The tasks of E in the queue q, and how many there are.
At(q, E) == {i \in DOMAIN q : q[i] \in E}
InQueue(q, E) == Cardinality(At(q, E))

\* What wakes t up: its tasks, and the threads for whose end it waits.
WakeTasks(t) == {x \in ThreadTasks : x.of = t /\ x.run \in {"later", "wake"}}
ReapTasks(t) == {x \in ThreadTasks : x.of = t /\ x.run = "reap"}
WaitedFor(t) == {u \in Threads : joiner[u] = t}

ThreadsTypeOK ==
    /\ current \in Contexts
    /\ link \in [Threads -> Contexts \cup {None}]
    /\ th \in [Threads -> {"unborn", "active", "blocked", "exited", "freed"}]
    /\ joined \in SUBSET Threads /\ early \in SUBSET Threads
    /\ joiner \in [Threads -> Threads \cup {"reap", None}]
    /\ pending \in Seq(ThreadTasks)
    /\ rpc \in {"loop", "task", "return", "batch", "exited"}
    /\ stopped \in BOOLEAN /\ crashed \in BOOLEAN

\* The contexts from the current one down to the reactor's, each linked to the
\* next: the threads that are active, and some that were destroyed too early.
StackIs(m, s) ==
    /\ m \in Nat /\ s \in [0..m -> Contexts] /\ s[0] = current /\ s[m] = Main
    /\ \A i \in 0..m : i < m =>
          s[i] \in Threads /\ link[s[i]] = s[i + 1] /\ (th[s[i]] = "active" \/ s[i] \in early)
    /\ \A i, j \in 0..m : s[i] = s[j] => i = j
    /\ \A t \in Threads : th[t] = "active" => \E i \in 0..m : s[i] = t

\* Whoever waits is waited for by one task or one thread's end.
WokenOnce(t) ==
    InQueue(pending, WakeTasks(t)) + Cardinality(WaitedFor(t)) = (IF th[t] = "blocked" THEN 1 ELSE 0)

\* What is reaped was left to async()'s continuation, and ended.
ReapedOnce(t) ==
    /\ InQueue(pending, ReapTasks(t)) \in {0, 1}
    /\ InQueue(pending, ReapTasks(t)) = 1 => th[t] = "exited" /\ joiner[t] = "reap"

\* As long as the processor was given to nobody who is gone.
Stacked == \E m : \E s : StackIs(m, s)
Alive ==
    /\ Stacked
    /\ current \in Threads => th[current] = "active"
    /\ rpc \in {"loop", "batch", "exited"} => current = Main
    /\ \A t \in Threads \ early : WokenOnce(t)

ThreadsInv ==
    /\ ThreadsTypeOK
    /\ \A t \in early : th[t] = "freed"
    /\ \A t \in Threads : joiner[t] # None => t \in joined
    /\ \A t \in Threads : ReapedOnce(t)
    /\ ~crashed => Alive
    /\ rpc = "exited" => pending = <<>> /\ stopped
    /\ crashed => early # {}

(* The stack is no higher than there are threads.                          *)
LEMMA StackFits ==
    ASSUME NEW m, NEW s, StackIs(m, s)
    PROVE  Cardinality(Threads) \in Nat /\ m <= Cardinality(Threads)
<1>1. m \in Nat /\ IsFiniteSet(Threads) /\ Cardinality(Threads) \in Nat
  BY ThreadsAssumption, FS_CardinalityType DEF StackIs
<1>2. IsFiniteSet(1..m) /\ Cardinality(1..m) = m
  <2>1. m \in Int /\ 1 \in Int
    BY <1>1
  <2>2. IsFiniteSet(1..m) /\ Cardinality(1..m) = IF 1 > m THEN 0 ELSE m - 1 + 1
    BY <2>1, FS_Interval
  <2> QED
    BY <1>1, <2>2
<1> DEFINE f == [i \in 1..m |-> s[i - 1]]
<1>3. \A i \in 1..m : i - 1 \in 0..m /\ i - 1 < m
  BY <1>1
<1>4. f \in [1..m -> Threads]
  BY <1>3 DEF StackIs
<1>5. \A i, j \in 1..m : f[i] = f[j] => i = j
  <2>1. \A i, j \in 1..m : s[i - 1] = s[j - 1] => i - 1 = j - 1
    BY <1>3 DEF StackIs
  <2>2. \A i, j \in 1..m : i - 1 = j - 1 => i = j
    BY <1>1
  <2> QED
    BY <2>1, <2>2
<1> HIDE DEF f
<1>6. f \in Injection(1..m, Threads)
  BY <1>4, <1>5 DEF Injection, IsInjective
<1>7. Cardinality(1..m) <= Cardinality(Threads)
  BY <1>1, <1>6, FS_Injection
<1> QED
  BY <1>1, <1>2, <1>7

(* The contexts reached from the current one are those of the stack.       *)
LEMMA ChainIs ==
    ASSUME NEW m, NEW s, StackIs(m, s)
    PROVE  Chain = {s[i] : i \in 0..m}
<1> DEFINE N == Cardinality(Threads)
           at == CHOOSE g : g = [k \in 0..N |-> IF k = 0 THEN current
                                                ELSE IF g[k - 1] = Main THEN Main
                                                ELSE link[g[k - 1]]]
           f == [k \in 0..N |-> IF k <= m THEN s[k] ELSE Main]
<1>1. Chain = {at[k] : k \in DOMAIN at}
  BY DEF Chain
<1>2. N \in Nat /\ m \in Nat /\ m <= N
  BY StackFits DEF StackIs
<1> HIDE DEF N
<1>3. ASSUME NEW k \in 0..N
      PROVE  f[k] = IF k = 0 THEN current ELSE IF f[k - 1] = Main THEN Main ELSE link[f[k - 1]]
  <2>1. CASE k = 0
    BY <1>2, <2>1 DEF StackIs
  <2>2. CASE k # 0 /\ k <= m
    <3>1. k - 1 \in 0..m /\ k - 1 < m /\ (k - 1) + 1 = k /\ k - 1 \in 0..N /\ k - 1 <= m
      BY <1>2, <2>2
    <3>2. s[k - 1] \in Threads /\ link[s[k - 1]] = s[k]
      BY <3>1 DEF StackIs
    <3>3. f[k - 1] = s[k - 1] /\ f[k] = s[k]
      BY <2>2, <3>1
    <3> QED
      BY <2>2, <3>2, <3>3, ThreadsAssumption
  <2>3. CASE k > m
    <3>1. k - 1 \in 0..N /\ (k - 1 <= m => k - 1 = m) /\ k # 0 /\ ~(k <= m)
      BY <1>2, <2>3
    <3>2. f[k - 1] = Main /\ f[k] = Main
      BY <3>1 DEF StackIs
    <3> QED
      BY <3>1, <3>2
  <2> QED
    BY <1>2, <2>1, <2>2, <2>3
<1>4. f = [k \in 0..N |-> IF k = 0 THEN current
                          ELSE IF f[k - 1] = Main THEN Main ELSE link[f[k - 1]]]
  <2>1. f = [k \in 0..N |-> f[k]]
    OBVIOUS
  <2> HIDE DEF f
  <2> QED
    BY <1>3, <2>1
<1> HIDE DEF f
<1>5. at = [k \in 0..N |-> IF k = 0 THEN current
                           ELSE IF at[k - 1] = Main THEN Main ELSE link[at[k - 1]]]
  BY <1>4
<1> HIDE DEF at
<1>6. \A k \in 0..N : at[k] = f[k]
  <2> DEFINE S == {k \in 0..N : at[k] # f[k]}
  <2> SUFFICES ASSUME S # {} PROVE FALSE
    OBVIOUS
  <2>1. PICK k \in S : \A j \in S : k <= j
    <3>1. S \in SUBSET (0..N)
      OBVIOUS
    <3> HIDE DEF S
    <3> QED
      BY <1>2, <3>1, Smallest
  <2>2. at[k] = IF k = 0 THEN current ELSE IF at[k - 1] = Main THEN Main ELSE link[at[k - 1]]
    BY <1>5
  <2>3. k = 0 \/ (k - 1 \in 0..N /\ k - 1 < k)
    BY <1>2
  <2>4. k = 0 \/ at[k - 1] = f[k - 1]
    BY <1>2, <2>1, <2>3
  <2> QED
    BY <1>3, <2>1, <2>2, <2>4
<1>7. DOMAIN at = 0..N
  BY <1>5
<1>8. \A k \in 0..N : \E i \in 0..m : f[k] = s[i]
  <2>1. \A k \in 0..N : (k <= m => k \in 0..m) /\ m \in 0..m
    BY <1>2
  <2> QED
    BY <2>1 DEF f, StackIs
<1>9. \A i \in 0..m : i \in 0..N /\ f[i] = s[i]
  BY <1>2 DEF f
<1>10. Chain = {f[k] : k \in 0..N}
  BY <1>1, <1>6, <1>7
<1>11. {f[k] : k \in 0..N} = {s[i] : i \in 0..m}
  BY <1>8, <1>9
<1> QED
  BY <1>10, <1>11

(* The queue's tasks of one kind are finitely many.                        *)
LEMMA InQueueIs ==
    ASSUME NEW T, NEW q \in Seq(T), NEW E
    PROVE  IsFiniteSet(At(q, E)) /\ InQueue(q, E) \in Nat /\ (InQueue(q, E) = 0 <=> At(q, E) = {})
<1>1. PICK k \in Nat : k = Len(q) /\ DOMAIN q = 1..k
  OBVIOUS
<1>2. IsFiniteSet(1..k)
  <2>1. 1 \in Int /\ k \in Int
    OBVIOUS
  <2> QED
    BY <2>1, FS_Interval
<1>3. IsFiniteSet(At(q, E))
  BY <1>1, <1>2, FS_Subset DEF At
<1> QED
  BY <1>3, FS_CardinalityType, FS_EmptySet DEF InQueue

(* A task is queued behind the others,                                     *)
LEMMA InQueueAppend ==
    ASSUME NEW T, NEW q \in Seq(T), NEW x \in T, NEW E
    PROVE  /\ Append(q, x) \in Seq(T)
           /\ InQueue(Append(q, x), E) = InQueue(q, E) + (IF x \in E THEN 1 ELSE 0)
<1> DEFINE r == Append(q, x)
<1>1. PICK k \in Nat : k = Len(q) /\ DOMAIN q = 1..k
  OBVIOUS
<1>2. r \in Seq(T) /\ DOMAIN r = 1..k + 1 /\ r[k + 1] = x /\ \A i \in 1..k : r[i] = q[i]
  BY <1>1
<1>3. 1..k + 1 = 1..k \cup {k + 1} /\ k + 1 \notin 1..k
  OBVIOUS
<1>4. IsFiniteSet(At(q, E)) /\ InQueue(q, E) \in Nat /\ k + 1 \notin At(q, E)
  <2>1. At(q, E) \subseteq 1..k
    BY <1>1 DEF At
  <2> QED
    BY <1>3, <2>1, InQueueIs
<1> HIDE DEF r
<1>5. CASE x \in E
  <2>1. At(r, E) = At(q, E) \cup {k + 1}
    BY <1>1, <1>2, <1>3, <1>5 DEF At
  <2>2. Cardinality(At(r, E)) = Cardinality(At(q, E)) + 1
    BY <1>4, <2>1, FS_AddElement
  <2> QED
    BY <1>2, <1>5, <2>2 DEF InQueue, r
<1>6. CASE x \notin E
  <2>1. At(r, E) = At(q, E)
    BY <1>1, <1>2, <1>3, <1>6 DEF At
  <2> QED
    BY <1>2, <1>4, <1>6, <2>1 DEF InQueue, r
<1> QED
  BY <1>5, <1>6

(* or in front of them.                                                    *)
LEMMA InQueuePrepend ==
    ASSUME NEW T, NEW q \in Seq(T), NEW x \in T, NEW E
    PROVE  /\ <<x>> \o q \in Seq(T)
           /\ InQueue(<<x>> \o q, E) = InQueue(q, E) + (IF x \in E THEN 1 ELSE 0)
<1> DEFINE r == <<x>> \o q
<1>1. PICK k \in Nat : k = Len(q) /\ DOMAIN q = 1..k
  OBVIOUS
<1>2. r \in Seq(T) /\ DOMAIN r = 1..k + 1 /\ r[1] = x /\ \A i \in 1..k : r[i + 1] = q[i]
  BY <1>1
<1>3. /\ \A i \in 1..k : i + 1 \in 1..k + 1 /\ i + 1 # 1
      /\ \A j \in 1..k + 1 : j = 1 \/ (j - 1 \in 1..k /\ (j - 1) + 1 = j)
      /\ 1 \in 1..k + 1
  OBVIOUS
<1> HIDE DEF r
<1> DEFINE B == At(r, E) \ {1}
           f == [i \in At(q, E) |-> i + 1]
<1>4. IsFiniteSet(At(q, E)) /\ InQueue(q, E) \in Nat /\ At(q, E) \subseteq 1..k
  BY <1>1, InQueueIs DEF At
<1>5. f \in Bijection(At(q, E), B)
  <2>1. \A i \in At(q, E) : i + 1 \in B
    BY <1>1, <1>2, <1>3 DEF At
  <2>2. \A j \in B : j - 1 \in At(q, E) /\ (j - 1) + 1 = j
    BY <1>1, <1>2, <1>3 DEF At
  <2>3. f \in [At(q, E) -> B]
    BY <2>1
  <2>4. \A i, j \in At(q, E) : f[i] = f[j] => i = j
    BY <1>4
  <2>5. \A j \in B : \E i \in At(q, E) : f[i] = j
    BY <2>2
  <2> HIDE DEF f, B
  <2> QED
    BY <2>3, <2>4, <2>5 DEF Bijection, Injection, Surjection, IsInjective
<1> HIDE DEF f
<1>6. IsFiniteSet(B) /\ Cardinality(B) = InQueue(q, E)
  <2> HIDE DEF B
  <2>1. Cardinality(At(q, E)) = Cardinality(B) /\ IsFiniteSet(B)
    BY <1>4, <1>5, FS_Bijection DEF ExistsBijection
  <2> QED
    BY <2>1 DEF InQueue
<1>7. CASE x \in E
  <2>1. At(r, E) = B \cup {1} /\ 1 \notin B
    BY <1>2, <1>3, <1>7 DEF At
  <2> HIDE DEF B
  <2>2. Cardinality(B \cup {1}) = Cardinality(B) + 1
    BY <1>6, <2>1, FS_AddElement
  <2>3. InQueue(r, E) = InQueue(q, E) + 1
    BY <1>6, <2>1, <2>2 DEF InQueue
  <2> QED
    BY <1>2, <1>7, <2>3 DEF r
<1>8. CASE x \notin E
  <2>1. At(r, E) = B
    BY <1>2, <1>3, <1>8 DEF At
  <2> HIDE DEF B
  <2>2. InQueue(r, E) = InQueue(q, E)
    BY <1>6, <2>1 DEF InQueue
  <2> QED
    BY <1>2, <1>4, <1>8, <2>2 DEF r
<1> QED
  BY <1>7, <1>8

(* The first task is taken.                                                *)
LEMMA InQueueTail ==
    ASSUME NEW T, NEW q \in Seq(T), q # <<>>, NEW E
    PROVE  /\ Head(q) \in T /\ Tail(q) \in Seq(T) /\ InQueue(Tail(q), E) \in Nat
           /\ InQueue(q, E) = InQueue(Tail(q), E) + (IF Head(q) \in E THEN 1 ELSE 0)
<1>1. PICK x \in T, t \in Seq(T) : x = Head(q) /\ t = Tail(q)
  <2>1. Head(q) \in T /\ Tail(q) \in Seq(T)
    BY HeadTailProperties
  <2> QED
    BY <2>1
<1>2. q = <<x>> \o t
  BY <1>1
<1>3. InQueue(q, E) = InQueue(t, E) + (IF x \in E THEN 1 ELSE 0)
  BY <1>2, InQueuePrepend
<1>4. InQueue(t, E) \in Nat
  BY InQueueIs
<1> QED
  BY <1>1, <1>3, <1>4

(* The queue r has the tasks of q and x.                                   *)
HasOneMore(r, q, x) ==
    \A t \in Threads :
        /\ InQueue(q, WakeTasks(t)) \in Nat /\ InQueue(q, ReapTasks(t)) \in Nat
        /\ InQueue(r, WakeTasks(t)) = InQueue(q, WakeTasks(t))
              + (IF x.of = t /\ x.run \in {"later", "wake"} THEN 1 ELSE 0)
        /\ InQueue(r, ReapTasks(t)) = InQueue(q, ReapTasks(t))
              + (IF x.of = t /\ x.run = "reap" THEN 1 ELSE 0)

(* A task that is queued is one more of its kind,                          *)
LEMMA QueueGets ==
    ASSUME NEW q \in Seq(ThreadTasks), NEW x \in ThreadTasks, NEW r,
           r = Append(q, x) \/ r = <<x>> \o q
    PROVE  r \in Seq(ThreadTasks) /\ HasOneMore(r, q, x)
<1>1. ASSUME NEW E
      PROVE  /\ r \in Seq(ThreadTasks) /\ InQueue(q, E) \in Nat
             /\ InQueue(r, E) = InQueue(q, E) + (IF x \in E THEN 1 ELSE 0)
  <2>1. InQueue(q, E) \in Nat
    BY InQueueIs
  <2>2. CASE r = Append(q, x)
    BY <2>1, <2>2, InQueueAppend
  <2>3. CASE r = <<x>> \o q
    BY <2>1, <2>3, InQueuePrepend
  <2> QED
    BY <2>2, <2>3
<1>2. \A t \in Threads : /\ x \in WakeTasks(t) <=> x.of = t /\ x.run \in {"later", "wake"}
                         /\ x \in ReapTasks(t) <=> x.of = t /\ x.run = "reap"
  BY DEF WakeTasks, ReapTasks
<1>3. r \in Seq(ThreadTasks)
  BY <1>1
<1>4. ASSUME NEW t \in Threads
      PROVE  /\ InQueue(q, WakeTasks(t)) \in Nat
             /\ InQueue(r, WakeTasks(t)) = InQueue(q, WakeTasks(t))
                   + (IF x.of = t /\ x.run \in {"later", "wake"} THEN 1 ELSE 0)
  BY <1>1, <1>2
<1>5. ASSUME NEW t \in Threads
      PROVE  /\ InQueue(q, ReapTasks(t)) \in Nat
             /\ InQueue(r, ReapTasks(t)) = InQueue(q, ReapTasks(t))
                   + (IF x.of = t /\ x.run = "reap" THEN 1 ELSE 0)
  BY <1>1, <1>2
<1> QED
  BY <1>3, <1>4, <1>5 DEF HasOneMore

(* and one that is taken is one less.                                      *)
LEMMA QueueLoses ==
    ASSUME NEW q \in Seq(ThreadTasks), q # <<>>
    PROVE  \E x \in ThreadTasks : \E r \in Seq(ThreadTasks) :
              x = Head(q) /\ r = Tail(q) /\ HasOneMore(q, r, x)
<1>1. PICK x \in ThreadTasks : x = Head(q)
  <2>1. Head(q) \in ThreadTasks
    BY HeadTailProperties
  <2> QED
    BY <2>1
<1>2. PICK r \in Seq(ThreadTasks) : r = Tail(q)
  <2>1. Tail(q) \in Seq(ThreadTasks)
    BY HeadTailProperties
  <2> QED
    BY <2>1
<1>3. q = <<x>> \o r
  BY <1>1, <1>2
<1>4. HasOneMore(q, r, x)
  BY <1>3, QueueGets
<1> QED
  BY <1>1, <1>2, <1>4

(* The threads that wait for an end are finitely many.                     *)
LEMMA WaitedForIs ==
    ASSUME ThreadsTypeOK
    PROVE  \A t \in Threads : IsFiniteSet(WaitedFor(t)) /\ Cardinality(WaitedFor(t)) \in Nat
                               /\ (Cardinality(WaitedFor(t)) = 0 <=> WaitedFor(t) = {})
<1> SUFFICES ASSUME NEW t \in Threads
             PROVE  IsFiniteSet(WaitedFor(t)) /\ Cardinality(WaitedFor(t)) \in Nat
                     /\ (Cardinality(WaitedFor(t)) = 0 <=> WaitedFor(t) = {})
  OBVIOUS
<1>1. IsFiniteSet(WaitedFor(t))
  BY ThreadsAssumption, FS_Subset DEF WaitedFor
<1> QED
  BY <1>1, FS_CardinalityType, FS_EmptySet

(* Somebody begins to wait for the end of u,                               *)
LEMMA JoinerComes ==
    ASSUME ThreadsTypeOK, NEW u \in Threads, joiner[u] = None, NEW w \in Threads \cup {"reap"},
           joiner' = [joiner EXCEPT ![u] = w]
    PROVE  \A t \in Threads :
              Cardinality(WaitedFor(t)') = Cardinality(WaitedFor(t)) + (IF t = w THEN 1 ELSE 0)
<1> SUFFICES ASSUME NEW t \in Threads
             PROVE  Cardinality(WaitedFor(t)')
                       = Cardinality(WaitedFor(t)) + (IF t = w THEN 1 ELSE 0)
  OBVIOUS
<1>1. IsFiniteSet(WaitedFor(t)) /\ Cardinality(WaitedFor(t)) \in Nat
  BY WaitedForIs
<1>2. CASE t = w
  <2>1. WaitedFor(t)' = WaitedFor(t) \cup {u} /\ u \notin WaitedFor(t)
    BY <1>2, ThreadsAssumption DEF WaitedFor, ThreadsTypeOK
  <2> QED
    BY <1>1, <1>2, <2>1, FS_AddElement
<1>3. CASE t # w
  <2>1. WaitedFor(t)' = WaitedFor(t)
    BY <1>3, ThreadsAssumption DEF WaitedFor, ThreadsTypeOK
  <2> QED
    BY <1>1, <1>3, <2>1
<1> QED
  BY <1>2, <1>3

(* and is let go when u ends.                                              *)
LEMMA JoinerGoes ==
    ASSUME ThreadsTypeOK, NEW u \in Threads, NEW w \in Threads, joiner[u] = w,
           joiner' = [joiner EXCEPT ![u] = None]
    PROVE  \A t \in Threads :
              Cardinality(WaitedFor(t)) = Cardinality(WaitedFor(t)') + (IF t = w THEN 1 ELSE 0)
<1> SUFFICES ASSUME NEW t \in Threads
             PROVE  Cardinality(WaitedFor(t))
                       = Cardinality(WaitedFor(t)') + (IF t = w THEN 1 ELSE 0)
  OBVIOUS
<1>1. IsFiniteSet(WaitedFor(t)) /\ Cardinality(WaitedFor(t)) \in Nat
  BY WaitedForIs
<1>2. CASE t = w
  <2>1. WaitedFor(t)' = WaitedFor(t) \ {u} /\ u \in WaitedFor(t)
    BY <1>2, ThreadsAssumption DEF WaitedFor, ThreadsTypeOK
  <2>2. Cardinality(WaitedFor(t)') = Cardinality(WaitedFor(t)) - 1
    BY <1>1, <2>1, FS_RemoveElement
  <2> QED
    BY <1>1, <1>2, <2>2
<1>3. CASE t # w
  <2>1. WaitedFor(t)' = WaitedFor(t)
    BY <1>3, ThreadsAssumption DEF WaitedFor, ThreadsTypeOK
  <2> QED
    BY <1>1, <1>3, <2>1
<1> QED
  BY <1>2, <1>3

(* The stack stays as it is while the processor is where it is.            *)
LEMMA StackStays ==
    ASSUME Stacked, current' = current, link' = link,
           \A t \in Threads : th'[t] = "active" => th[t] = "active",
           \A t \in Threads : th[t] = "active" \/ t \in early => th'[t] = "active" \/ t \in early'
    PROVE  Stacked'
<1>1. PICK m, s : StackIs(m, s)
  BY DEF Stacked
<1>2. StackIs(m, s)'
  BY <1>1 DEF StackIs
<1> QED
  BY <1>2 DEF Stacked

(* A thread is put on top of it by the switch to it.                       *)
LEMMA StackGrows ==
    ASSUME ThreadsTypeOK, Stacked, NEW u \in Threads, th[u] # "active", u \notin early,
           current' = u, link' = [link EXCEPT ![u] = current],
           th' = [th EXCEPT ![u] = "active"], early' = early
    PROVE  Stacked'
<1>1. PICK m, s : StackIs(m, s)
  BY DEF Stacked
<1>2. m \in Nat /\ 0 \in 0..m /\ m \in 0..m /\ m + 1 \in Nat
  BY <1>1 DEF StackIs
<1> DEFINE z == [i \in 0..m + 1 |-> IF i = 0 THEN u ELSE s[i - 1]]
<1>3. \A i \in 0..m + 1 : i # 0 => i - 1 \in 0..m /\ (i < m + 1 => i - 1 < m) /\ (i - 1) + 1 = i
  BY <1>2
<1>4. \A i \in 0..m : s[i] # u
  <2>1. \A i \in 0..m : i < m \/ i = m
    BY <1>2
  <2> QED
    BY <1>1, <2>1, ThreadsAssumption DEF StackIs
<1>5. z \in [0..m + 1 -> Contexts]
  BY <1>1, <1>3 DEF StackIs, Contexts
<1>6. z[0] = u /\ z[m + 1] = Main
  <2>1. 0 \in 0..m + 1 /\ m + 1 \in 0..m + 1 /\ m + 1 # 0 /\ (m + 1) - 1 = m
    BY <1>2
  <2> QED
    BY <1>1, <2>1 DEF StackIs
<1>7. ASSUME NEW i \in 0..m + 1, i < m + 1
      PROVE  z[i] \in Threads /\ link'[z[i]] = z[i + 1] /\ (th'[z[i]] = "active" \/ z[i] \in early')
  <2>0. i + 1 \in 0..m + 1 /\ i + 1 # 0 /\ (i + 1) - 1 = i
    BY <1>2, <1>7
  <2>1. CASE i = 0
    BY <1>1, <1>2, <2>0, <2>1 DEF StackIs, ThreadsTypeOK
  <2>2. CASE i # 0
    <3>1. i - 1 \in 0..m /\ i - 1 < m /\ (i - 1) + 1 = i
      BY <1>3, <1>7, <2>2
    <3>2. /\ s[i - 1] \in Threads /\ link[s[i - 1]] = s[i]
          /\ th[s[i - 1]] = "active" \/ s[i - 1] \in early
      BY <1>1, <3>1 DEF StackIs
    <3>3. s[i - 1] # u
      BY <1>4, <3>1
    <3>4. z[i] = s[i - 1] /\ z[i + 1] = s[i]
      BY <2>0, <2>2
    <3> QED
      BY <3>2, <3>3, <3>4 DEF ThreadsTypeOK
  <2> QED
    BY <2>1, <2>2
<1>8. \A i, j \in 0..m + 1 : z[i] = z[j] => i = j
  <2> SUFFICES ASSUME NEW i \in 0..m + 1, NEW j \in 0..m + 1, z[i] = z[j] PROVE i = j
    OBVIOUS
  <2>1. CASE i = 0 \/ j = 0
    BY <1>3, <1>4, <2>1
  <2>2. CASE i # 0 /\ j # 0
    <3>1. s[i - 1] = s[j - 1] /\ i - 1 \in 0..m /\ j - 1 \in 0..m
      BY <1>3, <2>2
    <3>2. i - 1 = j - 1
      BY <1>1, <3>1 DEF StackIs
    <3> QED
      BY <1>2, <3>2
  <2> QED
    BY <2>1, <2>2
<1>9. ASSUME NEW t \in Threads, th'[t] = "active" PROVE \E i \in 0..m + 1 : z[i] = t
  <2>1. CASE t = u
    BY <1>2, <2>1
  <2>2. CASE t # u
    <3>1. PICK i \in 0..m : s[i] = t
      BY <1>1, <1>9, <2>2 DEF StackIs, ThreadsTypeOK
    <3>2. i + 1 \in 0..m + 1 /\ i + 1 # 0 /\ (i + 1) - 1 = i
      BY <1>2
    <3> QED
      BY <3>1, <3>2
  <2> QED
    BY <2>1, <2>2
<1> HIDE DEF z
<1>10. StackIs(m + 1, z)'
  BY <1>2, <1>5, <1>6, <1>7, <1>8, <1>9 DEF StackIs
<1> QED
  BY <1>10 DEF Stacked

(* The thread on top of it waits or ends, and the one below goes on.       *)
LEMMA StackShrinks ==
    ASSUME ThreadsTypeOK, Stacked, NEW t \in Threads, current = t, th[t] = "active",
           current' = link[t], link' = link, NEW x, x # "active",
           th' = [th EXCEPT ![t] = x], early' = early, t \notin early
    PROVE  /\ Stacked' /\ link[t] \in Contexts
           /\ link[t] \in Threads => link[t] # t /\ (th[link[t]] = "active" \/ link[t] \in early)
<1>1. PICK m, s : StackIs(m, s)
  BY DEF Stacked
<1>2. m \in Nat /\ m # 0 /\ 0 \in 0..m /\ m \in 0..m /\ 0 < m
  BY <1>1, ThreadsAssumption DEF StackIs
<1>3. m - 1 \in Nat /\ 1 \in 0..m
  BY <1>2
<1>4. link[t] = s[1] /\ s[0] = t /\ s[1] # t
  <2>1. 0 + 1 = 1 /\ 1 # 0
    OBVIOUS
  <2> QED
    BY <1>1, <1>2, <1>3, <2>1 DEF StackIs
<1>5. link[t] \in Contexts /\ (link[t] \in Threads => th[link[t]] = "active" \/ link[t] \in early)
  <2>1. 1 < m \/ 1 = m
    BY <1>2
  <2> QED
    BY <1>1, <1>3, <1>4, <2>1, ThreadsAssumption DEF StackIs
<1> DEFINE z == [i \in 0..m - 1 |-> s[i + 1]]
<1>6. \A i \in 0..m - 1 : i + 1 \in 0..m /\ i + 1 # 0 /\ (i < m - 1 => i + 1 < m)
  BY <1>2
<1>7. z \in [0..m - 1 -> Contexts] /\ z[0] = link[t] /\ z[m - 1] = Main
  <2>1. 0 \in 0..m - 1 /\ m - 1 \in 0..m - 1 /\ (m - 1) + 1 = m /\ 0 + 1 = 1
    BY <1>2
  <2> QED
    BY <1>1, <1>4, <1>6, <2>1 DEF StackIs
<1>8. \A i \in 0..m : i # 0 => s[i] # t
  BY <1>1, <1>2, <1>4 DEF StackIs
<1>9. ASSUME NEW i \in 0..m - 1, i < m - 1
      PROVE  z[i] \in Threads /\ link[z[i]] = z[i + 1] /\ (th'[z[i]] = "active" \/ z[i] \in early)
  <2>1. i + 1 \in 0..m /\ i + 1 < m /\ i + 1 # 0 /\ i + 1 \in 0..m - 1
    BY <1>2, <1>9
  <2>2. /\ s[i + 1] \in Threads /\ link[s[i + 1]] = s[(i + 1) + 1]
        /\ th[s[i + 1]] = "active" \/ s[i + 1] \in early
    BY <1>1, <2>1 DEF StackIs
  <2>3. s[i + 1] # t
    BY <1>8, <2>1
  <2>4. z[i] = s[i + 1] /\ z[i + 1] = s[(i + 1) + 1]
    BY <2>1
  <2> QED
    BY <2>2, <2>3, <2>4 DEF ThreadsTypeOK
<1>10. \A i, j \in 0..m - 1 : z[i] = z[j] => i = j
  <2> SUFFICES ASSUME NEW i \in 0..m - 1, NEW j \in 0..m - 1, z[i] = z[j] PROVE i = j
    OBVIOUS
  <2>1. s[i + 1] = s[j + 1] /\ i + 1 \in 0..m /\ j + 1 \in 0..m
    BY <1>6
  <2>2. i + 1 = j + 1
    BY <1>1, <2>1 DEF StackIs
  <2> QED
    BY <1>2, <2>2
<1>11. ASSUME NEW v \in Threads, th'[v] = "active" PROVE \E i \in 0..m - 1 : z[i] = v
  <2>1. v # t /\ th[v] = "active"
    BY <1>11 DEF ThreadsTypeOK
  <2>2. PICK i \in 0..m : s[i] = v
    BY <1>1, <2>1 DEF StackIs
  <2>3. i # 0
    BY <1>4, <2>1, <2>2
  <2>4. i - 1 \in 0..m - 1 /\ (i - 1) + 1 = i
    BY <1>2, <2>3
  <2> QED
    BY <2>2, <2>4
<1> HIDE DEF z
<1>12. StackIs(m - 1, z)'
  BY <1>3, <1>7, <1>9, <1>10, <1>11 DEF StackIs
<1> QED
  BY <1>4, <1>5, <1>12 DEF Stacked

(* The program starts with one task.                                       *)
LEMMA ThreadsStart == ASSUME ThreadsInit PROVE ThreadsInv
<1> DEFINE x == [run |-> "program", of |-> Main]
<1>1. x \in ThreadTasks /\ pending = <<x>> /\ pending = Append(<<>>, x) /\ <<>> \in Seq(ThreadTasks)
  BY DEF ThreadsInit, Task, ThreadTasks, TaskKinds, Contexts
<1>2. x.run = "program"
  OBVIOUS
<1> HIDE DEF x
<1>3. pending \in Seq(ThreadTasks) /\ HasOneMore(pending, <<>>, x)
  BY <1>1, QueueGets
<1>4. \A E : InQueue(<<>>, E) = 0
  <2> SUFFICES ASSUME NEW E PROVE InQueue(<<>>, E) = 0
    OBVIOUS
  <2>1. At(<<>>, E) = {}
    BY DEF At
  <2> QED
    BY <1>1, <2>1, InQueueIs
<1>5. \A t \in Threads : InQueue(pending, WakeTasks(t)) = 0 /\ InQueue(pending, ReapTasks(t)) = 0
  BY <1>2, <1>3, <1>4 DEF HasOneMore
<1>6. ThreadsTypeOK
  BY <1>3 DEF ThreadsInit, ThreadsTypeOK, Contexts
<1>7. \A t \in Threads : WaitedFor(t) = {}
  BY ThreadsAssumption DEF ThreadsInit, WaitedFor
<1>8. \A t \in Threads : WokenOnce(t)
  BY <1>5, <1>6, <1>7, WaitedForIs DEF WokenOnce, ThreadsInit
<1>9. StackIs(0, [i \in 0..0 |-> Main])
  BY ThreadsAssumption DEF StackIs, ThreadsInit, Contexts
<1>10. Alive
  BY <1>8, <1>9, ThreadsAssumption DEF Alive, Stacked, ThreadsInit
<1>11. \A t \in Threads : ReapedOnce(t)
  BY <1>5 DEF ReapedOnce
<1> QED
  BY <1>6, <1>10, <1>11 DEF ThreadsInv, ThreadsInit

(* Nothing moves but the reactor, or threads that are said to be joined.   *)
LEMMA QuietKeeps ==
    ASSUME ThreadsInv, ~crashed,
           UNCHANGED <<current, link, th, joiner, pending, early, crashed>>,
           joined \subseteq joined', joined' \in SUBSET Threads,
           rpc' \in {"loop", "task", "return", "batch", "exited"}, stopped' \in BOOLEAN,
           rpc' \in {"loop", "batch", "exited"} => current = Main,
           rpc' = "exited" => pending = <<>> /\ stopped'
    PROVE  ThreadsInv'
<1>1. ThreadsTypeOK'
  BY DEF ThreadsInv, ThreadsTypeOK
<1>2. \A t \in Threads : ReapedOnce(t)'
  BY DEF ThreadsInv, ReapedOnce
<1>3. \A t \in Threads \ early : WokenOnce(t)'
  BY DEF ThreadsInv, Alive, WokenOnce, WaitedFor
<1>4. Stacked'
  BY StackStays DEF ThreadsInv, Alive
<1> QED
  BY <1>1, <1>2, <1>3, <1>4 DEF ThreadsInv, Alive

(* A task is over.                                                         *)
LEMMA EndTaskKeeps == ASSUME ThreadsInv, EndTask PROVE ThreadsInv'
<1>1. /\ rpc' \in {"batch", "loop"} /\ current = Main /\ ~crashed
      /\ UNCHANGED <<current, link, th, joined, joiner, pending, stopped, early, crashed>>
  BY DEF EndTask
<1> QED
  BY <1>1, QuietKeeps DEF ThreadsInv, ThreadsTypeOK

(* run_tasks() is over, and the reactor may exit.                          *)
LEMMA EndBatchKeeps == ASSUME ThreadsInv, EndBatch PROVE ThreadsInv'
<1>1. /\ rpc' \in {"batch", "loop", "exited"} /\ current = Main /\ ~crashed
      /\ rpc' = "exited" => pending = <<>> /\ stopped
      /\ UNCHANGED <<current, link, th, joined, joiner, pending, stopped, early, crashed>>
  BY DEF EndBatch
<1> QED
  BY <1>1, QuietKeeps DEF ThreadsInv, ThreadsTypeOK

(* engine_exit() only sets a flag.                                         *)
LEMMA StopEngineKeeps ==
    ASSUME ThreadsInv, NEW c \in Contexts, StopEngine(c) PROVE ThreadsInv'
<1>1. /\ stopped' = TRUE /\ ~crashed
      /\ UNCHANGED <<current, link, th, joined, joiner, pending, rpc, early, crashed>>
  BY DEF StopEngine, MayAct
<1> QED
  BY <1>1, QuietKeeps DEF ThreadsInv, ThreadsTypeOK, Alive

(* join() without get() only marks the thread.                             *)
LEMMA JoinOnlyKeeps ==
    ASSUME ThreadsInv, NEW c \in Contexts, NEW u \in Threads, JoinOnly(c, u) PROVE ThreadsInv'
<1>1. /\ joined' = joined \cup {u} /\ ~crashed
      /\ UNCHANGED <<current, link, th, joiner, pending, rpc, stopped, early, crashed>>
  BY DEF JoinOnly, CanJoin, MayAct
<1> QED
  BY <1>1, QuietKeeps DEF ThreadsInv, ThreadsTypeOK, Alive

(* Tasks that wake nobody and reap nobody come or go.                      *)
LEMMA OwnTaskKeeps ==
    ASSUME ThreadsInv, ~crashed,
           UNCHANGED <<current, link, th, joined, joiner, stopped, early, crashed>>,
           rpc' \in {"task", "return"}, pending' \in Seq(ThreadTasks),
           \A t \in Threads :
              /\ InQueue(pending', WakeTasks(t)) = InQueue(pending, WakeTasks(t))
              /\ InQueue(pending', ReapTasks(t)) = InQueue(pending, ReapTasks(t))
    PROVE  ThreadsInv'
<1>1. ThreadsTypeOK'
  BY DEF ThreadsInv, ThreadsTypeOK
<1>2. \A t \in Threads : ReapedOnce(t)'
  BY DEF ThreadsInv, ReapedOnce
<1>3. \A t \in Threads \ early : WokenOnce(t)'
  BY DEF ThreadsInv, Alive, WokenOnce, WaitedFor
<1>4. Stacked'
  BY StackStays DEF ThreadsInv, Alive
<1> QED
  BY <1>1, <1>2, <1>3, <1>4 DEF ThreadsInv, Alive

(* The program makes a task of its own.                                    *)
LEMMA AddTaskKeeps ==
    ASSUME ThreadsInv, NEW c \in Contexts, AddTask(c) PROVE ThreadsInv'
<1>1. /\ ~crashed /\ current = c /\ (c = Main => rpc = "task")
      /\ UNCHANGED <<current, link, th, joined, joiner, rpc, stopped, early, crashed>>
  BY DEF AddTask, MayAct
<1>2. rpc \in {"task", "return"}
  BY <1>1 DEF ThreadsInv, ThreadsTypeOK, Alive, Contexts
<1>3. PICK x \in ThreadTasks : x.run = "program" /\ x = Task("program", Main)
  BY DEF ThreadTasks, TaskKinds, Contexts, Task
<1>4. pending' \in Seq(ThreadTasks) /\ HasOneMore(pending', pending, x)
  <2>1. pending' = Append(pending, x) \/ pending' = <<x>> \o pending
    BY <1>3 DEF AddTask
  <2> QED
    BY <2>1, QueueGets DEF ThreadsInv, ThreadsTypeOK
<1>5. \A t \in Threads :
         /\ InQueue(pending', WakeTasks(t)) = InQueue(pending, WakeTasks(t))
         /\ InQueue(pending', ReapTasks(t)) = InQueue(pending, ReapTasks(t))
  BY <1>3, <1>4 DEF HasOneMore
<1> QED
  BY <1>1, <1>2, <1>4, <1>5, OwnTaskKeeps

(* The reactor runs a task of the program,                                 *)
LEMMA RunProgramKeeps ==
    ASSUME ThreadsInv, RunTask, Head(pending).run = "program" PROVE ThreadsInv'
<1>1. /\ ~crashed /\ pending # <<>> /\ rpc' = "task" /\ pending' = Tail(pending)
      /\ UNCHANGED <<current, link, th, joined, joiner, stopped, early, crashed>>
  BY DEF RunTask
<1>2. PICK x \in ThreadTasks, r \in Seq(ThreadTasks) :
         x = Head(pending) /\ r = Tail(pending) /\ HasOneMore(pending, r, x)
  BY <1>1, QueueLoses DEF ThreadsInv, ThreadsTypeOK
<1>3. \A t \in Threads :
         /\ InQueue(pending', WakeTasks(t)) = InQueue(pending, WakeTasks(t))
         /\ InQueue(pending', ReapTasks(t)) = InQueue(pending, ReapTasks(t))
  <2>1. x.run = "program" /\ pending' = r
    BY <1>1, <1>2
  <2> QED
    BY <1>2, <2>1 DEF HasOneMore
<1> QED
  BY <1>1, <1>2, <1>3, OwnTaskKeeps

(* the answer of a later(), which queues the task that wakes its thread,   *)
LEMMA RunLaterKeeps ==
    ASSUME ThreadsInv, RunTask, Head(pending).run = "later" PROVE ThreadsInv'
<1>1. /\ ~crashed /\ pending # <<>> /\ rpc' = "return"
      /\ pending' = Append(Tail(pending), Task("wake", Head(pending).of))
      /\ UNCHANGED <<current, link, th, joined, joiner, stopped, early, crashed>>
  BY DEF RunTask
<1>2. PICK x \in ThreadTasks, r \in Seq(ThreadTasks) :
         x = Head(pending) /\ r = Tail(pending) /\ HasOneMore(pending, r, x)
  BY <1>1, QueueLoses DEF ThreadsInv, ThreadsTypeOK
<1>3. PICK y \in ThreadTasks : y = Task("wake", x.of) /\ y.run = "wake" /\ y.of = x.of
  <2>1. x.of \in Contexts /\ x.of # Main
    <3>1. x.run # "program"
      BY <1>2
    <3> QED
      BY <3>1 DEF ThreadTasks
  <2>2. Task("wake", x.of) \in ThreadTasks
    BY <2>1 DEF ThreadTasks, TaskKinds, Task
  <2> QED
    BY <2>2 DEF Task
<1>4. pending' \in Seq(ThreadTasks) /\ HasOneMore(pending', r, y)
  BY <1>1, <1>2, <1>3, QueueGets
<1>5. \A t \in Threads :
         /\ InQueue(pending', WakeTasks(t)) = InQueue(pending, WakeTasks(t))
         /\ InQueue(pending', ReapTasks(t)) = InQueue(pending, ReapTasks(t))
  <2>1. x.run = "later"
    BY <1>2
  <2> QED
    BY <1>2, <1>3, <1>4, <2>1 DEF HasOneMore
<1> QED
  BY <1>1, <1>4, <1>5, OwnTaskKeeps

(* the end of async(), which destroys the thread that is through,          *)
LEMMA RunReapKeeps ==
    ASSUME ThreadsInv, RunTask, Head(pending).run = "reap" PROVE ThreadsInv'
<1>1. /\ ~crashed /\ pending # <<>> /\ rpc' = "return" /\ pending' = Tail(pending)
      /\ th' = [th EXCEPT ![Head(pending).of] = "freed"]
      /\ UNCHANGED <<current, link, joined, joiner, stopped, early, crashed>>
  BY DEF RunTask
<1>2. PICK x \in ThreadTasks, r \in Seq(ThreadTasks) :
         x = Head(pending) /\ r = Tail(pending) /\ HasOneMore(pending, r, x)
  BY <1>1, QueueLoses DEF ThreadsInv, ThreadsTypeOK
<1>3. PICK t \in Threads : t = x.of /\ x.run = "reap"
  BY <1>2 DEF ThreadTasks, Contexts
<1>4. th' = [th EXCEPT ![t] = "freed"] /\ pending' = r
  BY <1>1, <1>2, <1>3
<1>5. \A v \in Threads :
         /\ InQueue(r, WakeTasks(v)) = InQueue(pending, WakeTasks(v))
         /\ InQueue(r, ReapTasks(v)) \in Nat
         /\ InQueue(pending, ReapTasks(v)) = InQueue(r, ReapTasks(v)) + (IF v = t THEN 1 ELSE 0)
  BY <1>2, <1>3 DEF HasOneMore
<1>6. th[t] = "exited" /\ InQueue(r, ReapTasks(t)) = 0
  BY <1>5 DEF ThreadsInv, ReapedOnce
<1>7. ThreadsTypeOK'
  BY <1>1, <1>4 DEF ThreadsInv, ThreadsTypeOK
<1>8. \A v \in Threads : ReapedOnce(v)'
  <2>1. ASSUME NEW v \in Threads PROVE ReapedOnce(v)'
    <3>1. CASE v = t
      BY <1>4, <1>6, <3>1 DEF ReapedOnce
    <3>2. CASE v # t
      <4>1. ReapedOnce(v) /\ th'[v] = th[v]
        BY <1>4, <3>2 DEF ThreadsInv, ThreadsTypeOK
      <4>2. InQueue(pending', ReapTasks(v)) = InQueue(pending, ReapTasks(v))
        BY <1>4, <1>5, <3>2
      <4> QED
        BY <1>1, <4>1, <4>2 DEF ReapedOnce
    <3> QED
      BY <3>1, <3>2
  <2> QED
    BY <2>1
<1>9. \A v \in Threads \ early : WokenOnce(v)'
  <2>1. ASSUME NEW v \in Threads \ early PROVE WokenOnce(v)'
    <3>1. WokenOnce(v)
      BY <1>1 DEF ThreadsInv, Alive
    <3>2. (th'[v] = "blocked") <=> (th[v] = "blocked")
      BY <1>4, <1>6 DEF ThreadsInv, ThreadsTypeOK
    <3>3. InQueue(pending', WakeTasks(v)) = InQueue(pending, WakeTasks(v))
      BY <1>4, <1>5
    <3> QED
      BY <1>1, <3>1, <3>2, <3>3 DEF WokenOnce, WaitedFor
  <2> QED
    BY <2>1
<1>10. /\ \A v \in Threads : th'[v] = "active" <=> th[v] = "active"
       /\ t \notin early
  BY <1>4, <1>6 DEF ThreadsInv, ThreadsTypeOK
<1>11. Stacked'
  BY <1>1, <1>10, StackStays DEF ThreadsInv, Alive
<1>12. \A v \in early : th'[v] = "freed"
  BY <1>4 DEF ThreadsInv, ThreadsTypeOK
<1> QED
  BY <1>1, <1>7, <1>8, <1>9, <1>10, <1>11, <1>12 DEF ThreadsInv, Alive

(* or the wake-up of a thread, to which it gives the processor.            *)
LEMMA RunWakeKeeps ==
    ASSUME ThreadsInv, RunTask, Head(pending).run = "wake" PROVE ThreadsInv'
<1>1. /\ ~crashed /\ current = Main /\ pending # <<>> /\ rpc' = "return"
      /\ pending' = Tail(pending) /\ SwitchTo(Head(pending).of, th)
      /\ link' = [link EXCEPT ![Head(pending).of] = current]
      /\ th' = [th EXCEPT ![Head(pending).of] = IF @ = "freed" THEN @ ELSE "active"]
      /\ UNCHANGED <<joined, joiner, stopped, early>>
  BY DEF RunTask
<1>2. PICK x \in ThreadTasks, r \in Seq(ThreadTasks) :
         x = Head(pending) /\ r = Tail(pending) /\ HasOneMore(pending, r, x)
  BY <1>1, QueueLoses DEF ThreadsInv, ThreadsTypeOK
<1>3. PICK t \in Threads : t = x.of /\ x.run = "wake"
  BY <1>2 DEF ThreadTasks, Contexts
<1>4. /\ pending' = r /\ current' = t /\ link' = [link EXCEPT ![t] = current]
      /\ th' = [th EXCEPT ![t] = IF th[t] = "freed" THEN "freed" ELSE "active"]
      /\ crashed' = (th[t] = "freed")
  BY <1>1, <1>2, <1>3 DEF SwitchTo, ThreadsInv, ThreadsTypeOK
<1>5. \A v \in Threads :
         /\ InQueue(r, WakeTasks(v)) \in Nat
         /\ InQueue(r, ReapTasks(v)) = InQueue(pending, ReapTasks(v))
         /\ InQueue(pending, WakeTasks(v)) = InQueue(r, WakeTasks(v)) + (IF v = t THEN 1 ELSE 0)
  BY <1>2, <1>3 DEF HasOneMore
<1>6. t \in early \/ (th[t] = "blocked" /\ t \notin early)
  <2>1. CASE t \notin early
    <3>1. WokenOnce(t) /\ Cardinality(WaitedFor(t)) \in Nat
      BY <1>1, <2>1, WaitedForIs DEF ThreadsInv, Alive
    <3> QED
      BY <1>5, <2>1, <3>1 DEF WokenOnce
  <2> QED
    BY <2>1
<1>7. ThreadsTypeOK'
  BY <1>1, <1>2, <1>4 DEF ThreadsInv, ThreadsTypeOK, Contexts
<1>8. \A v \in Threads : th'[v] = th[v] \/ (v = t /\ th[v] = "blocked" /\ th'[v] = "active")
  BY <1>4, <1>6 DEF ThreadsInv, ThreadsTypeOK
<1>9. \A v \in Threads : ReapedOnce(v)'
  <2>1. ASSUME NEW v \in Threads PROVE ReapedOnce(v)'
    <3>1. InQueue(pending', ReapTasks(v)) = InQueue(pending, ReapTasks(v))
      BY <1>4, <1>5
    <3>2. ReapedOnce(v) /\ (th[v] = "exited" => th'[v] = "exited")
      BY <1>8 DEF ThreadsInv
    <3> QED
      BY <1>1, <3>1, <3>2 DEF ReapedOnce
  <2> QED
    BY <2>1
<1>10. \A v \in early : th'[v] = "freed"
  BY <1>8 DEF ThreadsInv, ThreadsTypeOK
<1>11. CASE t \in early
  <2>1. crashed'
    BY <1>4, <1>11 DEF ThreadsInv
  <2> QED
    BY <1>1, <1>7, <1>9, <1>10, <1>11, <2>1 DEF ThreadsInv
<1>12. CASE th[t] = "blocked" /\ t \notin early
  <2>1. th' = [th EXCEPT ![t] = "active"] /\ ~crashed' /\ th'[t] = "active"
    BY <1>4, <1>12 DEF ThreadsInv, ThreadsTypeOK
  <2>2. Stacked'
    BY <1>1, <1>4, <1>12, <2>1, StackGrows DEF ThreadsInv, Alive
  <2>3. \A v \in Threads \ early : WokenOnce(v)'
    <3>1. ASSUME NEW v \in Threads \ early PROVE WokenOnce(v)'
      <4>1. WokenOnce(v) /\ Cardinality(WaitedFor(v)) \in Nat /\ WaitedFor(v)' = WaitedFor(v)
        BY <1>1, WaitedForIs DEF ThreadsInv, Alive, WaitedFor
      <4>2. CASE v = t
        BY <1>4, <1>5, <1>12, <2>1, <4>1, <4>2 DEF WokenOnce
      <4>3. CASE v # t
        BY <1>4, <1>5, <1>8, <4>1, <4>3 DEF WokenOnce
      <4> QED
        BY <4>2, <4>3
    <3> QED
      BY <3>1
  <2>4. Alive'
    BY <1>1, <1>4, <2>1, <2>2, <2>3 DEF Alive
  <2> QED
    BY <1>1, <1>7, <1>9, <1>10, <2>1, <2>4 DEF ThreadsInv
<1> QED
  BY <1>6, <1>11, <1>12

(* These are all the tasks there are.                                      *)
LEMMA RunTaskKeeps == ASSUME ThreadsInv, RunTask PROVE ThreadsInv'
<1>1. pending # <<>> /\ pending \in Seq(ThreadTasks)
  BY DEF RunTask, ThreadsInv, ThreadsTypeOK
<1>2. PICK x \in ThreadTasks, r \in Seq(ThreadTasks) :
         x = Head(pending) /\ r = Tail(pending) /\ HasOneMore(pending, r, x)
  BY <1>1, QueueLoses
<1>3. Head(pending).run \in TaskKinds
  BY <1>2 DEF ThreadTasks
<1> QED
  BY <1>3, RunProgramKeeps, RunLaterKeeps, RunReapKeeps, RunWakeKeeps DEF TaskKinds

(* A thread is created on the context c, and runs at once.                 *)
LEMMA SpawnKeeps ==
    ASSUME ThreadsInv, NEW c \in Contexts, NEW u \in Threads, Spawn(c, u) PROVE ThreadsInv'
<1>1. /\ ~crashed /\ current = c /\ (c = Main => rpc = "task") /\ th[u] = "unborn"
      /\ current' = u /\ link' = [link EXCEPT ![u] = current] /\ crashed' = FALSE
      /\ th' = [th EXCEPT ![u] = "active"]
      /\ UNCHANGED <<joined, joiner, pending, rpc, stopped, early>>
  BY DEF Spawn, MayAct, SwitchTo
<1>2. u \notin early /\ \A v \in Threads : th'[v] = th[v] \/ (v = u /\ th'[v] = "active")
  BY <1>1 DEF ThreadsInv, ThreadsTypeOK
<1>3. ThreadsTypeOK'
  BY <1>1 DEF ThreadsInv, ThreadsTypeOK, Contexts
<1>4. Stacked'
  BY <1>1, <1>2, StackGrows DEF ThreadsInv, Alive
<1>5. \A v \in Threads : ReapedOnce(v)'
  BY <1>1, <1>2 DEF ThreadsInv, ReapedOnce
<1>6. \A v \in Threads \ early : WokenOnce(v)'
  <2>1. ASSUME NEW v \in Threads \ early PROVE WokenOnce(v)'
    <3>1. WokenOnce(v) /\ (th'[v] = "blocked" <=> th[v] = "blocked")
      BY <1>1, <1>2 DEF ThreadsInv, Alive
    <3> QED
      BY <1>1, <3>1 DEF WokenOnce, WaitedFor
  <2> QED
    BY <2>1
<1>7. rpc \in {"task", "return"}
  BY <1>1 DEF ThreadsInv, ThreadsTypeOK, Alive, Contexts
<1>8. Alive'
  BY <1>1, <1>4, <1>6, <1>7, <1>3 DEF Alive, ThreadsInv, ThreadsTypeOK
<1>9. \A v \in early : th'[v] = "freed"
  BY <1>1, <1>2 DEF ThreadsInv, ThreadsTypeOK
<1> QED
  BY <1>1, <1>3, <1>5, <1>7, <1>8, <1>9 DEF ThreadsInv

(* What holds when the thread on top gives the processor back.             *)
LEMMA HandsBack ==
    ASSUME ThreadsInv, NEW t \in Threads, ~crashed, current = t, SwitchTo(link[t], th),
           link' = link, early' = early, NEW x \in {"blocked", "exited"},
           th' = [th EXCEPT ![t] = x]
    PROVE  /\ t \notin early /\ th[t] = "active" /\ rpc \in {"task", "return"}
           /\ InQueue(pending, WakeTasks(t)) = 0 /\ WaitedFor(t) = {} /\ Stacked'
           /\ current' \in Contexts /\ crashed' \in BOOLEAN /\ (crashed' => early # {})
           /\ ~crashed' /\ current' \in Threads => th'[current'] = "active"
           /\ \A v \in Threads : th'[v] = IF v = t THEN x ELSE th[v]
           /\ \A v \in early : th'[v] = "freed"
<1>1. th[t] = "active" /\ t \notin early /\ ThreadsTypeOK /\ Stacked /\ WokenOnce(t)
  BY DEF ThreadsInv, Alive
<1>2. rpc \in {"task", "return"}
  BY ThreadsAssumption DEF ThreadsInv, ThreadsTypeOK, Alive
<1>3. InQueue(pending, WakeTasks(t)) \in Nat /\ Cardinality(WaitedFor(t)) \in Nat
  BY <1>1, InQueueIs, WaitedForIs DEF ThreadsTypeOK
<1>4. InQueue(pending, WakeTasks(t)) = 0 /\ WaitedFor(t) = {}
  BY <1>1, <1>3, WaitedForIs DEF WokenOnce
<1>5. /\ current' = link[t] /\ crashed' = (link[t] \in Threads /\ th[link[t]] = "freed")
  BY DEF SwitchTo
<1>6. /\ Stacked' /\ link[t] \in Contexts
      /\ link[t] \in Threads => link[t] # t /\ (th[link[t]] = "active" \/ link[t] \in early)
  BY <1>1, <1>5, StackShrinks
<1>7. \A v \in Threads : th'[v] = IF v = t THEN x ELSE th[v]
  BY <1>1 DEF ThreadsTypeOK
<1>8. \A v \in early : th'[v] = "freed"
  BY <1>1, <1>7 DEF ThreadsInv, ThreadsTypeOK
<1>9. crashed' \in BOOLEAN /\ (crashed' => early # {})
  BY <1>5, <1>6
<1>10. ~crashed' /\ current' \in Threads => th'[current'] = "active"
  BY <1>5, <1>6, <1>7 DEF ThreadsInv
<1> QED
  BY <1>1, <1>2, <1>4, <1>5, <1>6, <1>7, <1>8, <1>9, <1>10

(* yield() queues the later() that brings the thread back.                 *)
LEMMA YieldKeeps == ASSUME ThreadsInv, NEW t \in Threads, Yield(t) PROVE ThreadsInv'
<1>1. /\ ~crashed /\ current = t /\ pending' = Append(pending, Task("later", t))
      /\ th' = [th EXCEPT ![t] = "blocked"] /\ SwitchTo(link[t], th)
      /\ UNCHANGED <<link, joined, joiner, rpc, stopped, early>>
  BY DEF Yield, Blocks, MayAct
<1>2. /\ t \notin early /\ th[t] = "active" /\ rpc \in {"task", "return"}
      /\ InQueue(pending, WakeTasks(t)) = 0 /\ WaitedFor(t) = {} /\ Stacked'
      /\ current' \in Contexts /\ crashed' \in BOOLEAN /\ (crashed' => early # {})
      /\ ~crashed' /\ current' \in Threads => th'[current'] = "active"
      /\ \A v \in Threads : th'[v] = IF v = t THEN "blocked" ELSE th[v]
      /\ \A v \in early : th'[v] = "freed"
  <2>1. "blocked" \in {"blocked", "exited"}
    OBVIOUS
  <2> QED
    BY <1>1, <2>1, HandsBack
<1>3. PICK y \in ThreadTasks : y = Task("later", t) /\ y.run = "later" /\ y.of = t
  <2>1. t \in Contexts /\ t # Main
    BY ThreadsAssumption DEF Contexts
  <2>2. Task("later", t) \in ThreadTasks
    BY <2>1 DEF ThreadTasks, TaskKinds, Task
  <2> QED
    BY <2>2 DEF Task
<1>4. pending' \in Seq(ThreadTasks) /\ HasOneMore(pending', pending, y)
  BY <1>1, <1>3, QueueGets DEF ThreadsInv, ThreadsTypeOK
<1>5. \A v \in Threads :
         /\ InQueue(pending, WakeTasks(v)) \in Nat
         /\ InQueue(pending', WakeTasks(v)) = InQueue(pending, WakeTasks(v)) + (IF v = t THEN 1 ELSE 0)
         /\ InQueue(pending', ReapTasks(v)) = InQueue(pending, ReapTasks(v))
  BY <1>3, <1>4 DEF HasOneMore
<1>6. ThreadsTypeOK'
  BY <1>1, <1>2, <1>4 DEF ThreadsInv, ThreadsTypeOK
<1>7. \A v \in Threads : ReapedOnce(v)'
  <2>1. ASSUME NEW v \in Threads PROVE ReapedOnce(v)'
    <3>1. ReapedOnce(v) /\ (th[v] = "exited" => th'[v] = "exited")
      BY <1>2 DEF ThreadsInv
    <3> QED
      BY <1>1, <1>5, <3>1 DEF ReapedOnce
  <2> QED
    BY <2>1
<1>8. \A v \in Threads \ early : WokenOnce(v)'
  <2>1. ASSUME NEW v \in Threads \ early PROVE WokenOnce(v)'
    <3>1. WokenOnce(v) /\ WaitedFor(v)' = WaitedFor(v) /\ Cardinality(WaitedFor(v)) \in Nat
      BY <1>1, WaitedForIs DEF ThreadsInv, Alive, WaitedFor
    <3>2. CASE v = t
      <4>1. Cardinality(WaitedFor(t)) = 0
        BY <1>2, FS_EmptySet
      <4> QED
        BY <1>2, <1>5, <3>1, <3>2, <4>1 DEF WokenOnce
    <3>3. CASE v # t
      BY <1>2, <1>5, <3>1, <3>3 DEF WokenOnce
    <3> QED
      BY <3>2, <3>3
  <2> QED
    BY <2>1
<1>9. ~crashed' => Alive'
  BY <1>1, <1>2, <1>8 DEF Alive
<1> QED
  BY <1>1, <1>2, <1>6, <1>7, <1>9 DEF ThreadsInv

(* A thread that joins one that has not ended waits for it.                *)
LEMMA JoinKeeps ==
    ASSUME ThreadsInv, NEW t \in Threads, NEW u \in Threads, Join(t, u) PROVE ThreadsInv'
<1>1. /\ ~crashed /\ current = t /\ t # u /\ u \notin joined /\ joined' = joined \cup {u}
      /\ th[u] \in {"active", "blocked", "exited"}
      /\ UNCHANGED <<link, pending, rpc, stopped, early>>
  BY DEF Join, CanJoin, MayAct
<1>2. joiner[u] = None
  BY <1>1 DEF ThreadsInv
<1>3. CASE th[u] = "exited"
  <2>1. UNCHANGED <<current, th, joiner, crashed>>
    BY <1>3 DEF Join
  <2> QED
    BY <1>1, <2>1, QuietKeeps DEF ThreadsInv, ThreadsTypeOK, Alive
<1>4. CASE th[u] # "exited"
  <2>1. /\ joiner' = [joiner EXCEPT ![u] = t]
        /\ th' = [th EXCEPT ![t] = "blocked"] /\ SwitchTo(link[t], th)
    BY <1>4 DEF Join, Blocks
  <2>2. /\ t \notin early /\ th[t] = "active" /\ rpc \in {"task", "return"}
        /\ InQueue(pending, WakeTasks(t)) = 0 /\ WaitedFor(t) = {} /\ Stacked'
        /\ current' \in Contexts /\ crashed' \in BOOLEAN /\ (crashed' => early # {})
        /\ ~crashed' /\ current' \in Threads => th'[current'] = "active"
        /\ \A v \in Threads : th'[v] = IF v = t THEN "blocked" ELSE th[v]
        /\ \A v \in early : th'[v] = "freed"
    <3>1. "blocked" \in {"blocked", "exited"}
      OBVIOUS
    <3> QED
      BY <1>1, <2>1, <3>1, HandsBack
  <2>3. ThreadsTypeOK'
    BY <1>1, <2>1, <2>2 DEF ThreadsInv, ThreadsTypeOK
  <2>4. ThreadsTypeOK /\ \A v \in Threads :
           Cardinality(WaitedFor(v)') = Cardinality(WaitedFor(v)) + (IF v = t THEN 1 ELSE 0)
    <3>1. ThreadsTypeOK
      BY DEF ThreadsInv
    <3> QED
      BY <1>2, <2>1, <3>1, JoinerComes
  <2>5. \A v \in Threads : joiner'[v] # None => v \in joined'
    BY <1>1, <2>1, <2>4 DEF ThreadsInv, ThreadsTypeOK
  <2>6. \A v \in Threads : ReapedOnce(v)'
    <3>1. ASSUME NEW v \in Threads PROVE ReapedOnce(v)'
      <4>1. ReapedOnce(v) /\ (th[v] = "exited" => th'[v] = "exited")
        BY <2>2 DEF ThreadsInv
      <4>2. joiner[v] = "reap" => joiner'[v] = "reap"
        BY <1>2, <2>1, ThreadsAssumption DEF ThreadsInv, ThreadsTypeOK
      <4> QED
        BY <1>1, <4>1, <4>2 DEF ReapedOnce
    <3> QED
      BY <3>1
  <2>7. \A v \in Threads \ early : WokenOnce(v)'
    <3>1. ASSUME NEW v \in Threads \ early PROVE WokenOnce(v)'
      <4>1. WokenOnce(v) /\ Cardinality(WaitedFor(v)) \in Nat
        BY <1>1, <2>4, WaitedForIs DEF ThreadsInv, Alive
      <4>2. CASE v = t
        <5>1. Cardinality(WaitedFor(t)) = 0
          BY <2>2, FS_EmptySet
        <5>2. Cardinality(WaitedFor(v)') = 1
          BY <2>4, <4>2, <5>1
        <5> QED
          BY <1>1, <2>2, <4>2, <5>2 DEF WokenOnce
      <4>3. CASE v # t
        <5>1. Cardinality(WaitedFor(v)') = Cardinality(WaitedFor(v))
          BY <2>4, <4>1, <4>3
        <5> QED
          BY <1>1, <2>2, <4>1, <4>3, <5>1 DEF WokenOnce
      <4> QED
        BY <4>2, <4>3
    <3> QED
      BY <3>1
  <2>8. ~crashed' => Alive'
    BY <1>1, <2>2, <2>7 DEF Alive
  <2> QED
    BY <1>1, <2>2, <2>3, <2>5, <2>6, <2>8 DEF ThreadsInv
<1> QED
  BY <1>3, <1>4

(* What was not left to async()'s continuation is not reaped.              *)
LEMMA NotReaped ==
    ASSUME ThreadsInv, NEW u \in Threads, joiner[u] # "reap"
    PROVE  InQueue(pending, ReapTasks(u)) = 0
BY DEF ThreadsInv, ReapedOnce

(* async() leaves the end of its thread to a continuation.                 *)
LEMMA JoinThenReapKeeps ==
    ASSUME ThreadsInv, NEW c \in Contexts, NEW u \in Threads, JoinThenReap(c, u)
    PROVE  ThreadsInv'
<1>1. /\ ~crashed /\ current = c /\ c # u /\ u \notin joined /\ joined' = joined \cup {u}
      /\ th[u] \in {"active", "blocked", "exited"}
      /\ UNCHANGED <<current, link, pending, rpc, stopped, early, crashed>>
  BY DEF JoinThenReap, CanJoin, MayAct
<1>2. joiner[u] = None /\ ThreadsTypeOK
  BY <1>1 DEF ThreadsInv
<1>3. InQueue(pending, ReapTasks(u)) = 0
  BY <1>2, NotReaped, ThreadsAssumption
<1>4. u \notin early
  BY <1>1 DEF ThreadsInv
<1>5. CASE th[u] = "exited"
  <2>1. th' = [th EXCEPT ![u] = "freed"] /\ joiner' = joiner
    BY <1>5 DEF JoinThenReap
  <2>2. \A v \in Threads : th'[v] = IF v = u THEN "freed" ELSE th[v]
    BY <1>2, <2>1 DEF ThreadsTypeOK
  <2>3. ThreadsTypeOK'
    BY <1>1, <1>2, <2>1 DEF ThreadsTypeOK
  <2>4. \A v \in Threads : ReapedOnce(v)'
    <3>1. ASSUME NEW v \in Threads PROVE ReapedOnce(v)'
      BY <1>1, <1>3, <2>1, <2>2 DEF ThreadsInv, ReapedOnce
    <3> QED
      BY <3>1
  <2>5. \A v \in Threads \ early : WokenOnce(v)'
    <3>1. ASSUME NEW v \in Threads \ early PROVE WokenOnce(v)'
      <4>1. WokenOnce(v) /\ (th'[v] = "blocked" <=> th[v] = "blocked")
        BY <1>1, <1>5, <2>2 DEF ThreadsInv, Alive
      <4> QED
        BY <1>1, <2>1, <4>1 DEF WokenOnce, WaitedFor
    <3> QED
      BY <3>1
  <2>6. Stacked'
    <3>1. \A v \in Threads : th'[v] = "active" <=> th[v] = "active"
      BY <1>5, <2>2
    <3> QED
      BY <1>1, <3>1, StackStays DEF ThreadsInv, Alive
  <2>7. Alive'
    BY <1>1, <2>2, <2>5, <2>6 DEF ThreadsInv, Alive
  <2> QED
    BY <1>1, <1>4, <2>1, <2>2, <2>3, <2>4, <2>7 DEF ThreadsInv, ThreadsTypeOK
<1>6. CASE th[u] # "exited"
  <2>1. th' = th /\ joiner' = [joiner EXCEPT ![u] = "reap"]
    BY <1>6 DEF JoinThenReap
  <2>2. ThreadsTypeOK'
    BY <1>1, <1>2, <2>1 DEF ThreadsTypeOK
  <2>3. \A v \in Threads :
           Cardinality(WaitedFor(v)') = Cardinality(WaitedFor(v)) + (IF v = "reap" THEN 1 ELSE 0)
    BY <1>2, <2>1, JoinerComes
  <2>4. \A v \in Threads : joiner'[v] # None => v \in joined'
    BY <1>1, <1>2, <2>1 DEF ThreadsInv, ThreadsTypeOK
  <2>5. \A v \in Threads : ReapedOnce(v)'
    <3>1. ASSUME NEW v \in Threads PROVE ReapedOnce(v)'
      <4>1. ReapedOnce(v) /\ (joiner[v] = "reap" => joiner'[v] = "reap")
        BY <1>2, <2>1 DEF ThreadsInv, ThreadsTypeOK
      <4> QED
        BY <1>1, <2>1, <4>1 DEF ReapedOnce
    <3> QED
      BY <3>1
  <2>6. \A v \in Threads \ early : WokenOnce(v)'
    <3>1. ASSUME NEW v \in Threads \ early PROVE WokenOnce(v)'
      <4>1. v # "reap" /\ WokenOnce(v) /\ Cardinality(WaitedFor(v)) \in Nat
        BY <1>1, <1>2, WaitedForIs, ThreadsAssumption DEF ThreadsInv, Alive
      <4>2. Cardinality(WaitedFor(v)') = Cardinality(WaitedFor(v))
        BY <2>3, <4>1
      <4> QED
        BY <1>1, <2>1, <4>1, <4>2 DEF WokenOnce
    <3> QED
      BY <3>1
  <2>7. Stacked'
    BY <1>1, <2>1, StackStays DEF ThreadsInv, Alive
  <2>8. Alive'
    BY <1>1, <2>1, <2>6, <2>7 DEF ThreadsInv, Alive
  <2> QED
    BY <1>1, <2>1, <2>2, <2>4, <2>5, <2>8 DEF ThreadsInv
<1> QED
  BY <1>5, <1>6

(* The program destroys a thread, ended or not.                            *)
LEMMA DestroyThreadKeeps ==
    ASSUME ThreadsInv, NEW c \in Contexts, NEW u \in Threads, DestroyThread(c, u)
    PROVE  ThreadsInv'
<1>1. /\ ~crashed /\ current = c /\ c # u /\ u \in joined /\ joiner[u] # "reap"
      /\ th[u] \in {"active", "blocked", "exited"}
      /\ th' = [th EXCEPT ![u] = "freed"]
      /\ early' = IF th[u] = "exited" THEN early ELSE early \cup {u}
      /\ UNCHANGED <<current, link, joined, joiner, pending, rpc, stopped, crashed>>
  BY DEF DestroyThread, MayAct
<1>2. InQueue(pending, ReapTasks(u)) = 0
  BY <1>1, NotReaped
<1>3. \A v \in Threads : th'[v] = IF v = u THEN "freed" ELSE th[v]
  BY <1>1 DEF ThreadsInv, ThreadsTypeOK
<1>4. ThreadsTypeOK'
  BY <1>1 DEF ThreadsInv, ThreadsTypeOK
<1>5. \A v \in early' : th'[v] = "freed"
  BY <1>1, <1>3 DEF ThreadsInv, ThreadsTypeOK
<1>6. \A v \in Threads : ReapedOnce(v)'
  <2>1. ASSUME NEW v \in Threads PROVE ReapedOnce(v)'
    BY <1>1, <1>2, <1>3 DEF ThreadsInv, ReapedOnce
  <2> QED
    BY <2>1
<1>7. \A v \in Threads \ early' : WokenOnce(v)'
  <2>1. ASSUME NEW v \in Threads \ early' PROVE WokenOnce(v)'
    <3>1. v \in Threads \ early /\ WokenOnce(v) /\ (v = u => th[u] = "exited")
      BY <1>1 DEF ThreadsInv, Alive
    <3>2. th'[v] = "blocked" <=> th[v] = "blocked"
      BY <1>3, <3>1
    <3> QED
      BY <1>1, <3>1, <3>2 DEF WokenOnce, WaitedFor
  <2> QED
    BY <2>1
<1>8. Stacked'
  <2>1. u \notin early
    BY <1>1 DEF ThreadsInv
  <2>2. \A v \in Threads : th'[v] = "active" => th[v] = "active"
    BY <1>3
  <2>3. \A v \in Threads :
           th[v] = "active" \/ v \in early => th'[v] = "active" \/ v \in early'
    BY <1>1, <1>3, <2>1
  <2> QED
    BY <1>1, <2>2, <2>3, StackStays DEF ThreadsInv, Alive
<1>9. Alive'
  BY <1>1, <1>3, <1>7, <1>8 DEF ThreadsInv, Alive
<1> QED
  BY <1>1, <1>4, <1>5, <1>6, <1>9 DEF ThreadsInv

(* A thread ends, and a task is queued for whoever waits for that.         *)
LEMMA ExitKeeps == ASSUME ThreadsInv, NEW t \in Threads, Exit(t) PROVE ThreadsInv'
<1>1. /\ ~crashed /\ current = t
      /\ joiner' = [joiner EXCEPT ![t] = IF joiner[t] = "reap" THEN joiner[t] ELSE None]
      /\ th' = [th EXCEPT ![t] = "exited"] /\ SwitchTo(link[t], th)
      /\ UNCHANGED <<link, joined, rpc, stopped, early>>
  BY DEF Exit, MayAct
<1>2. /\ t \notin early /\ th[t] = "active" /\ rpc \in {"task", "return"}
      /\ InQueue(pending, WakeTasks(t)) = 0 /\ WaitedFor(t) = {} /\ Stacked'
      /\ current' \in Contexts /\ crashed' \in BOOLEAN /\ (crashed' => early # {})
      /\ ~crashed' /\ current' \in Threads => th'[current'] = "active"
      /\ \A v \in Threads : th'[v] = IF v = t THEN "exited" ELSE th[v]
      /\ \A v \in early : th'[v] = "freed"
  <2>1. "exited" \in {"blocked", "exited"}
    OBVIOUS
  <2> QED
    BY <1>1, <2>1, HandsBack
<1>3. ThreadsTypeOK /\ InQueue(pending, ReapTasks(t)) = 0
  BY <1>2 DEF ThreadsInv, ReapedOnce
<1>4. \A v \in Threads : joiner'[v] # None => v \in joined'
  BY <1>1, <1>3 DEF ThreadsInv, ThreadsTypeOK
<1>5. \A v \in Threads : /\ InQueue(pending, WakeTasks(v)) \in Nat
                         /\ InQueue(pending, ReapTasks(v)) \in Nat
                         /\ Cardinality(WaitedFor(v)) \in Nat
  BY <1>3, InQueueIs, WaitedForIs DEF ThreadsTypeOK
\* It is enough to know what is queued and who waits now.
<1>6. SUFFICES
        /\ pending' \in Seq(ThreadTasks)
        /\ \A v \in Threads :
              /\ InQueue(pending', WakeTasks(v)) + Cardinality(WaitedFor(v)')
                    = InQueue(pending, WakeTasks(v)) + Cardinality(WaitedFor(v))
              /\ InQueue(pending', ReapTasks(v)) = InQueue(pending, ReapTasks(v))
                    + (IF v = t /\ joiner[t] = "reap" THEN 1 ELSE 0)
  <2>1. ThreadsTypeOK'
    BY <1>1, <1>2, <1>3, <1>6 DEF ThreadsTypeOK
  <2>2. \A v \in Threads : ReapedOnce(v)'
    <3>1. ASSUME NEW v \in Threads PROVE ReapedOnce(v)'
      <4>1. CASE v = t /\ joiner[t] = "reap"
        <5>1. InQueue(pending', ReapTasks(v)) = 1
          BY <1>3, <1>6, <4>1
        <5>2. th'[v] = "exited" /\ joiner'[v] = "reap"
          BY <1>1, <1>2, <1>3, <4>1 DEF ThreadsTypeOK
        <5> QED
          BY <5>1, <5>2 DEF ReapedOnce
      <4>2. CASE v = t /\ joiner[t] # "reap"
        <5>1. InQueue(pending', ReapTasks(v)) = 0
          BY <1>3, <1>6, <4>2
        <5> QED
          BY <5>1 DEF ReapedOnce
      <4>3. CASE v # t
        <5>1. InQueue(pending', ReapTasks(v)) = InQueue(pending, ReapTasks(v))
          BY <1>5, <1>6, <4>3
        <5>2. ReapedOnce(v) /\ th'[v] = th[v] /\ joiner'[v] = joiner[v]
          BY <1>1, <1>2, <1>3, <4>3 DEF ThreadsInv, ThreadsTypeOK
        <5> QED
          BY <5>1, <5>2 DEF ReapedOnce
      <4> QED
        BY <4>1, <4>2, <4>3
    <3> QED
      BY <3>1
  <2>3. \A v \in Threads \ early : WokenOnce(v)'
    <3>1. ASSUME NEW v \in Threads \ early PROVE WokenOnce(v)'
      <4>1. WokenOnce(v) /\ (th'[v] = "blocked" <=> th[v] = "blocked")
        BY <1>1, <1>2 DEF ThreadsInv, Alive
      <4> QED
        BY <1>6, <4>1 DEF WokenOnce
    <3> QED
      BY <1>1, <3>1
  <2>4. ~crashed' => Alive'
    BY <1>1, <1>2, <2>3 DEF Alive
  <2> QED
    BY <1>1, <1>2, <1>4, <2>1, <2>2, <2>4 DEF ThreadsInv
<1>7. CASE joiner[t] = None
  <2>1. pending' = pending
    BY <1>7, ThreadsAssumption DEF Exit
  <2>2. \A v \in Threads : WaitedFor(v)' = WaitedFor(v)
    BY <1>1, <1>3, <1>7, ThreadsAssumption DEF WaitedFor, ThreadsTypeOK
  <2> QED
    BY <1>3, <1>5, <1>7, <2>1, <2>2, ThreadsAssumption DEF ThreadsTypeOK
<1>8. CASE joiner[t] = "reap"
  <2>1. PICK y \in ThreadTasks : y = Task("reap", t) /\ y.run = "reap" /\ y.of = t
    <3>1. t \in Contexts /\ t # Main
      BY ThreadsAssumption DEF Contexts
    <3>2. Task("reap", t) \in ThreadTasks
      BY <3>1 DEF ThreadTasks, TaskKinds, Task
    <3> QED
      BY <3>2 DEF Task
  <2>2. pending' = Append(pending, y)
    BY <1>8, <2>1, ThreadsAssumption DEF Exit
  <2>3. pending' \in Seq(ThreadTasks) /\ HasOneMore(pending', pending, y)
    BY <1>3, <2>2, QueueGets DEF ThreadsTypeOK
  <2>4. \A v \in Threads : WaitedFor(v)' = WaitedFor(v)
    BY <1>1, <1>3, <1>8 DEF WaitedFor, ThreadsTypeOK
  <2>5. \A v \in Threads :
           /\ InQueue(pending', WakeTasks(v)) = InQueue(pending, WakeTasks(v))
           /\ InQueue(pending', ReapTasks(v)) = InQueue(pending, ReapTasks(v))
                 + (IF v = t THEN 1 ELSE 0)
    BY <2>1, <2>3 DEF HasOneMore
  <2> QED
    BY <1>8, <2>3, <2>4, <2>5
<1>9. CASE joiner[t] \notin {None, "reap"}
  <2>0. PICK w \in Threads : w = joiner[t]
    BY <1>3, <1>9 DEF ThreadsTypeOK
  <2>1. PICK y \in ThreadTasks : y = Task("wake", w) /\ y.run = "wake" /\ y.of = w
    <3>1. w \in Contexts /\ w # Main
      BY ThreadsAssumption DEF Contexts
    <3>2. Task("wake", w) \in ThreadTasks
      BY <3>1 DEF ThreadTasks, TaskKinds, Task
    <3> QED
      BY <3>2 DEF Task
  <2>2. pending' = Append(pending, y)
    BY <1>9, <2>0, <2>1 DEF Exit
  <2>3. pending' \in Seq(ThreadTasks) /\ HasOneMore(pending', pending, y)
    BY <1>3, <2>2, QueueGets DEF ThreadsTypeOK
  <2>4. joiner' = [joiner EXCEPT ![t] = None]
    BY <1>1, <1>9
  <2>5. \A v \in Threads :
           Cardinality(WaitedFor(v)) = Cardinality(WaitedFor(v)') + (IF v = w THEN 1 ELSE 0)
    BY <1>3, <2>0, <2>4, JoinerGoes
  <2>6. \A v \in Threads :
           /\ InQueue(pending', WakeTasks(v)) = InQueue(pending, WakeTasks(v))
                 + (IF v = w THEN 1 ELSE 0)
           /\ InQueue(pending', ReapTasks(v)) = InQueue(pending, ReapTasks(v))
    BY <2>1, <2>3 DEF HasOneMore
  <2>7. \A v \in Threads : Cardinality(WaitedFor(v)') \in Nat
    <3>1. \A v \in Threads : IsFiniteSet(WaitedFor(v)')
      BY ThreadsAssumption, FS_Subset DEF WaitedFor
    <3> QED
      BY <3>1, FS_CardinalityType
  <2>8. ASSUME NEW v \in Threads
        PROVE  InQueue(pending', WakeTasks(v)) + Cardinality(WaitedFor(v)')
                  = InQueue(pending, WakeTasks(v)) + Cardinality(WaitedFor(v))
    BY <1>5, <2>5, <2>6, <2>7
  <2>9. ASSUME NEW v \in Threads
         PROVE  InQueue(pending', ReapTasks(v)) = InQueue(pending, ReapTasks(v))
                  + (IF v = t /\ joiner[t] = "reap" THEN 1 ELSE 0)
    BY <1>5, <1>9, <2>6
  <2> QED
    BY <2>3, <2>8, <2>9
<1> QED
  BY <1>7, <1>8, <1>9

(* Every step keeps the invariant.                                         *)
LEMMA ThreadsSteps == ASSUME ThreadsInv, [ThreadsNext]_tvars PROVE ThreadsInv'
<1>1. CASE UNCHANGED tvars
  BY <1>1 DEF tvars, ThreadsInv, ThreadsTypeOK, ReapedOnce, Alive, Stacked, StackIs,
              WokenOnce, WaitedFor
<1>2. CASE RunTask
  BY <1>2, RunTaskKeeps
<1>3. CASE EndTask
  BY <1>3, EndTaskKeeps
<1>4. CASE EndBatch
  BY <1>4, EndBatchKeeps
<1>5. ASSUME NEW c \in Contexts, AddTask(c) \/ StopEngine(c) PROVE ThreadsInv'
  BY <1>5, AddTaskKeeps, StopEngineKeeps
<1>6. ASSUME NEW c \in Contexts, NEW u \in Threads,
             Spawn(c, u) \/ JoinThenReap(c, u) \/ JoinOnly(c, u) \/ DestroyThread(c, u)
      PROVE  ThreadsInv'
  BY <1>6, SpawnKeeps, JoinThenReapKeeps, JoinOnlyKeeps, DestroyThreadKeeps
<1>7. ASSUME NEW t \in Threads, Yield(t) \/ Exit(t) PROVE ThreadsInv'
  BY <1>7, YieldKeeps, ExitKeeps
<1>8. ASSUME NEW t \in Threads, NEW u \in Threads, Join(t, u) PROVE ThreadsInv'
  BY <1>8, JoinKeeps
<1> QED
  BY <1>1, <1>2, <1>3, <1>4, <1>5, <1>6, <1>7, <1>8 DEF ThreadsNext

(* The contexts reached through the links are those of the stack.          *)
LEMMA ChainIsTheStack == ASSUME ThreadsInv PROVE LinksAreTheStack
<1> SUFFICES ASSUME ~crashed
             PROVE  /\ Main \in Chain
                    /\ {t \in Threads : th[t] = "active"} = Chain \ ({Main} \cup early)
                    /\ rpc \in {"loop", "batch", "exited"} => Chain = {Main}
  BY DEF LinksAreTheStack
<1>1. PICK m, s : StackIs(m, s)
  BY DEF ThreadsInv, Alive, Stacked
<1>2. Chain = {s[i] : i \in 0..m}
  BY <1>1, ChainIs
<1>3. m \in Nat /\ 0 \in 0..m /\ m \in 0..m /\ \A i \in 0..m : i < m \/ i = m
  BY <1>1 DEF StackIs
<1>4. Main \in Chain
  BY <1>1, <1>2, <1>3 DEF StackIs
<1>5. {t \in Threads : th[t] = "active"} \subseteq Chain \ ({Main} \cup early)
  <2>1. ASSUME NEW t \in Threads, th[t] = "active" PROVE t \in Chain \ ({Main} \cup early)
    <3>1. t # Main /\ t \notin early
      BY <2>1, ThreadsAssumption DEF ThreadsInv
    <3>2. \E i \in 0..m : s[i] = t
      BY <1>1, <2>1 DEF StackIs
    <3> QED
      BY <1>2, <3>1, <3>2
  <2> QED
    BY <2>1
<1>6. Chain \ ({Main} \cup early) \subseteq {t \in Threads : th[t] = "active"}
  BY <1>1, <1>2, <1>3 DEF StackIs
<1>7. ASSUME rpc \in {"loop", "batch", "exited"} PROVE Chain = {Main}
  <2>1. current = Main
    BY <1>7 DEF ThreadsInv, Alive
  <2>2. m = 0
    BY <1>1, <1>3, <2>1 DEF StackIs
  <2>3. \A i \in 0..m : i = 0
    BY <2>2
  <2> QED
    BY <1>1, <1>2, <1>3, <2>1, <2>3 DEF StackIs
<1> QED
  BY <1>4, <1>5, <1>6, <1>7

(* Who waits has one thing that wakes him up.                              *)
LEMMA SleepersAreWoken == ASSUME ThreadsInv PROVE OneWakePerSleeper
<1> DEFINE Wakes(t) == {i \in DOMAIN pending : pending[i].of = t
                                                 /\ pending[i].run \in {"later", "wake"}}
<1>1. ThreadsTypeOK /\ pending \in Seq(ThreadTasks)
  BY DEF ThreadsInv, ThreadsTypeOK
<1>2. \A i \in DOMAIN pending : pending[i] \in ThreadTasks
  BY <1>1
<1>3. ASSUME NEW t \in Threads \ early, ~crashed
      PROVE  Cardinality(Wakes(t)) + Cardinality({u \in Threads : joiner[u] = t})
                = IF th[t] = "blocked" THEN 1 ELSE 0
  <2>1. At(pending, WakeTasks(t)) = Wakes(t)
    BY <1>2 DEF At, WakeTasks
  <2>2. WokenOnce(t)
    BY <1>3 DEF ThreadsInv, Alive
  <2> HIDE DEF Wakes
  <2> QED
    BY <2>1, <2>2 DEF WokenOnce, InQueue, WaitedFor
<1>4. ASSUME NEW i \in DOMAIN pending, pending[i].run = "reap" PROVE th[pending[i].of] = "exited"
  <2>1. pending[i] \in ThreadTasks
    BY <1>2, <1>4
  <2>2. PICK t \in Threads : t = pending[i].of
    BY <1>4, <2>1 DEF ThreadTasks, Contexts
  <2>3. i \in At(pending, ReapTasks(t))
    BY <1>4, <2>1, <2>2 DEF At, ReapTasks
  <2>4. InQueue(pending, ReapTasks(t)) # 0
    BY <1>1, <2>3, InQueueIs
  <2> QED
    BY <2>2, <2>4 DEF ThreadsInv, ReapedOnce
<1>5. rpc = "exited" => pending = <<>> /\ stopped
  BY DEF ThreadsInv
<1> QED
  BY <1>3, <1>4, <1>5 DEF OneWakePerSleeper

(* thread.cpp, reactor.cpp: for any finite set of threads that yield, join *)
(* and end, and any tasks of the program, the processor always comes back  *)
(* down the stack of switches; who waits has exactly one thing that wakes  *)
(* him up; the reactor exits with no task left; and the processor is given *)
(* to a context that is gone only if the program destroyed it too early.   *)
THEOREM ThreadsAllComeBack == ThreadsSpec => []ThreadsComeBack
<1>1. ThreadsInit => ThreadsInv
  BY ThreadsStart
<1>2. ThreadsInv /\ [ThreadsNext]_tvars => ThreadsInv'
  BY ThreadsSteps
<1>3. ThreadsInv => ThreadsComeBack
  BY ChainIsTheStack, SleepersAreWoken DEF ThreadsComeBack, ThreadsInv
<1> QED
  BY <1>1, <1>2, <1>3, PTL DEF ThreadsSpec
=============================================================================
