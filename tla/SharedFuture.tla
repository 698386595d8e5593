---------------------------- MODULE SharedFuture ----------------------------
(***************************************************************************)
(* shared_future and shared_promise (src/src/shared_future.h) over the     *)
(* expiring_fifo of their peers.  The shared state is kept by the          *)
(* shared_future objects and by the lambda that waits for the original     *)
(* future; the lambda runs resolve(), which answers the peers one by one   *)
(* without returning to the reactor in between.                            *)
(*                                                                         *)
(* Each peer calls get_future() once.  Copying a value may throw.  The     *)
(* original promise may be destroyed without an answer: the lambda goes    *)
(* with it, and the state with the last object that keeps it.              *)
(***************************************************************************)
EXTENDS Integers, ExpiringFifo, FiniteSets

CONSTANTS Peers,
          MaxHandles     \* bound: the shared_future objects of one state

ASSUME SharedAssumption == MaxHandles \in Nat \ {0}

VARIABLES
    sphase,      \* of the lambda: "pending", "queued" as a task, in
                 \* "resolve", "resolved" (it has run) or "abandoned"
    original,    \* the answer of the original promise, "none" before
    sfuture,     \* _future_state: "none", "value" or "failed"
    handles,     \* the shared_future objects
    peers,       \* _peers
    got          \* peer -> "none", "waiting", "value", "failed", "timed_out",
                 \* "copy_failed" or "stranded" (its promise was destroyed)
svars == <<sphase, original, sfuture, handles, peers, got>>

\* What a peer is given of the value: the copy may throw.
Copies == IF sfuture = "failed" THEN {"failed"} ELSE {"value", "copy_failed"}
Tell(p, s) == got' = [got EXCEPT ![p] = s]

\* The shared state is destroyed if nobody keeps it after this step.
\* ~expiring_fifo destroys the promises and cancels the timers.
Settle(kept) ==
    IF kept THEN UNCHANGED <<peers, got>>
    ELSE /\ peers' = EmptyFifo
         /\ got' = [p \in Peers |-> IF got[p] = "waiting" THEN "stranded" ELSE got[p]]

\* The original future is pending, or ready when the object is made of it.
SharedInit ==
    /\ sphase \in {"pending", "resolve"}
    /\ original \in (IF sphase = "pending" THEN {"none"} ELSE {"value", "failed"})
    /\ sfuture = original /\ handles = 1
    /\ peers = EmptyFifo /\ got = [p \in Peers |-> "none"]

\* shared_state::get_future()
GetSharedFuture(p, timed) ==
    /\ got[p] = "none" /\ handles > 0 /\ sphase # "resolve"
    /\ IF sfuture = "none"
       THEN /\ peers' = PushBack(peers, [peer |-> p, timed |-> timed, live |-> TRUE])
            /\ Tell(p, "waiting")
       ELSE UNCHANGED peers /\ \E s \in Copies : Tell(p, s)
    /\ UNCHANGED <<sphase, original, sfuture, handles>>
\* The timer of entry i fires.
PeerTimesOut(i) ==
    /\ sphase # "resolve" /\ i \in Expirable(peers)
    /\ Tell(peers.list[i].peer, "timed_out")
    /\ peers' = Expire(peers, i)
    /\ UNCHANGED <<sphase, original, sfuture, handles>>

\* The original promise is answered, or destroyed with the lambda.
SetOriginal ==
    /\ sphase = "pending" /\ sphase' = "queued"
    /\ original' \in {"value", "failed"}
    /\ UNCHANGED <<sfuture, handles, peers, got>>
DestroyOriginal ==
    /\ sphase = "pending" /\ sphase' = "abandoned" /\ Settle(handles > 0)
    /\ UNCHANGED <<original, sfuture, handles>>
\* The reactor runs the lambda: resolve() begins.
RunLambda ==
    /\ sphase = "queued" /\ sphase' = "resolve" /\ sfuture' = original
    /\ UNCHANGED <<original, handles, peers, got>>
(* Mutant: only the peer at the front is answered.                         *)
ResolveFirst ==
    /\ sphase = "resolve" /\ sphase' = "resolved"
    /\ IF IsEmpty(peers) THEN Settle(handles > 0)
       ELSE /\ \E s \in Copies : Tell(FifoFront(peers).peer, s)
            /\ peers' = PopFront(peers)
    /\ UNCHANGED <<original, sfuture, handles>>
\* One turn of while (_peers), and its end.
ResolvePeers ==
    /\ sphase = "resolve"
    /\ IF IsEmpty(peers) THEN sphase' = "resolved" /\ Settle(handles > 0)
       ELSE /\ \E s \in Copies : Tell(FifoFront(peers).peer, s)
            /\ peers' = PopFront(peers)
            /\ UNCHANGED sphase
    /\ UNCHANGED <<original, sfuture, handles>>

CopyHandle ==
    /\ handles \in 1..MaxHandles - 1 /\ sphase # "resolve"
    /\ handles' = handles + 1
    /\ UNCHANGED <<sphase, original, sfuture, peers, got>>
DropHandle ==
    /\ handles > 0 /\ sphase # "resolve" /\ handles' = handles - 1
    /\ Settle(handles > 1 \/ sphase \in {"pending", "queued"})
    /\ UNCHANGED <<sphase, original, sfuture>>

SharedNext ==
    \/ SetOriginal \/ DestroyOriginal \/ RunLambda \/ ResolvePeers
    \/ CopyHandle \/ DropHandle
    \/ \E p \in Peers, timed \in BOOLEAN : GetSharedFuture(p, timed)
    \/ \E i \in 1..Len(peers.list) : PeerTimesOut(i)
\* The original promise is answered or destroyed, the reactor runs the
\* lambda, and resolve() goes on.
SharedFairness ==
    WF_svars(SetOriginal \/ DestroyOriginal) /\ WF_svars(RunLambda) /\ WF_svars(ResolvePeers)
SharedSpec == SharedInit /\ [][SharedNext]_svars /\ SharedFairness

----------------------------------------------------------------------------
(* The waiting peers are the live entries, one each and counted by _size,  *)
(* whatever expired in between; once resolve() is through nobody waits and *)
(* no entry is left; nobody is told anything but the answer of the         *)
(* original promise, a timeout or the failure of its own copy; and a peer  *)
(* whose shared_future objects are all gone is still answered: only a      *)
(* destroyed original promise strands it, its timer included.              *)
PeersAnsweredByTheOriginal ==
    LET live == {i \in 1..Len(peers.list) : peers.list[i].live}
    IN  /\ \A p \in Peers : /\ (got[p] = "waiting")
                                  <=> \E i \in live : peers.list[i].peer = p
                            /\ got[p] \in {"value", "copy_failed"} => original = "value"
                            /\ got[p] = "failed" => original = "failed"
                            /\ got[p] = "stranded" => sphase = "abandoned"
        /\ peers.size = Cardinality({p \in Peers : got[p] = "waiting"})
        /\ sphase = "resolved" => peers = EmptyFifo
        /\ sfuture # "none" => sphase \in {"resolve", "resolved"}

(* Every peer is answered, unless the original promise never is.           *)
PeersAnswered ==
    \A p \in Peers : got[p] = "waiting" ~> (got[p] # "waiting" \/ sphase = "abandoned")
=============================================================================
