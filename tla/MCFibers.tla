------------------------------ MODULE MCFibers ------------------------------
(***************************************************************************)
(* What fibers of one reactor synchronise with: the program uses one gate, *)
(* one shared future, one combinator, one loop, one chain of handlers, or  *)
(* the threads themselves.  What it does not use is over and done with:    *)
(* each of these states is one the component ends in.                      *)
(***************************************************************************)
EXTENDS Gate, SharedFuture, Fork, Loops, Handlers, Threads

CONSTANTS p1, p2, p3, t1, t2

MCPeers == {p1, p2, p3}
MCThreads == {t1, t2}

all == <<gvars, svars, fvars, loopvars, hvars, tvars>>

GateDone == count = 0 /\ closed = TRUE /\ sets = 1 /\ req = [r \in Requests |-> "out"]
SharedDone ==
    /\ sphase = "resolved" /\ original = "value" /\ sfuture = "value"
    /\ handles = 0 /\ peers = EmptyFifo /\ got = [p \in Peers |-> "none"]
ForkDone ==
    /\ fkind = "parallel_for_each" /\ n = 0 /\ launched = 0 /\ fphase = "run"
    /\ fut = [i \in 1..MaxForks |-> "pending"] /\ fcont = {}
    /\ latch = 0 /\ ex = 0 /\ chain = [i \in 0..MaxForks |-> IF i = 0 THEN 0 ELSE -1]
    /\ bad = {} /\ reducing = 0 /\ reduced = <<>> /\ ftimer = "none"
    /\ fres = [st |-> "value", of |-> <<>>] /\ answers = 1
LoopsDone ==
    /\ lkind = "do_until" /\ range = 0 /\ calls = 0 /\ frame = "call"
    /\ lpc = "done" /\ act = "none" /\ lres = "value" /\ lanswers = 1
HandlersDone ==
    /\ out = [k \in 0..MaxLinks |-> Outcome(IF k = 0 THEN "abandoned" ELSE "none", 0)]
    /\ links = [k \in 1..MaxLinks |->
                   [kind |-> "then", pc |-> "none", calls |-> 0, raised |-> FALSE]]
    /\ exited = FALSE /\ asserted = FALSE
ThreadsDone ==
    /\ current = Main /\ link = [t \in Threads |-> None]
    /\ th = [t \in Threads |-> "unborn"] /\ joined = {}
    /\ joiner = [t \in Threads |-> None] /\ pending = <<>> /\ tasks = 1
    /\ rpc = "exited" /\ stopped = TRUE /\ draining = TRUE
    /\ early = {} /\ crashed = FALSE

FibersInit ==
    \/ GateInit /\ SharedDone /\ ForkDone
       /\ LoopsDone /\ HandlersDone /\ ThreadsDone
    \/ GateDone /\ SharedInit /\ ForkDone
       /\ LoopsDone /\ HandlersDone /\ ThreadsDone
    \/ GateDone /\ SharedDone /\ ForkInit
       /\ LoopsDone /\ HandlersDone /\ ThreadsDone
    \/ GateDone /\ SharedDone /\ ForkDone
       /\ LoopsInit /\ HandlersDone /\ ThreadsDone
    \/ GateDone /\ SharedDone /\ ForkDone
       /\ LoopsDone /\ HandlersInit /\ ThreadsDone
    \/ GateDone /\ SharedDone /\ ForkDone
       /\ LoopsDone /\ HandlersDone /\ ThreadsInit

FibersNext ==
    \/ GateNext     /\ UNCHANGED <<svars, fvars, loopvars, hvars, tvars>>
    \/ SharedNext   /\ UNCHANGED <<gvars, fvars, loopvars, hvars, tvars>>
    \/ ForkNext     /\ UNCHANGED <<gvars, svars, loopvars, hvars, tvars>>
    \/ LoopsNext    /\ UNCHANGED <<gvars, svars, fvars, hvars, tvars>>
    \/ HandlersNext /\ UNCHANGED <<gvars, svars, fvars, loopvars, tvars>>
    \/ ThreadsNext  /\ UNCHANGED <<gvars, svars, fvars, loopvars, hvars>>

FibersSpec ==
    /\ FibersInit /\ [][FibersNext]_all
    /\ GateFairness /\ SharedFairness /\ ForkFairness
    /\ WF_loopvars(LoopsNext) /\ HandlersFairness /\ WF_tvars(ThreadsNext)

(* Whoever waits is answered in the end: a closed gate becomes quiet, the  *)
(* peers of a shared future and the caller of a combinator are answered,   *)
(* every link of a chain gets its turn, and a thread that yields goes on   *)
(* -- with the exceptions each component states.                           *)
NobodyWaitsForEver ==
    GateQuiets /\ PeersAnswered /\ ForkAnswers /\ LinksGetTheirTurn /\ YieldsReturn
=============================================================================
