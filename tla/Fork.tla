-------------------------------- MODULE Fork --------------------------------
(***************************************************************************)
(* The combinators of src/src/future_util.h that wait for several futures: *)
(* parallel_for_each, when_all and when_all_succeed (the variadic and the  *)
(* iterator form), map_reduce (with a reducer object and with an initial   *)
(* value), and with_timeout.  One call of one of them, over n items.       *)
(*                                                                         *)
(* The caller launches the items one after the other in a single           *)
(* synchronous call; each yields a future that is ready, failed or         *)
(* pending, or throws.  Pending futures are resolved by the program at any *)
(* time.  A continuation runs when its future is ready: in line, while its *)
(* item is the last one launched, or as a task once the call has returned. *)
(***************************************************************************)
EXTENDS Integers, Sequences, SequencesExt, FiniteSets, FiniteSetsExt

CONSTANT MaxForks      \* bound: the items of a call

ASSUME ForkAssumption == MaxForks \in Nat

ForkKinds == {"parallel_for_each", "when_all_tuple", "when_all_succeed_tuple",
              "when_all_range", "when_all_succeed_range",
              "map_reduce_object", "map_reduce_initial", "with_timeout"}
Latched  == {"parallel_for_each", "when_all_tuple", "when_all_succeed_tuple"}
Ranges   == {"when_all_range", "when_all_succeed_range"}
Reducing == {"map_reduce_object", "map_reduce_initial"}
Succeed  == {"when_all_succeed_tuple", "when_all_succeed_range"}

VARIABLES
    fkind,      \* which combinator
    n,          \* how many items
    launched,   \* items launched so far
    fphase,     \* "launch": inside the call; "run": it has returned
    fut,        \* item -> "pending", "value", "failed"
    fcont,      \* items whose continuation is registered and has not run
    latch,      \* parallel_for_each_state::waiting; owners of when_all_state
    ex,         \* the stored exception: its item, 0 for none
    chain,      \* map_reduce: ret after item i: -1 pending, 0 ready, k the
                \* exception of item k
    bad,        \* map_reduce with an initial value: items that raised
    reducing,   \* map_reduce with an object: the item being reduced, or 0
    reduced,    \* items given to the reducer, in order
    ftimer,     \* with_timeout's timer: "none", "armed", "fired"
    fres,       \* the returned future: [st, of]
    answers     \* history: how often its promise was set
fvars == <<fkind, n, launched, fphase, fut, fcont, latch, ex, chain, bad,
           reducing, reduced, ftimer, fres, answers>>

Launched == 1..launched
Ready(i) == fut[i] # "pending"
Failures == {i \in Launched : fut[i] = "failed"}
MayRun(i) == i \in fcont /\ Ready(i) /\ (fphase = "run" \/ i = launched)

Answer(st, of) == fres' = [st |-> st, of |-> of] /\ answers' = answers + 1
NoAnswer == UNCHANGED <<fres, answers>>
Exception(k) == Answer("failed", k)

\* set_promise() / run() of the transform: all futures as they are, or the
\* first exception among them.
Transform(f) ==
    LET failures == {i \in 1..n : f[i] = "failed"}
    IN  IF fkind \in Succeed /\ failures # {} THEN Exception(Min(failures))
        ELSE Answer("value", [i \in 1..n |-> f[i]])

\* parallel_for_each_state::complete(), and the last release of a
\* when_all_state: count down, answer at zero.  exNow is ex after the step.
CountDown(from, exNow, f) ==
    /\ latch' = from - 1 /\ ex' = exNow
    /\ IF from # 1 THEN NoAnswer
       ELSE CASE fkind # "parallel_for_each" -> Transform(f)
              [] exNow # 0 -> Exception(exNow)
              [] OTHER -> Answer("value", <<>>)

(* Mutant: the last result is kept, a success as well.                     *)
LastResult(i, failed) == IF failed THEN i ELSE 0
FirstError(i, failed) == IF failed /\ ex = 0 THEN i ELSE ex

----------------------------------------------------------------------------
(* The call: one item of the range (or of the arguments).                  *)
Outcomes == {"pending", "value", "failed"}

LaunchPlain(i, o) ==
    /\ fut' = [fut EXCEPT ![i] = o]
    /\ fcont' = IF fkind \in Reducing THEN fcont \cup {i} ELSE fcont
    /\ UNCHANGED <<latch, ex, fres, answers>>
\* when_all_state::wait<i>(): only an unavailable future keeps the state.
LaunchTuple(i, o) ==
    /\ fut' = [fut EXCEPT ![i] = o]
    /\ fcont' = IF o = "pending" THEN fcont \cup {i} ELSE fcont
    /\ latch' = IF o = "pending" THEN latch + 1 ELSE latch
    /\ UNCHANGED <<ex, fres, answers>>
LaunchEach(i, o) ==
    /\ fut' = [fut EXCEPT ![i] = o]
    /\ fcont' = fcont \cup {i} /\ latch' = latch + 1
    /\ UNCHANGED <<ex, fres, answers>>
\* func() threw: the catch block stores and completes.
LaunchThrows(i) ==
    /\ fut' = [fut EXCEPT ![i] = "failed"] /\ UNCHANGED fcont
    /\ CountDown(latch + 1, FirstError(i, TRUE), fut')

Launch ==
    /\ fphase = "launch" /\ launched < n
    /\ launched' = launched + 1
    /\ LET i == launched + 1
       IN  CASE fkind = "parallel_for_each" ->
                   LaunchThrows(i) \/ \E o \in Outcomes : LaunchEach(i, o)
             [] fkind \in {"when_all_tuple", "when_all_succeed_tuple"} ->
                   \E o \in Outcomes : LaunchTuple(i, o)
             [] OTHER -> \E o \in Outcomes : LaunchPlain(i, o)
    /\ UNCHANGED <<fkind, n, fphase, chain, bad, reducing, reduced, ftimer>>

\* complete_when_all(): skip what is available from pos on, wait for the
\* first that is not; the whole vector is the answer when none is left.
WaitFrom(pos) ==
    LET unready == {i \in pos..n : ~Ready(i)}
    IN  IF unready = {} THEN fcont' = {} /\ Transform(fut)
        ELSE fcont' = {Min(unready)} /\ NoAnswer

Return ==
    /\ fphase = "launch" /\ launched = n /\ fphase' = "run"
    /\ CASE fkind \in Latched ->
               CountDown(latch, ex, fut) /\ UNCHANGED <<fcont, ftimer>>
         [] fkind \in Ranges ->
               WaitFrom(1) /\ UNCHANGED <<latch, ex, ftimer>>
         [] fkind \in Reducing ->
               NoAnswer /\ UNCHANGED <<fcont, latch, ex, ftimer>>
         [] fkind = "with_timeout" ->
               /\ IF Ready(1)
                  THEN /\ IF fut[1] = "failed" THEN Exception(1)
                                               ELSE Answer("value", <<1>>)
                       /\ UNCHANGED <<fcont, ftimer>>
                  ELSE fcont' = {1} /\ ftimer' = "armed" /\ NoAnswer
               /\ UNCHANGED <<latch, ex>>
    /\ UNCHANGED <<fkind, n, launched, fut, chain, bad, reducing, reduced>>

----------------------------------------------------------------------------
(* What happens to the futures afterwards.                                 *)
Resolve(i) ==
    /\ i \in Launched /\ fut[i] = "pending"
    /\ \E o \in {"value", "failed"} : fut' = [fut EXCEPT ![i] = o]
    /\ UNCHANGED <<fkind, n, launched, fphase, fcont, latch, ex, chain, bad,
                   reducing, reduced, ftimer, fres, answers>>

\* The continuations of parallel_for_each and of when_all_state.
CompleteItem(i) ==
    /\ fkind \in Latched /\ MayRun(i) /\ fcont' = fcont \ {i}
    /\ CountDown(latch, IF fkind = "parallel_for_each"
                        THEN FirstError(i, fut[i] = "failed") ELSE ex, fut)
    /\ UNCHANGED <<fkind, n, launched, fphase, fut, chain, bad, reducing,
                   reduced, ftimer>>
CompleteRange(i) ==
    /\ fkind \in Ranges /\ MayRun(i) /\ WaitFrom(i + 1)
    /\ UNCHANGED <<fkind, n, launched, fphase, fut, latch, ex, chain, bad,
                   reducing, reduced, ftimer>>

\* The mapper's future is ready.  With an initial value the reduction takes
\* place right here, and may raise; with an object it waits for the chain.
Mapped(i) ==
    /\ fkind \in Reducing /\ MayRun(i) /\ fcont' = fcont \ {i}
    /\ IF fkind = "map_reduce_object" THEN UNCHANGED <<bad, reduced>>
       ELSE \/ fut[i] = "value" /\ reduced' = Append(reduced, i) /\ UNCHANGED bad
            \/ bad' = bad \cup {i} /\ UNCHANGED reduced
    /\ UNCHANGED <<fkind, n, launched, fphase, fut, latch, ex, chain, reducing,
                   ftimer, fres, answers>>

(* Mutant: a reduction does not wait for the one before it.                *)
LinkedAlone(i) == i \in Launched \ fcont /\ chain[i] = -1
Linked(i) == /\ i \in Launched \ fcont /\ chain[i] = -1 /\ chain[i - 1] # -1
             /\ reducing = 0
SetChain(i, k) == chain' = [chain EXCEPT ![i] = k]

\* ret of item i follows ret of item i-1.
LinkInitial(i) ==
    /\ fkind = "map_reduce_initial" /\ Linked(i)
    /\ SetChain(i, IF i \in bad THEN i ELSE chain[i - 1])
    /\ UNCHANGED <<reducing, reduced>>
LinkObject(i) ==
    /\ fkind = "map_reduce_object" /\ Linked(i)
    /\ CASE chain[i - 1] > 0 -> SetChain(i, chain[i - 1]) /\ UNCHANGED <<reducing, reduced>>
         [] chain[i - 1] = 0 /\ fut[i] = "failed" ->
               SetChain(i, i) /\ UNCHANGED <<reducing, reduced>>
         [] OTHER -> reducing' = i /\ reduced' = Append(reduced, i) /\ UNCHANGED chain
\* The future the reducer returned becomes ready or fails.
ReducerDone ==
    /\ reducing # 0 /\ reducing' = 0 /\ UNCHANGED reduced
    /\ \E k \in {0, reducing} : SetChain(reducing, k)
Link ==
    /\ \/ \E i \in Launched : LinkInitial(i) \/ LinkObject(i)
       \/ ReducerDone
    /\ UNCHANGED <<fkind, n, launched, fphase, fut, fcont, latch, ex, bad,
                   ftimer, fres, answers>>
\* maybe_call_get() and the last then() of map_reduce.
Reduced ==
    /\ fkind \in Reducing /\ fphase = "run" /\ chain[n] # -1 /\ fres.st = "pending"
    /\ IF chain[n] = 0 THEN Answer("value", reduced) ELSE Exception(chain[n])
    /\ UNCHANGED <<fkind, n, launched, fphase, fut, fcont, latch, ex, chain, bad,
                   reducing, reduced, ftimer>>

\* with_timeout: the engine disarms the timer and runs its callback; the
\* continuation of the future asks cancel() whether that happened.
TimerFires ==
    /\ ftimer = "armed" /\ ftimer' = "fired" /\ Exception(0)
    /\ UNCHANGED <<fkind, n, launched, fphase, fut, fcont, latch, ex, chain, bad,
                   reducing, reduced>>
Answered(i) ==
    /\ fkind = "with_timeout" /\ MayRun(i) /\ fcont' = {}
    /\ IF ftimer = "armed"
       THEN /\ ftimer' = "none"
            /\ IF fut[i] = "failed" THEN Exception(i) ELSE Answer("value", <<i>>)
       ELSE NoAnswer /\ UNCHANGED ftimer
    /\ UNCHANGED <<fkind, n, launched, fphase, fut, latch, ex, chain, bad,
                   reducing, reduced>>

ForkInit ==
    /\ fkind \in ForkKinds /\ n \in 0..MaxForks
    /\ fkind = "with_timeout" => n = 1
    /\ launched = 0 /\ fphase = "launch"
    /\ fut = [i \in 1..MaxForks |-> "pending"] /\ fcont = {}
    /\ latch = 1 /\ ex = 0
    /\ chain = [i \in 0..MaxForks |-> IF i = 0 THEN 0 ELSE -1]
    /\ bad = {} /\ reducing = 0 /\ reduced = <<>>
    /\ ftimer = "none" /\ fres = [st |-> "pending", of |-> 0] /\ answers = 0

ForkTask == \/ \E i \in Launched : \/ CompleteItem(i) \/ CompleteRange(i)
                                   \/ Mapped(i) \/ Answered(i)
            \/ Link \/ Reduced
ForkNext == Launch \/ Return \/ ForkTask \/ TimerFires
            \/ \E i \in Launched : Resolve(i)
\* The call is synchronous, the reactor runs every task it has, and the
\* program resolves the futures it handed out.
ForkFairness ==
    /\ WF_fvars(Launch \/ Return) /\ WF_fvars(ForkTask)
    /\ WF_fvars(\E i \in Launched : Resolve(i))
ForkSpec == ForkInit /\ [][ForkNext]_fvars /\ ForkFairness

----------------------------------------------------------------------------
(* The returned future is answered once, not before every item has run and *)
(* completed (with_timeout's: not before its one or the timer), and with   *)
(* the right answer: parallel_for_each fails exactly when an item did, with*)
(* an exception of one that did; when_all never fails and shows every      *)
(* future ready; when_all_succeed fails with the first exception in the    *)
(* order of the arguments; a timed-out call keeps its answer when the late *)
(* one arrives.                                                            *)
AnsweredOnceAfterAll ==
    /\ answers = (IF fres.st = "pending" THEN 0 ELSE 1)
    /\ fres.st # "pending" /\ ftimer # "fired" =>
        /\ launched = n /\ \A i \in 1..n : Ready(i)
        /\ fkind \notin Reducing \cup {"when_all_tuple", "when_all_range"} =>
              (fres.st = "failed" <=> Failures # {})
        /\ fkind = "parallel_for_each" /\ fres.st = "failed" => fres.of \in Failures
        /\ fkind \in Succeed /\ fres.st = "failed" => fres.of = Min(Failures)
        /\ fkind \in {"when_all_tuple", "when_all_range"} =>
              fres = [st |-> "value", of |-> [i \in 1..n |-> fut[i]]]
    /\ ftimer = "fired" => fres = [st |-> "failed", of |-> 0]

(* A reducer object is called for one item at a time, in the order of the  *)
(* range, and never after a failure.  With an initial value the reduction  *)
(* is neither ordered nor stopped by a failure: every item that maps is    *)
(* reduced once, in the order the mappers complete (the documentation at   *)
(* future_util.h:602 gives the order of the range), and the answer is a    *)
(* value only if all of them took part.                                    *)
ReducesEachOnce ==
    /\ IsInjective(reduced)
    /\ fkind = "map_reduce_object" =>
        /\ reduced = [i \in 1..Len(reduced) |-> i]
        /\ reducing # 0 => reducing = Len(reduced)
        /\ \A i \in 1..Len(reduced) : chain[i - 1] = 0 /\ fut[i] = "value"
    /\ fkind \in Reducing /\ fres.st = "value" => ToSet(reduced) = 1..n
    /\ fkind = "map_reduce_initial" /\ fres.st = "failed" =>
        /\ ToSet(reduced) \cup bad = 1..n /\ fres.of = Max(bad)

(* Both: a call is answered once, with what its items make of it.          *)
ForkAnswersRight == AnsweredOnceAfterAll /\ ReducesEachOnce

(* Every call is answered in the end, if the futures it waits for are.     *)
ForkAnswers == <>(fres.st # "pending")
============================================================================
