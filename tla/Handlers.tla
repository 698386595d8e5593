------------------------------ MODULE Handlers ------------------------------
(***************************************************************************)
(* What src/src/future.h chains to a future besides its result: then,      *)
(* then_warpped, finally, handle_exception, handle_exception_type,         *)
(* or_terminate and discard_result, one call after the other, each on the  *)
(* future the one before returned.  A link runs in the call that attaches  *)
(* it if that future is ready, and as a task otherwise; its function       *)
(* answers with a value, fails (futurize turns what it throws into a       *)
(* failed future) or returns a future that is still pending, which is      *)
(* forwarded to the link's own.  Future.tla has the pointers underneath;   *)
(* here is who is called and what becomes of an exception.                 *)
(*                                                                         *)
(* The futures carry values, except those of or_terminate and              *)
(* discard_result, which are future<>: a failure given to one of these is  *)
(* stored and never shows (future.h:227), it is "lost".  A link that waits *)
(* for such a future is run all the same and asserts that it finds a value *)
(* or an exception; one that is attached later meets a null promise.       *)
(***************************************************************************)
EXTENDS Integers, FiniteSets, FiniteSetsExt

CONSTANT MaxLinks     \* bound: the links attached to one future

ASSUME HandlersAssumption == MaxLinks \in Nat \ {0}

LinkKinds == {"then", "then_warpped", "finally", "handle_exception",
              "handle_exception_type", "or_terminate", "discard_result"}

VARIABLES
    out,       \* link -> its future [st, by]; 0 is the original future.  st is
               \* "none", "pending", "value", "failed" (by whose function),
               \* "lost" or "abandoned" (its promise was destroyed)
    links,     \* link -> [kind, pc, calls, raised]; pc is "none", "waiting",
               \* "inner" (for the future its function returned), "settling"
               \* (finally: that future is ready), "over" or "dropped"
    exited,    \* or_terminate called engine_exit()
    asserted   \* an assertion (or the null promise) ended the program
hvars == <<out, links, exited, asserted>>

Attached == {k \in 1..MaxLinks : out[k].st # "none"}
Newest   == Cardinality(Attached)
Outcome(st, by) == [st |-> st, by |-> by]
IsReady(k) == out[k].st \in {"value", "failed", "lost"}

\* When the function is called, and when the link only passes on what it got:
\* handle_exception() passes a failure on and asks a value for its exception.
\* handle_exception_type() calls for exceptions of its type only.  Of a lost
\* failure then_warpped()'s function may take no notice.
CallsOn(kind) ==
    CASE kind \in {"then", "discard_result"}                 -> {"value"}
      [] kind = "then_warpped"                               -> {"value", "failed", "lost"}
      [] kind \in {"finally", "or_terminate"}                -> {"value", "failed"}
      [] kind = "handle_exception_type"                      -> {"failed"}
      [] OTHER                                               -> {}
PassesOn(kind) ==
    CASE kind \in {"then", "discard_result", "handle_exception"} -> {"failed"}
      [] kind = "handle_exception_type"                      -> {"value", "failed"}
      [] OTHER                                               -> {}
AssertsOn(kind) == IF kind = "handle_exception" THEN {"value", "lost"} ELSE {"lost"}

\* What futurize makes of a call: whatever the program's function does; the
\* functions of or_terminate and discard_result are the library's own, return
\* void and do not throw.
ValueResults  == {"value", "failed", "pending"}
VoidResults   == {"value"}
Results(kind) == IF kind \in {"or_terminate", "discard_result"} THEN VoidResults
                 ELSE ValueResults
EngineExits(kind, st) == kind = "or_terminate" /\ st = "failed"

(* Mutant: a cleanup that goes well answers for what it cleans up.         *)
AfterFunctionAnyway(k, kind, r) == IF r = "failed" THEN Outcome("failed", k)
                                                   ELSE Outcome("value", 0)
\* Of a function and a future that both failed, rethrow_with_nested() throws
\* the function's exception (inside a nested_exception).
RethrowWithNested(k) == Outcome("failed", k)
\* finally() answers what it got unless its function failed.
AfterFunction(k, kind, r) ==
    CASE kind = "finally" /\ r = "failed" -> RethrowWithNested(k)
      [] kind = "finally"                 -> out[k - 1]
      [] r = "failed"                     -> Outcome("failed", k)
      [] OTHER                            -> Outcome("value", 0)

\* The link k of L, whose future is ready, runs.
LinkRuns(L, k) ==
    LET prior == out[k - 1]
        kind  == L[k].kind
    IN  \/ /\ prior.st \in PassesOn(kind)
           /\ links' = [L EXCEPT ![k].pc = "over"]
           /\ out' = [out EXCEPT ![k] = IF kind = "discard_result"
                                        THEN Outcome("lost", prior.by) ELSE prior]
           /\ UNCHANGED <<exited, asserted>>
        \/ /\ prior.st \in CallsOn(kind)
           /\ \E r \in Results(kind) :
                 IF r = "pending"
                 THEN /\ links' = [L EXCEPT ![k].pc = "inner", ![k].calls = @ + 1]
                      /\ out' = [out EXCEPT ![k] = Outcome("pending", 0)]
                 ELSE /\ links' = [L EXCEPT ![k].pc = "over", ![k].calls = @ + 1,
                                            ![k].raised = (r = "failed")]
                      /\ out' = [out EXCEPT ![k] = AfterFunction(k, kind, r)]
           /\ exited' = (exited \/ EngineExits(kind, prior.st))
           /\ UNCHANGED asserted
        \/ /\ prior.st \in AssertsOn(kind) /\ asserted' = TRUE
           /\ links' = L /\ UNCHANGED <<out, exited>>

----------------------------------------------------------------------------
Attach(kind) ==
    LET k == Newest + 1
        L == [links EXCEPT ![k] = [kind |-> kind, pc |-> "waiting", calls |-> 0,
                                   raised |-> FALSE]]
    IN  /\ ~asserted /\ k <= MaxLinks
        /\ \/ out[Newest].st \in {"value", "failed"} /\ LinkRuns(L, k)
           \/ /\ out[Newest].st = "lost" /\ asserted' = TRUE
              /\ UNCHANGED <<out, links, exited>>
           \/ /\ out[Newest].st = "pending" /\ links' = L
              /\ out' = [out EXCEPT ![k] = Outcome("pending", 0)]
              /\ UNCHANGED <<exited, asserted>>
\* The task of a link whose future has become ready.
RunLink(k) ==
    /\ ~asserted /\ links[k].pc = "waiting" /\ IsReady(k - 1) /\ LinkRuns(links, k)

\* The program answers the original promise, or that of a function's future;
\* finally() looks at the latter in a task of its own.
AnswerOriginal ==
    /\ ~asserted /\ out[0].st = "pending"
    /\ \E st \in {"value", "failed"} : out' = [out EXCEPT ![0] = Outcome(st, 0)]
    /\ UNCHANGED <<links, exited, asserted>>
AnswerInner(k) ==
    /\ ~asserted /\ links[k].pc = "inner"
    /\ \E r \in {"value", "failed"} :
          IF links[k].kind = "finally"
          THEN /\ links' = [links EXCEPT ![k].pc = "settling", ![k].raised = (r = "failed")]
               /\ UNCHANGED out
          ELSE /\ links' = [links EXCEPT ![k].pc = "over", ![k].raised = (r = "failed")]
               /\ out' = [out EXCEPT ![k] = AfterFunction(k, links[k].kind, r)]
    /\ UNCHANGED <<exited, asserted>>
SettleFinally(k) ==
    /\ ~asserted /\ links[k].pc = "settling" /\ links' = [links EXCEPT ![k].pc = "over"]
    /\ out' = [out EXCEPT ![k] =
                  AfterFunction(k, "finally", IF links[k].raised THEN "failed" ELSE "value")]
    /\ UNCHANGED <<exited, asserted>>
\* One of these promises is destroyed instead: the task it owns goes, with
\* the promise the task captured, and so on to the end of the chain.
DestroyPromise(k) ==
    /\ ~asserted
    /\ IF k = 0 THEN out[0].st = "pending" ELSE links[k].pc = "inner"
    /\ out' = [j \in 0..MaxLinks |->
                  IF j >= k /\ j <= Newest THEN Outcome("abandoned", 0) ELSE out[j]]
    /\ links' = [j \in 1..MaxLinks |->
                  IF j >= k /\ j <= Newest THEN [links[j] EXCEPT !.pc = "dropped"]
                                           ELSE links[j]]
    /\ UNCHANGED <<exited, asserted>>

HandlersInit ==
    /\ \E st \in {"pending", "value", "failed"} :
          out = [k \in 0..MaxLinks |-> Outcome(IF k = 0 THEN st ELSE "none", 0)]
    /\ links = [k \in 1..MaxLinks |->
                   [kind |-> "then", pc |-> "none", calls |-> 0, raised |-> FALSE]]
    /\ exited = FALSE /\ asserted = FALSE
LinkTask == \E k \in 1..MaxLinks : RunLink(k) \/ SettleFinally(k)
Fate == \/ AnswerOriginal \/ DestroyPromise(0)
        \/ \E k \in 1..MaxLinks : AnswerInner(k) \/ DestroyPromise(k)
HandlersNext == LinkTask \/ Fate \/ \E kind \in LinkKinds : Attach(kind)
\* The reactor runs its tasks, and no promise is forgotten.
HandlersFairness == WF_hvars(LinkTask) /\ WF_hvars(Fate)
HandlersSpec == HandlersInit /\ [][HandlersNext]_hvars /\ HandlersFairness

----------------------------------------------------------------------------
\* Whose function failed: the original promise is link 0.
Failed(n) == {j \in 0..n : IF j = 0 THEN out[0].st = "failed" ELSE links[j].raised}
\* The links whose function was shown a failure and made it good.
Handled(j) == /\ links[j].kind \in {"then_warpped", "handle_exception_type", "or_terminate"}
              /\ links[j].calls = 1 /\ ~links[j].raised

(* A chain is a sequence: functions are called at most once, one after the *)
(* other, each when everything before it is answered and no promise before *)
(* it was destroyed.  A failure goes through every link up to one that is  *)
(* shown it, the latest failure winning; nothing else ends it, and no link *)
(* fails without a failure behind it.  A cleanup is called before anybody  *)
(* learns the answer.  handle_exception() never calls its function; it and *)
(* a lost failure are the only ways into an assertion (future.h:750 does   *)
(* the opposite of what 744 says).                                         *)
FailuresReachTheirHandler ==
    /\ \A n \in 0..Newest :
          out[n].st \in {"value", "failed", "lost"} =>
              LET last == Max(Failed(n))
              IN  IF Failed(n) # {} /\ \A j \in last + 1..n : ~Handled(j)
                  THEN out[n].st # "value" /\ out[n].by = last
                  ELSE out[n].st = "value"
    /\ \A k \in Attached :
          /\ links[k].calls <= 1
          /\ links[k].calls = 1 => IsReady(k - 1)
          /\ links[k].kind = "finally" /\ out[k].st \in {"value", "failed"} =>
                links[k].calls = 1
          /\ links[k].kind = "handle_exception" => links[k].calls = 0
    /\ asserted => \E k \in (Attached \cup {Newest + 1}) \cap 1..MaxLinks :
                      out[k - 1].st = "lost" \/ links[k].kind = "handle_exception"

(* Every link gets its turn, unless a promise before it is destroyed.      *)
LinksGetTheirTurn ==
    \A k \in 1..MaxLinks :
        links[k].pc = "waiting" ~> (links[k].pc # "waiting" \/ asserted)
=============================================================================
