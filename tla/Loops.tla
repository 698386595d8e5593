------------------------------- MODULE Loops -------------------------------
(***************************************************************************)
(* The sequential loops of src/src/future_util.h: do_until, repeat,        *)
(* repeat_until_value, keep_doing and do_for_each.  One call of one of     *)
(* them.  The loop runs in the caller's frame while the futures of the     *)
(* action are ready and nothing asks for preemption, and goes on in a      *)
(* continuation or in a scheduled task otherwise; an exception that nobody *)
(* catches therefore leaves the call in the first case and ends in a       *)
(* future in the second.                                                   *)
(***************************************************************************)
EXTENDS Integers

CONSTANT MaxCalls       \* bound: the calls of the action; do_for_each's range

ASSUME LoopsAssumption == MaxCalls \in Nat \ {0}

LoopKinds == {"do_until", "repeat", "repeat_until_value", "keep_doing", "do_for_each"}
Repeats   == {"repeat", "repeat_until_value", "keep_doing"}

VARIABLES
    lkind,      \* which loop
    range,      \* do_for_each: the items of the range
    calls,      \* how often the action was called
    frame,      \* "call": the caller's frame; "task": a continuation or task
    lpc,        \* "turn", "wait" (for the action's future), "again" (a task
                \* is scheduled), "last" (the action's future is returned),
                \* "done"
    act,        \* the action's last future: "none", "pending", "failed",
                \* "more" (go on), "stop" (or an engaged value)
    lres,       \* "pending", "value", "failed", "broken" (its promise was
                \* destroyed), "escaped" (the call threw)
    lanswers    \* history: how often it was answered
loopvars == <<lkind, range, calls, frame, lpc, act, lres, lanswers>>

GoesOn(pc)  == lpc' = pc /\ UNCHANGED <<lres, lanswers>>
Answers(st) == lpc' = "done" /\ lres' = st /\ lanswers' = lanswers + 1
\* An exception no handler of the loop catches.  A continuation's own future
\* takes it; do_until's promise is then destroyed unanswered.
Uncaught ==
    \/ frame = "call" /\ Answers("escaped")
    \/ frame = "task" /\ Answers(IF lkind = "do_until" THEN "broken" ELSE "failed")

\* What the action may say: the bounds end the endless loops.
Sayings == {"failed"} \cup (IF lkind = "keep_doing" THEN {} ELSE {"stop"})
                      \cup (IF calls' < MaxCalls THEN {"more"} ELSE {})
\* do_until and do_for_each do not look at the value.
Plain == {"failed", "more"}
Sayable == IF lkind \in Repeats THEN Sayings ELSE Plain

(* Mutant: a failed action is called again.                                *)
ActionReadyAgain(o) ==
    IF o = "stop" THEN Answers("value") ELSE GoesOn("turn")
\* The action's future is ready with o, in the frame that called it.
ActionReady(o) ==
    \/ o = "failed" /\ Answers("failed")
    \/ o = "stop" /\ Answers("value")
    \/ o = "more" /\ GoesOn("turn")
    \/ o = "more" /\ lkind = "do_until" /\ GoesOn("wait")      \* need_preempt()
    \/ o = "more" /\ lkind \in Repeats /\ GoesOn("again")      \* need_preempt()

CallAction ==
    /\ calls' = calls + 1
    /\ \/ /\ act' = "failed"                            \* it throws
          /\ IF lkind = "do_for_each" THEN Uncaught ELSE Answers("failed")
       \/ /\ act' = "pending"
          /\ GoesOn(IF lkind = "do_for_each" /\ calls' = range THEN "last" ELSE "wait")
       \/ \E o \in Sayable :
             /\ act' = o
             /\ IF lkind = "do_for_each" /\ calls' = range
                THEN Answers(IF o = "failed" THEN "failed" ELSE "value")
                ELSE IF lkind = "do_until" /\ o = "failed"
                THEN Answers("failed") \/ GoesOn("wait")        \* need_preempt()
                ELSE ActionReady(o)
    /\ UNCHANGED <<lkind, range, frame>>

\* stop_cond() is outside the try block of do_until_continued.
StopCondition ==
    /\ Answers("value") \/ Uncaught
    /\ UNCHANGED <<lkind, range, calls, frame, act>>

Turn ==
    /\ lpc = "turn"
    /\ \/ /\ lkind = "do_until" /\ StopCondition
       \/ /\ lkind = "do_for_each" /\ calls = range       \* the empty range
          /\ Answers("value") /\ UNCHANGED <<lkind, range, calls, frame, act>>
       \/ /\ lkind = "do_for_each" => calls < range
          /\ calls < MaxCalls /\ CallAction

\* The program resolves the action's future.
ResolveAction ==
    /\ act = "pending"
    /\ \E o \in (IF lkind \in Repeats
                 THEN {"failed"} \cup (IF lkind = "keep_doing" THEN {} ELSE {"stop"})
                                 \cup (IF calls < MaxCalls THEN {"more"} ELSE {})
                 ELSE Plain) : act' = o
    /\ UNCHANGED <<lkind, range, calls, frame, lpc, lres, lanswers>>

\* The continuation of the action's future, or the scheduled task.
Continue ==
    /\ frame' = "task"
    /\ \/ /\ lpc = "wait" /\ act # "pending"
          /\ CASE act = "failed" -> Answers("failed")
               [] act = "stop"   -> Answers("value")
               [] OTHER          -> GoesOn("turn")
       \/ lpc = "again" /\ GoesOn("turn")
       \/ lpc = "last" /\ act # "pending"
          /\ Answers(IF act = "failed" THEN "failed" ELSE "value")
    /\ UNCHANGED <<lkind, range, calls, act>>

LoopsInit ==
    /\ lkind \in LoopKinds /\ range \in 0..MaxCalls
    /\ lkind # "do_for_each" => range = 0
    /\ calls = 0 /\ frame = "call" /\ lpc = "turn" /\ act = "none"
    /\ lres = "pending" /\ lanswers = 0
LoopsNext == Turn \/ ResolveAction \/ Continue
LoopsSpec == LoopsInit /\ [][LoopsNext]_loopvars /\ WF_loopvars(LoopsNext)

----------------------------------------------------------------------------
(* The action is called again only after its future asked for more, so two *)
(* runs of it never overlap.  The loop is answered once, when none is      *)
(* under way, and by the last one: it fails if that failed or threw, it    *)
(* succeeds if that said stop, the condition held or the range was done.   *)
(* Only do_for_each's action and do_until's condition can throw out of the *)
(* call, and only do_until's condition can leave a broken promise.         *)
LoopAnsweredByTheLast ==
    /\ lanswers = (IF lres = "pending" THEN 0 ELSE 1)
    /\ lres # "pending" => act # "pending" /\ lpc = "done"
    /\ lpc \in {"turn", "again"} => act \in {"none", "more"}
    /\ lres = "value" =>
          CASE lkind = "do_until"    -> act \in {"none", "more"}
            [] lkind = "do_for_each" -> act # "failed" /\ calls = range
            [] OTHER                 -> act = "stop"
    /\ lres = "failed" => act = "failed"
    /\ lres = "escaped" => /\ frame = "call"
                           /\ \/ lkind = "do_until" /\ act # "failed"
                              \/ lkind = "do_for_each" /\ act = "failed"
    /\ lres = "broken" => lkind = "do_until" /\ frame = "task" /\ act # "failed"
============================================================================
