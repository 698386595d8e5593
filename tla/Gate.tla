-------------------------------- MODULE Gate --------------------------------
(***************************************************************************)
(* gate (src/src/gate.h): a counter of requests in progress and, once      *)
(* close() was called, the promise of its future.  A request enters either *)
(* by itself, and calls leave() when it is done, or through with_gate(),   *)
(* which leaves from the finally() of the future its function returns: in  *)
(* line if that future is ready, from a task otherwise, and never if the   *)
(* function throws instead of returning a future.                          *)
(*                                                                         *)
(* enter() and check() of a closed gate throw and change nothing: a        *)
(* request that is refused stays out, one that checks may end early.       *)
(***************************************************************************)
EXTENDS Integers, FiniteSets

CONSTANT Requests

ASSUME RequestsAssumption == IsFiniteSet(Requests)

VARIABLES
    count,      \* _count
    closed,     \* _stopped is engaged
    sets,       \* how often _stopped->set_value() was called
    req         \* request -> "out", "inside", "finishing" (with_gate's
                \* future is ready, the task of its finally() is queued) or
                \* "leaked" (with_gate's function threw)
gvars == <<count, closed, sets, req>>

\* _count as seen from the requests.
InProgress == {r \in Requests : req[r] # "out"}

GateInit ==
    /\ count = 0 /\ closed = FALSE /\ sets = 0
    /\ req = [r \in Requests |-> "out"]

\* enter(), by itself or as the first thing with_gate() does.
Enter(r) ==
    /\ req[r] = "out" /\ ~closed
    /\ count' = count + 1
    /\ req' = [req EXCEPT ![r] = "inside"]
    /\ UNCHANGED <<closed, sets>>
\* with_gate() whose function throws: it has entered and nobody leaves.
FunctionThrows(r) ==
    /\ req[r] = "out" /\ ~closed
    /\ count' = count + 1
    /\ req' = [req EXCEPT ![r] = "leaked"]
    /\ UNCHANGED <<closed, sets>>

(* Mutant: leave() of a closed gate answers whoever is still inside.       *)
LeaveAnswering(r) ==
    /\ count' = count - 1
    /\ sets' = IF closed THEN sets + 1 ELSE sets
    /\ req' = [req EXCEPT ![r] = "out"] /\ UNCHANGED closed
\* leave()
Leaves(r) ==
    /\ count' = count - 1
    /\ sets' = IF count' = 0 /\ closed THEN sets + 1 ELSE sets
    /\ req' = [req EXCEPT ![r] = "out"]
    /\ UNCHANGED closed
\* The request calls leave(), or with_gate()'s future is ready at once.
Leave(r) == req[r] = "inside" /\ Leaves(r)
\* The function's future becomes ready or fails (check() made it fail).
Finish(r) ==
    /\ req[r] = "inside"
    /\ req' = [req EXCEPT ![r] = "finishing"]
    /\ UNCHANGED <<count, closed, sets>>
LeaveFromFinally(r) == req[r] = "finishing" /\ Leaves(r)

\* close() asserts that it is called once.
Close ==
    /\ ~closed /\ closed' = TRUE
    /\ sets' = IF count = 0 THEN sets + 1 ELSE sets
    /\ UNCHANGED <<count, req>>

GateNext ==
    \/ Close
    \/ \E r \in Requests : \/ Enter(r) \/ FunctionThrows(r) \/ Leave(r)
                           \/ Finish(r) \/ LeaveFromFinally(r)
\* A request ends, and the reactor runs the tasks it has.
GateFairness ==
    \A r \in Requests : WF_gvars(Leave(r) \/ Finish(r)) /\ WF_gvars(LeaveFromFinally(r))
GateSpec == GateInit /\ [][GateNext]_gvars /\ GateFairness

----------------------------------------------------------------------------
(* The future of close() is answered once, by close() itself or by the     *)
(* last request to leave, and only when no request will touch the gate     *)
(* again: the owner may destroy the gate when it is ready.  The count is   *)
(* the number of requests that entered, those of with_gate() that will     *)
(* never leave among them (gate.h:119-120).                                *)
ClosedByTheLast ==
    /\ sets = (IF closed /\ InProgress = {} THEN 1 ELSE 0)
    /\ count = Cardinality(InProgress)

(* A closed gate becomes quiet, unless a function given to with_gate()     *)
(* threw.                                                                  *)
GateQuiets == closed ~> (sets = 1 \/ \E r \in Requests : req[r] = "leaked")
=============================================================================
