----------------------------- MODULE MCObjPool ------------------------------
(***************************************************************************)
(* Threads on a ring of four slots, capacity three.  The counters start    *)
(* two short of Wrap, so that they wrap round in every longer execution,   *)
(* and two objects are idle, so that two puts fill the ring and destroy an *)
(* object, and three gets empty it and make one.                           *)
(***************************************************************************)
EXTENDS ObjPool

CONSTANTS t1, t2, t3, o1, o2, o3, o4, o5

MCThreads == {t1, t2, t3}
MCTwo == {t1, t2}
MCOne == {t1}
MCPooled == <<o1, o2>>
MCPooledOne == <<o1>>
MCOwned == [t \in MCThreads |->
              CASE t = t1 -> {} [] t = t2 -> {o3} [] t = t3 -> {o4}]
MCOwnedByNobody == [t \in MCTwo |-> {}]
MCObjects == {o1, o2, o3, o4, o5}
=============================================================================
