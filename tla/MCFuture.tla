------------------------------ MODULE MCFuture ------------------------------
(***************************************************************************)
(* Two promise variables, two future variables and two continuations:      *)
(* chains of two then()s, a thread waiting behind a then(), moves of       *)
(* either side at any time.  A variable that is free can be used again, so *)
(* the executions are unbounded; a channel can be reused when nothing      *)
(* refers to it any more.                                                  *)
(***************************************************************************)
EXTENDS Future, TLC

CONSTANTS p1, p2, f1, f2, f3, k1, k2, c1, c2, c3, c4

MCPromises == {p1, p2}
MCFutures == {f1, f2, f3}
MCConts == {k1, k2}
MCChannels == {c1, c2, c3, c4}
Symmetry == Permutations(MCPromises) \union Permutations(MCFutures)
              \union Permutations(MCConts) \union Permutations(MCChannels)
=============================================================================
