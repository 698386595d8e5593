---------------------------- MODULE MCStructures ----------------------------
(***************************************************************************)
(* The data structures nothing but their caller touches, and the registry  *)
(* of the loggers: the program uses one of them, and the others stay as    *)
(* they were made.                                                         *)
(***************************************************************************)
EXTENDS Rueue, Lueue, Buffer, TimeLiner, Registry

CONSTANTS v1, v2, v3, x, y, main

\* The program's variables (queues, cleaners, buffers), and what they are
\* filled with (items, actions, timers).
MCVariables == {v1, v2}
MCContents == {x, y}
MCLoggers == MCVariables \cup {v3}
MCNames == {main}
MCLevels == {"info", "trace"}
Symmetry == Permutations(MCVariables) \union Permutations(MCContents)

VARIABLE used     \* the structure in use
all == <<rq, lvars, bvars, linevars, regvars, used>>

StructuresInit ==
    /\ used \in {"rueue", "lueue", "buffer", "time_liner", "registry"}
    /\ RueueInit /\ LueueInit /\ BufferInit /\ TimeLinerInit /\ RegistryInit

StructuresNext ==
    /\ UNCHANGED used
    /\ \/ used = "rueue" /\ RueueNext /\ UNCHANGED <<lvars, bvars, linevars, regvars>>
       \/ used = "lueue" /\ LueueNext /\ UNCHANGED <<rq, bvars, linevars, regvars>>
       \/ used = "buffer" /\ BufferNext /\ UNCHANGED <<rq, lvars, linevars, regvars>>
       \/ used = "time_liner" /\ TimeLinerNext /\ UNCHANGED <<rq, lvars, bvars, regvars>>
       \/ used = "registry" /\ RegistryNext /\ UNCHANGED <<rq, lvars, bvars, linevars>>

StructuresSpec == StructuresInit /\ [][StructuresNext]_all
=============================================================================
