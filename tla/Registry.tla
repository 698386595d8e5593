------------------------------ MODULE Registry ------------------------------
(***************************************************************************)
(* logger and log_registry (src/src/logger.h, logger.cpp): the process's   *)
(* loggers by name.  Threads construct and destroy loggers at any time;    *)
(* the registry is under a mutex, but the constructor without a name reads *)
(* _idx and increments it in two steps, and several loggers may be given   *)
(* one name: the registry then knows the last that came, and forgets it    *)
(* with the first that goes.                                               *)
(***************************************************************************)
EXTENDS Integers

CONSTANTS
    Loggers,
    GivenNames,     \* names the program gives
    Levels,         \* log_level; a logger begins with DefaultLevel
    DefaultLevel,
    NoLogger,       \* a name the registry does not have
    MaxIdx          \* bound: the loggers made without a name

ASSUME RegistryAssumption ==
    /\ NoLogger \notin Loggers /\ MaxIdx \in Nat /\ DefaultLevel \in Levels
    /\ GivenNames \cap (0..MaxIdx) = {}

VARIABLES
    idx,         \* logger::_idx
    entry,       \* log_registry::_loggers: name -> logger
    log,         \* logger -> [st, name, level]; st is "none", "loaded"
                 \* (_idx was read), "named" or "live" (registered)
    overlapped   \* history: logger -> those whose name was made while it
                 \* was making its own
regvars == <<idx, entry, log, overlapped>>

\* "default" + to_string(_idx) is the number.
LogNames == GivenNames \cup (0..MaxIdx)
Unmade   == [st |-> "none", name |-> 0, level |-> DefaultLevel]
LSetLog(l, st, name) ==
    log' = [log EXCEPT ![l] = [st |-> st, name |-> name, level |-> DefaultLevel]]

LoadIdx(l) ==
    /\ log[l].st = "none" /\ idx < MaxIdx
    /\ LSetLog(l, "loaded", idx)
    /\ overlapped' = [k \in Loggers |->
            IF k = l THEN {j \in Loggers : log[j].st = "loaded"}
            ELSE IF log[k].st = "loaded" THEN overlapped[k] \cup {l}
            ELSE overlapped[k] \ {l}]
    /\ UNCHANGED <<idx, entry>>
(* Mutant: the number that was read is incremented and stored.             *)
StoreIdx(l) ==
    /\ log[l].st = "loaded" /\ LSetLog(l, "named", log[l].name)
    /\ idx' = log[l].name + 1 /\ UNCHANGED <<entry, overlapped>>
CountIdx(l) ==
    /\ log[l].st = "loaded" /\ LSetLog(l, "named", log[l].name)
    /\ idx' = idx + 1 /\ UNCHANGED <<entry, overlapped>>
TakeName(l, name) ==
    /\ log[l].st = "none" /\ LSetLog(l, "named", name)
    /\ UNCHANGED <<idx, entry, overlapped>>
Registers(l) ==
    /\ log[l].st = "named" /\ log' = [log EXCEPT ![l].st = "live"]
    /\ entry' = [entry EXCEPT ![log[l].name] = l]
    /\ UNCHANGED <<idx, overlapped>>
(* Mutant: the entry stays if the logger that goes is not the last.        *)
UnregisterLast(l) ==
    /\ log[l].st = "live" /\ log' = [log EXCEPT ![l] = Unmade]
    /\ entry' = IF \E k \in Loggers \ {l} : log[k] = [log[l] EXCEPT !.level = log[k].level]
                THEN entry ELSE [entry EXCEPT ![log[l].name] = NoLogger]
    /\ UNCHANGED <<idx, overlapped>>
\* ~logger()
Unregister(l) ==
    /\ log[l].st = "live" /\ log' = [log EXCEPT ![l] = Unmade]
    /\ entry' = [entry EXCEPT ![log[l].name] = NoLogger]
    /\ UNCHANGED <<idx, overlapped>>

Listed == {entry[name] : name \in LogNames} \ {NoLogger}
SetLevel(S, lev) ==
    /\ log' = [l \in Loggers |-> IF l \in S THEN [log[l] EXCEPT !.level = lev] ELSE log[l]]
    /\ UNCHANGED <<idx, entry, overlapped>>

RegistryInit ==
    /\ idx = 0 /\ entry = [name \in LogNames |-> NoLogger]
    /\ log = [l \in Loggers |-> Unmade] /\ overlapped = [l \in Loggers |-> {}]
RegistryNext ==
    \/ \E l \in Loggers : \/ LoadIdx(l) \/ CountIdx(l) \/ Registers(l) \/ Unregister(l)
                          \/ \E name \in GivenNames : TakeName(l, name)
    \/ \E lev \in Levels :
          \/ SetLevel(Listed, lev)                                \* set_levels()
          \/ \E l \in Listed : SetLevel({l}, lev)                 \* by name
          \/ \E l \in Loggers : log[l].st = "live" /\ SetLevel({l}, lev)
RegistrySpec == RegistryInit /\ [][RegistryNext]_regvars

----------------------------------------------------------------------------
(* Every entry is a logger that lives and has the entry's name, so that    *)
(* set_levels() never writes to one that is gone, whatever names collide   *)
(* and in whatever order their loggers go; a logger that shares its name   *)
(* with nobody made without a name is known to differ: two such loggers    *)
(* have one name only if their constructors overlapped.                    *)
RegistryHoldsTheLiving ==
    /\ \A name \in LogNames :
          entry[name] # NoLogger =>
              log[entry[name]].st = "live" /\ log[entry[name]].name = name
    /\ \A l, k \in {j \in Loggers : log[j].st \in {"named", "live"} /\ log[j].name \in 0..MaxIdx} :
          l # k /\ log[l].name = log[k].name => k \in overlapped[l] /\ l \in overlapped[k]
============================================================================
