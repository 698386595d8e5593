------------------------- MODULE StructuresProofs --------------------------
(***************************************************************************)
(* The structures of the reactor, for all their parameters.                *)
(*                                                                         *)
(* The registry of loggers, for any loggers, names and levels, and any     *)
(* interleaving of constructors, destructors and changes of levels: the    *)
(* registry never leads to a logger that is gone, and two loggers have one *)
(* number only if their constructors overlapped.                           *)
(*                                                                         *)
(* The lists of timers, for any timers, any width of a timestamp and any   *)
(* times.  The lemmas on timestamps say what the highest differing bit     *)
(* decides: a timestamp further left in the lists is later and keeps its   *)
(* list when _last moves, one further right is earlier, and of two in one  *)
(* list the later one moves right when _last becomes the earlier.          *)
(*                                                                         *)
(* The linked queue, for any items, any block size and any width of the    *)
(* counters: the live blocks in a row hold the items that were pushed and  *)
(* not popped, in their order.  What the row of blocks must be is a        *)
(* predicate on the flat sequence of items, so that an operation on the    *)
(* first or the last block is one on the front or the back of the items.   *)
(*                                                                         *)
(* The ring queue, for any items, any capacities that divide the width of  *)
(* the counters, and anywhere the counters stand: by its offset from beg,  *)
(* taken around the ring, a cell holds an item of the queue or is raw.     *)
(***************************************************************************)
EXTENDS Registry, TimeLiner, Lueue, Rueue, FiniteSetTheorems, SequenceTheorems,
        TLAPS

RegistryTypeOK ==
    /\ idx \in Nat
    /\ entry \in [LogNames -> Loggers \cup {NoLogger}]
    /\ log \in [Loggers -> [st : {"none", "loaded", "named", "live"},
                            name : LogNames, level : Levels]]
    /\ overlapped \in [Loggers -> SUBSET Loggers]

EntriesLive ==
    \A name \in LogNames :
        entry[name] # NoLogger =>
            log[entry[name]].st = "live" /\ log[entry[name]].name = name

\* A number is taken from _idx, and is below it once _idx was incremented.
NumbersBelow ==
    \A l \in Loggers :
        /\ log[l].st = "loaded" => log[l].name \in 0..MaxIdx /\ log[l].name <= idx
        /\ log[l].st \in {"named", "live"} /\ log[l].name \in 0..MaxIdx => log[l].name < idx

Numbered == {l \in Loggers : log[l].st # "none" /\ log[l].name \in 0..MaxIdx}

\* Two that have one number, or will, made their names at the same time.
CollisionsOverlapped ==
    \A l, k \in Numbered :
        l # k /\ log[l].name = log[k].name => k \in overlapped[l] /\ l \in overlapped[k]

RegistryInv == RegistryTypeOK /\ EntriesLive /\ NumbersBelow /\ CollisionsOverlapped

(* At first no logger is made and no name is registered.                   *)
LEMMA RegistryStarts == ASSUME RegistryInit PROVE RegistryInv
  BY RegistryAssumption DEF RegistryInit, RegistryInv, RegistryTypeOK, EntriesLive,
     NumbersBelow, CollisionsOverlapped, Numbered, Unmade, LogNames

(* A constructor reads _idx: it will have a number that another one has    *)
(* only if that one is between reading and counting too.                   *)
LEMMA LoadIdxKeeps ==
    ASSUME RegistryInv, NEW l \in Loggers, LoadIdx(l) PROVE RegistryInv'
<1>1. /\ log[l].st = "none" /\ idx \in Nat /\ idx < MaxIdx /\ idx \in 0..MaxIdx
      /\ log' = [log EXCEPT ![l] = [st |-> "loaded", name |-> idx, level |-> DefaultLevel]]
      /\ UNCHANGED <<idx, entry>>
  BY RegistryAssumption DEF LoadIdx, LSetLog, RegistryInv, RegistryTypeOK
<1>2. /\ overlapped' \in [Loggers -> SUBSET Loggers]
      /\ overlapped'[l] = {j \in Loggers : log[j].st = "loaded"}
      /\ \A k \in Loggers \ {l} :
            IF log[k].st = "loaded" THEN overlapped'[k] = overlapped[k] \cup {l}
            ELSE overlapped'[k] = overlapped[k] \ {l}
  BY DEF LoadIdx, RegistryInv, RegistryTypeOK
<1>3. /\ log'[l].st = "loaded" /\ log'[l].name = idx
      /\ \A k \in Loggers \ {l} : log'[k] = log[k]
  BY <1>1 DEF RegistryInv, RegistryTypeOK
<1>4. RegistryTypeOK'
  BY <1>1, <1>2, RegistryAssumption DEF RegistryInv, RegistryTypeOK, LogNames
<1>5. EntriesLive'
  <2> SUFFICES ASSUME NEW name \in LogNames, entry[name] # NoLogger
               PROVE  log'[entry[name]].st = "live" /\ log'[entry[name]].name = name
    BY <1>1 DEF EntriesLive
  <2>1. /\ entry[name] \in Loggers /\ log[entry[name]].st = "live"
        /\ log[entry[name]].name = name
    BY DEF RegistryInv, RegistryTypeOK, EntriesLive
  <2>2. entry[name] # l
    BY <1>1, <2>1
  <2> QED
    BY <1>3, <2>1, <2>2
<1>6. NumbersBelow'
  BY <1>1, <1>3 DEF RegistryInv, NumbersBelow
<1>7. ASSUME NEW j \in Loggers, NEW k \in Loggers, j \in Numbered', k \in Numbered',
             j # k, log'[j].name = log'[k].name
      PROVE  k \in overlapped'[j]
  <2>1. CASE j = l
    <3>1. log[k] = log'[k] /\ log[k].name = idx
      BY <1>3, <1>7, <2>1
    <3>2. log[k].st = "loaded"
      BY <1>1, <1>3, <1>4, <1>7, <2>1, <3>1 DEF RegistryInv, NumbersBelow, Numbered, RegistryTypeOK
    <3> QED
      BY <1>2, <2>1, <3>2
  <2>2. CASE k = l
    <3>1. log[j] = log'[j] /\ log[j].name = idx
      BY <1>3, <1>7, <2>2
    <3>2. log[j].st = "loaded"
      BY <1>1, <1>3, <1>4, <1>7, <2>2, <3>1 DEF RegistryInv, NumbersBelow, Numbered, RegistryTypeOK
    <3> QED
      BY <1>2, <1>7, <2>2, <3>2
  <2>3. CASE j # l /\ k # l
    <3>1. k \in overlapped[j]
      BY <1>3, <1>7, <2>3 DEF RegistryInv, CollisionsOverlapped, Numbered
    <3> QED
      BY <1>2, <2>3, <3>1
  <2> QED
    BY <2>1, <2>2, <2>3
<1>8. CollisionsOverlapped'
  BY <1>7 DEF CollisionsOverlapped, Numbered
<1> QED
  BY <1>4, <1>5, <1>6, <1>8 DEF RegistryInv

(* A constructor increments _idx, which only grows.                        *)
LEMMA CountIdxKeeps ==
    ASSUME RegistryInv, NEW l \in Loggers, CountIdx(l) PROVE RegistryInv'
<1>1. /\ log[l].st = "loaded" /\ idx \in Nat /\ idx' = idx + 1
      /\ log' = [log EXCEPT ![l] = [st |-> "named", name |-> log[l].name, level |-> DefaultLevel]]
      /\ UNCHANGED <<entry, overlapped>>
  BY DEF CountIdx, LSetLog, RegistryInv, RegistryTypeOK
<1>2. /\ log'[l].st = "named" /\ log'[l].name = log[l].name
      /\ \A k \in Loggers \ {l} : log'[k] = log[k]
  BY <1>1 DEF RegistryInv, RegistryTypeOK
<1>3. RegistryTypeOK'
  BY <1>1, RegistryAssumption DEF RegistryInv, RegistryTypeOK
<1>4. EntriesLive'
  <2> SUFFICES ASSUME NEW name \in LogNames, entry[name] # NoLogger
               PROVE  log'[entry[name]].st = "live" /\ log'[entry[name]].name = name
    BY <1>1 DEF EntriesLive
  <2>1. /\ entry[name] \in Loggers /\ log[entry[name]].st = "live"
        /\ log[entry[name]].name = name
    BY DEF RegistryInv, RegistryTypeOK, EntriesLive
  <2> QED
    BY <1>1, <1>2, <2>1
<1>5. NumbersBelow'
  <2> SUFFICES ASSUME NEW k \in Loggers
               PROVE  /\ log'[k].st = "loaded" => log'[k].name \in 0..MaxIdx /\ log'[k].name <= idx'
                      /\ log'[k].st \in {"named", "live"} /\ log'[k].name \in 0..MaxIdx
                            => log'[k].name < idx'
    BY DEF NumbersBelow
  <2>1. CASE k = l
    BY <1>1, <1>2, <2>1, RegistryAssumption DEF RegistryInv, NumbersBelow
  <2>2. CASE k # l
    BY <1>1, <1>2, <2>2, RegistryAssumption DEF RegistryInv, NumbersBelow
  <2> QED
    BY <2>1, <2>2
<1>6. Numbered' = Numbered /\ \A k \in Loggers : log'[k].name = log[k].name
  BY <1>1, <1>2 DEF Numbered
<1>7. CollisionsOverlapped'
  BY <1>1, <1>6 DEF RegistryInv, CollisionsOverlapped, Numbered
<1> QED
  BY <1>3, <1>4, <1>5, <1>7 DEF RegistryInv

(* A name that the program gives, the registration and the destruction of  *)
(* a logger and a change of levels make no new number.                     *)
LEMMA NoNewNumber ==
    ASSUME RegistryInv, UNCHANGED <<idx, overlapped>>, RegistryTypeOK',
           \A k \in Loggers :
               \/ log'[k].st = log[k].st /\ log'[k].name = log[k].name
               \/ log'[k].st = "none"
               \/ log'[k].st # "loaded" /\ log'[k].name \notin 0..MaxIdx
               \/ log[k].st = "named" /\ log'[k].st = "live" /\ log'[k].name = log[k].name
    PROVE  NumbersBelow' /\ CollisionsOverlapped'
<1>1. NumbersBelow'
  BY DEF NumbersBelow, RegistryInv
<1>2. \A k \in Numbered' : k \in Numbered /\ log'[k].name = log[k].name
  BY DEF Numbered
<1>3. CollisionsOverlapped'
  BY <1>2 DEF CollisionsOverlapped, RegistryInv
<1> QED
  BY <1>1, <1>3

(* A logger is given a name by the program.                                *)
LEMMA TakeNameKeeps ==
    ASSUME RegistryInv, NEW l \in Loggers, NEW name \in GivenNames, TakeName(l, name)
    PROVE  RegistryInv'
<1>1. /\ log[l].st = "none" /\ UNCHANGED <<idx, entry, overlapped>>
      /\ log' = [log EXCEPT ![l] = [st |-> "named", name |-> name, level |-> DefaultLevel]]
  BY DEF TakeName, LSetLog
<1>2. /\ log'[l].st = "named" /\ log'[l].name = name /\ name \notin 0..MaxIdx
      /\ \A k \in Loggers \ {l} : log'[k] = log[k]
  BY <1>1, RegistryAssumption DEF RegistryInv, RegistryTypeOK
<1>3. RegistryTypeOK'
  BY <1>1, RegistryAssumption DEF RegistryInv, RegistryTypeOK, LogNames
<1>4. NumbersBelow' /\ CollisionsOverlapped'
  BY <1>1, <1>2, <1>3, NoNewNumber
<1>5. EntriesLive'
  <2> SUFFICES ASSUME NEW m \in LogNames, entry[m] # NoLogger
               PROVE  log'[entry[m]].st = "live" /\ log'[entry[m]].name = m
    BY <1>1 DEF EntriesLive
  <2>1. entry[m] \in Loggers /\ log[entry[m]].st = "live" /\ log[entry[m]].name = m
    BY DEF RegistryInv, RegistryTypeOK, EntriesLive
  <2>2. entry[m] # l
    BY <1>1, <2>1
  <2> QED
    BY <1>2, <2>1, <2>2
<1> QED
  BY <1>3, <1>4, <1>5 DEF RegistryInv

(* A named logger is entered unless the name is taken.                     *)
LEMMA RegistersKeeps ==
    ASSUME RegistryInv, NEW l \in Loggers, Registers(l) PROVE RegistryInv'
<1>1. /\ log[l].st = "named" /\ UNCHANGED <<idx, overlapped>>
      /\ log' = [log EXCEPT ![l].st = "live"]
      /\ entry' = [entry EXCEPT ![log[l].name] = l] /\ log[l].name \in LogNames
  BY DEF Registers, RegistryInv, RegistryTypeOK
<1>2. /\ log'[l].st = "live" /\ log'[l].name = log[l].name
      /\ \A k \in Loggers \ {l} : log'[k] = log[k]
  BY <1>1 DEF RegistryInv, RegistryTypeOK
<1>3. RegistryTypeOK'
  BY <1>1 DEF RegistryInv, RegistryTypeOK
<1>4. NumbersBelow' /\ CollisionsOverlapped'
  BY <1>1, <1>2, <1>3, NoNewNumber
<1>5. EntriesLive'
  <2> SUFFICES ASSUME NEW m \in LogNames, entry'[m] # NoLogger
               PROVE  log'[entry'[m]].st = "live" /\ log'[entry'[m]].name = m
    BY DEF EntriesLive
  <2>1. CASE m = log[l].name
    BY <1>1, <1>2, <2>1 DEF RegistryInv, RegistryTypeOK
  <2>2. CASE m # log[l].name
    <3>1. entry'[m] = entry[m]
      BY <1>1, <2>2 DEF RegistryInv, RegistryTypeOK
    <3>2. entry[m] \in Loggers /\ log[entry[m]].st = "live" /\ log[entry[m]].name = m
      BY <3>1 DEF RegistryInv, RegistryTypeOK, EntriesLive
    <3> QED
      BY <1>2, <2>2, <3>1, <3>2
  <2> QED
    BY <2>1, <2>2
<1> QED
  BY <1>3, <1>4, <1>5 DEF RegistryInv

(* The entry of the name goes whosever it is: what is left still lives.    *)
LEMMA UnregisterKeeps ==
    ASSUME RegistryInv, NEW l \in Loggers, Unregister(l) PROVE RegistryInv'
<1>1. /\ log[l].st = "live" /\ UNCHANGED <<idx, overlapped>>
      /\ log' = [log EXCEPT ![l] = Unmade]
      /\ entry' = [entry EXCEPT ![log[l].name] = NoLogger] /\ log[l].name \in LogNames
  BY DEF Unregister, RegistryInv, RegistryTypeOK
<1>2. log'[l].st = "none" /\ \A k \in Loggers \ {l} : log'[k] = log[k]
  BY <1>1 DEF RegistryInv, RegistryTypeOK, Unmade
<1>3. RegistryTypeOK'
  BY <1>1, RegistryAssumption DEF RegistryInv, RegistryTypeOK, Unmade, LogNames
<1>4. NumbersBelow' /\ CollisionsOverlapped'
  BY <1>1, <1>2, <1>3, NoNewNumber
<1>5. EntriesLive'
  <2> SUFFICES ASSUME NEW m \in LogNames, entry'[m] # NoLogger
               PROVE  log'[entry'[m]].st = "live" /\ log'[entry'[m]].name = m
    BY DEF EntriesLive
  <2>1. m # log[l].name /\ entry'[m] = entry[m]
    BY <1>1 DEF RegistryInv, RegistryTypeOK
  <2>2. entry[m] \in Loggers /\ log[entry[m]].st = "live" /\ log[entry[m]].name = m
    BY <2>1 DEF RegistryInv, RegistryTypeOK, EntriesLive
  <2> QED
    BY <1>2, <2>1, <2>2
<1> QED
  BY <1>3, <1>4, <1>5 DEF RegistryInv

(* A change of levels changes levels only.                                 *)
LEMMA SetLevelKeeps ==
    ASSUME RegistryInv, NEW S, NEW lev \in Levels, SetLevel(S, lev) PROVE RegistryInv'
<1>1. /\ UNCHANGED <<idx, entry, overlapped>>
      /\ log' = [l \in Loggers |-> IF l \in S THEN [log[l] EXCEPT !.level = lev] ELSE log[l]]
  BY DEF SetLevel
<1>2. RegistryTypeOK' /\ \A l \in Loggers : log'[l].st = log[l].st /\ log'[l].name = log[l].name
  BY <1>1 DEF RegistryInv, RegistryTypeOK
<1>3. NumbersBelow' /\ CollisionsOverlapped'
  BY <1>1, <1>2, NoNewNumber
<1>4. EntriesLive'
  BY <1>1, <1>2 DEF RegistryInv, RegistryTypeOK, EntriesLive
<1> QED
  BY <1>2, <1>3, <1>4 DEF RegistryInv

(* Every step keeps the invariant.                                         *)
LEMMA RegistrySteps == ASSUME RegistryInv, [RegistryNext]_regvars PROVE RegistryInv'
<1>1. CASE UNCHANGED regvars
  BY <1>1 DEF regvars, RegistryInv, RegistryTypeOK, EntriesLive, NumbersBelow,
     CollisionsOverlapped, Numbered
<1>2. CASE \E l \in Loggers : \/ LoadIdx(l) \/ CountIdx(l) \/ Registers(l) \/ Unregister(l)
                              \/ \E name \in GivenNames : TakeName(l, name)
  BY <1>2, LoadIdxKeeps, CountIdxKeeps, RegistersKeeps, UnregisterKeeps, TakeNameKeeps
<1>3. CASE \E S, lev : lev \in Levels /\ SetLevel(S, lev)
  BY <1>3, SetLevelKeeps
<1> QED
  BY <1>1, <1>2, <1>3 DEF RegistryNext

(* logger.cpp: the registry never leads to a logger that is gone, and two  *)
(* loggers share a number only if their constructors overlapped.           *)
THEOREM RegistryIsSafe == RegistrySpec => []RegistryHoldsTheLiving
<1>1. RegistryInit => RegistryInv
  BY RegistryStarts
<1>2. RegistryInv /\ [RegistryNext]_regvars => RegistryInv'
  BY RegistrySteps
<1>3. RegistryInv => RegistryHoldsTheLiving
  BY DEF RegistryInv, EntriesLive, CollisionsOverlapped, Numbered, RegistryHoldsTheLiving
<1> QED
  BY <1>1, <1>2, <1>3, PTL DEF RegistrySpec

----------------------------------------------------------------------------
(* A set of numbers has a smallest one: the sets of numbers below each of  *)
(* them are ordered by inclusion, and finite.                              *)
LEMMA Least ==
    ASSUME NEW L \in Nat, NEW S \in SUBSET (0..L), S # {}
    PROVE  \E i \in S : \A j \in S : i <= j
<1> DEFINE below(n) == 1..n
           A == {below(n) : n \in S}
           All == 1..L
<1>1. IsFiniteSet(All)
  <2>1. 1 \in Int /\ L \in Int
    OBVIOUS
  <2> QED
    BY <2>1, FS_Interval
<1>2. IsWellFoundedOn(StrictSubsetOrdering(All), SUBSET All)
  BY <1>1, FS_StrictSubsetOrderingWellFounded, FS_FiniteSubsetsOfFinite
<1>3. A \subseteq SUBSET All /\ A # {}
  <2>1. \A n \in S : below(n) \subseteq All
    OBVIOUS
  <2> QED
    BY <2>1
<1>4. PICK x \in A : \A y \in A : ~(<<y, x>> \in StrictSubsetOrdering(All))
  <2> HIDE DEF A, All
  <2> QED
    BY <1>2, <1>3, WFMin
<1>5. PICK n \in S : x = below(n)
  BY <1>4
<1>6. ASSUME NEW m \in S, m < n PROVE FALSE
  <2>1. below(m) \subseteq below(n) /\ n \in below(n) /\ n \notin below(m)
    BY <1>6
  <2>2. below(m) \in A /\ below(m) # below(n)
    BY <2>1
  <2> QED
    BY <1>3, <1>4, <1>5, <2>1, <2>2 DEF StrictSubsetOrdering
<1>7. \A m \in S : n <= m
  BY <1>6
<1> QED
  BY <1>7

(* And a greatest one: the mirror image.                                   *)
LEMMA Largest ==
    ASSUME NEW L \in Nat, NEW S \in SUBSET (0..L), S # {}
    PROVE  \E i \in S : \A j \in S : j <= i
<1> DEFINE T == {L - i : i \in S}
<1>1. T \in SUBSET (0..L) /\ T # {}
  <2>1. \A i \in S : L - i \in 0..L
    OBVIOUS
  <2> QED
    BY <2>1
<1>2. PICK m \in T : \A k \in T : m <= k
  <2> HIDE DEF T
  <2> QED
    BY <1>1, Least
<1>3. PICK i \in S : m = L - i
  BY <1>2
<1>4. \A j \in S : L - i <= L - j
  BY <1>2, <1>3
<1> QED
  BY <1>4

(* There is a table of the powers of 2, and Pow2 is it.                    *)
LEMMA Powers ==
    /\ Digits \in Nat \ {0} /\ Pow2[0] = 1
    /\ \A b \in 0..Digits : Pow2[b] \in Nat \ {0}
    /\ \A b \in 1..Digits : Pow2[b] = 2 * Pow2[b - 1]
<1> DEFINE Table(f, k) == /\ f \in [0..k -> Nat \ {0}] /\ f[0] = 1
                          /\ \A b \in 1..k : f[b] = 2 * f[b - 1]
           S == {k \in 0..Digits : ~ \E f : Table(f, k)}
<1>0. Digits \in Nat \ {0} /\ 0 \in 0..Digits /\ Digits \in 0..Digits
  BY TimeLinerAssumption
<1>1. S = {}
  <2> SUFFICES ASSUME S # {} PROVE FALSE
    OBVIOUS
  <2>1. PICK k \in S : \A j \in S : k <= j
    <3>1. S \in SUBSET (0..Digits)
      OBVIOUS
    <3> HIDE DEF S
    <3> QED
      BY <1>0, <3>1, Least
  <2>2. CASE k = 0
    <3>1. Table([b \in 0..0 |-> 1], 0)
      OBVIOUS
    <3> QED
      BY <2>1, <2>2, <3>1
  <2>3. CASE k # 0
    <3>1. k \in 0..Digits /\ k - 1 \in 0..Digits /\ k - 1 < k
      BY <1>0, <2>3
    <3>2. k - 1 \notin S
      <4> HIDE DEF S
      <4> SUFFICES ASSUME k - 1 \in S PROVE FALSE
        OBVIOUS
      <4>1. k <= k - 1
        BY <2>1
      <4> QED
        BY <3>1, <4>1
    <3>3. PICK f : Table(f, k - 1)
      BY <3>1, <3>2
    <3> DEFINE g == [b \in 0..k |-> IF b = k THEN 2 * f[k - 1] ELSE f[b]]
    <3>4. \A b \in 0..k : b = k \/ b \in 0..k - 1
      BY <3>1
    <3>5. k - 1 \in 0..k - 1 /\ 0 \in 0..k /\ 0 # k /\ 0 \in 0..k - 1
      BY <2>3, <3>1
    <3>6. g \in [0..k -> Nat \ {0}] /\ g[0] = 1
      BY <3>3, <3>4, <3>5
    <3>7. ASSUME NEW b \in 1..k PROVE g[b] = 2 * g[b - 1]
      <4>1. b \in 0..k /\ b - 1 \in 0..k /\ b - 1 # k
        BY <3>1
      <4>2. CASE b = k
        BY <4>1, <4>2
      <4>3. CASE b # k
        <5>1. b \in 1..k - 1
          BY <3>1, <4>3
        <5> QED
          BY <3>3, <4>1, <4>3, <5>1
      <4> QED
        BY <4>2, <4>3
    <3>8. Table(g, k)
      BY <3>6, <3>7
    <3> QED
      BY <2>1, <3>8
  <2> QED
    BY <2>2, <2>3
<1>2. PICK f : Table(f, Digits)
  BY <1>0, <1>1
<1>3. f = [b \in 0..Digits |-> IF b = 0 THEN 1 ELSE 2 * f[b - 1]]
  <2>1. \A b \in 0..Digits : b = 0 \/ b \in 1..Digits
    BY <1>0
  <2>2. \A b \in 0..Digits : f[b] = IF b = 0 THEN 1 ELSE 2 * f[b - 1]
    BY <1>2, <2>1
  <2>3. f = [b \in 0..Digits |-> f[b]]
    BY <1>2
  <2> QED
    BY <2>2, <2>3
<1>4. Pow2 = [b \in 0..Digits |-> IF b = 0 THEN 1 ELSE 2 * Pow2[b - 1]]
  <2>1. \E p : p = [b \in 0..Digits |-> IF b = 0 THEN 1 ELSE 2 * p[b - 1]]
    BY <1>3
  <2> QED
    BY <2>1 DEF Pow2
<1>5. \A b \in 0..Digits : Pow2[b] = f[b]
  <2> DEFINE R == {b \in 0..Digits : Pow2[b] # f[b]}
  <2> SUFFICES ASSUME R # {} PROVE FALSE
    OBVIOUS
  <2>1. PICK b \in R : \A c \in R : b <= c
    <3>1. R \in SUBSET (0..Digits)
      OBVIOUS
    <3> HIDE DEF R
    <3> QED
      BY <1>0, <3>1, Least
  <2>2. b = 0 \/ (b - 1 \in 0..Digits /\ b - 1 < b)
    BY <1>0
  <2>3. b = 0 \/ Pow2[b - 1] = f[b - 1]
    BY <1>0, <2>1, <2>2
  <2>4. Pow2[b] = (IF b = 0 THEN 1 ELSE 2 * Pow2[b - 1])
    BY <1>4
  <2>5. f[b] = (IF b = 0 THEN 1 ELSE 2 * f[b - 1])
    BY <1>3
  <2> QED
    BY <2>1, <2>3, <2>4, <2>5
<1>6. \A b \in 1..Digits : b \in 0..Digits /\ b - 1 \in 0..Digits
  BY <1>0
<1> QED
  BY <1>0, <1>2, <1>5, <1>6

Timestamps == 0..MaxTs
\* What is left of x without its lowest b bits.
Above(x, b) == x \div Pow2[b]
\* The highest bit in which a larger timestamp differs.
HighestBit(base, ts, b) ==
    /\ b \in 0..Digits - 1 /\ Above(base, b) < Above(ts, b)
    /\ \A c \in b + 1..Digits : Above(base, c) = Above(ts, c)

(* Bits are taken off one by one, and all of them at the end.              *)
LEMMA AboveIs ==
    ASSUME NEW x \in Timestamps
    PROVE  /\ Above(x, 0) = x /\ Above(x, Digits) = 0
           /\ \A b \in 0..Digits : Above(x, b) \in Nat
           /\ \A b \in 0..Digits - 1 :
                 /\ Bit(x, b) \in {0, 1}
                 /\ Above(x, b) = 2 * Above(x, b + 1) + Bit(x, b)
<1>1. x \in Nat
  BY Powers DEF Timestamps, MaxTs
<1>2. Above(x, 0) = x
  BY <1>1, Powers DEF Above
<1>3. Above(x, Digits) = 0
  <2>1. PICK p \in Nat \ {0} : p = Pow2[Digits]
    BY Powers
  <2>2. x < p
    BY <1>1, <2>1 DEF Timestamps, MaxTs
  <2>3. x \div p = 0
    BY <1>1, <2>2
  <2> QED
    BY <2>1, <2>3 DEF Above
<1>4. \A b \in 0..Digits : Above(x, b) \in Nat
  <2>1. \A p \in Nat \ {0} : x \div p \in Nat
    BY <1>1
  <2> QED
    BY <2>1, Powers DEF Above
<1>5. ASSUME NEW b \in 0..Digits - 1
      PROVE  Bit(x, b) \in {0, 1} /\ Above(x, b) = 2 * Above(x, b + 1) + Bit(x, b)
  <2>1. b \in 0..Digits /\ b + 1 \in 1..Digits /\ (b + 1) - 1 = b
    BY Powers
  <2>2. PICK p \in Nat \ {0} : p = Pow2[b]
    BY <2>1, Powers
  <2>3. Pow2[b + 1] = 2 * p
    BY <2>1, <2>2, Powers
  <2>4. x \div (2 * p) = (x \div p) \div 2
    BY <1>1
  <2>5. PICK y \in Nat : y = x \div p
    BY <1>1
  <2>6. y % 2 \in {0, 1} /\ y = 2 * (y \div 2) + (y % 2)
    OBVIOUS
  <2> QED
    BY <2>2, <2>3, <2>4, <2>5, <2>6 DEF Above, Bit
<1> QED
  BY <1>2, <1>3, <1>4, <1>5

(* Taking bits off keeps the order.                                        *)
LEMMA AboveOrder ==
    ASSUME NEW x \in Timestamps, NEW y \in Timestamps, NEW b \in 0..Digits, x <= y
    PROVE  Above(x, b) <= Above(y, b)
<1>1. x \in Nat /\ y \in Nat
  BY Powers DEF Timestamps, MaxTs
<1>2. PICK p \in Nat \ {0} : p = Pow2[b]
  BY Powers
<1>3. x \div p <= y \div p
  BY <1>1
<1> QED
  BY <1>2, <1>3 DEF Above

(* Two timestamps agree above a bit if all their higher bits agree.        *)
LEMMA SameAbove ==
    ASSUME NEW x \in Timestamps, NEW y \in Timestamps, NEW b \in 0..Digits,
           \A c \in b..Digits - 1 : Bit(x, c) = Bit(y, c)
    PROVE  \A c \in b..Digits : Above(x, c) = Above(y, c)
<1> DEFINE S == {c \in b..Digits : Above(x, c) # Above(y, c)}
<1> SUFFICES ASSUME S # {} PROVE FALSE
  OBVIOUS
<1>1. S \in SUBSET (0..Digits) /\ Digits \in Nat
  BY Powers
<1>2. PICK c \in S : \A d \in S : d <= c
  <2> HIDE DEF S
  <2> QED
    BY <1>1, Largest
<1>3. c # Digits
  BY AboveIs
<1>4. c \in 0..Digits - 1 /\ c \in b..Digits - 1 /\ c + 1 \in b..Digits /\ c + 1 > c
  BY <1>1, <1>3
<1>5. c + 1 \notin S
  <2> HIDE DEF S
  <2> SUFFICES ASSUME c + 1 \in S PROVE FALSE
    OBVIOUS
  <2>1. c + 1 <= c
    BY <1>2
  <2> QED
    BY <1>4, <2>1
<1>6. Above(x, c + 1) = Above(y, c + 1)
  BY <1>4, <1>5
<1>7. Bit(x, c) = Bit(y, c)
  BY <1>4
<1>8. /\ Above(x, c) = 2 * Above(x, c + 1) + Bit(x, c)
      /\ Above(y, c) = 2 * Above(y, c + 1) + Bit(y, c)
  BY <1>4, AboveIs
<1>9. Above(x, c) = Above(y, c)
  BY <1>6, <1>7, <1>8
<1> QED
  BY <1>9

(* GetIndex finds the highest bit in which a later timestamp differs.      *)
LEMMA GetIndexIs ==
    ASSUME NEW base \in Timestamps, NEW ts \in Timestamps, base < ts
    PROVE  \E b \in 0..Digits - 1 : GetIndex(base, ts) = Digits - b /\ HighestBit(base, ts, b)
<1> DEFINE D == {b \in 0..Digits - 1 : Bit(ts, b) # Bit(base, b)}
<1>1. Digits \in Nat \ {0} /\ Digits - 1 \in Nat /\ 0 \in 0..Digits
  BY Powers
<1>2. base \in Nat /\ ts \in Nat /\ ~(ts <= base) /\ base <= ts
  BY Powers DEF Timestamps, MaxTs
<1>3. D # {}
  <2> SUFFICES ASSUME D = {} PROVE FALSE
    OBVIOUS
  <2>1. \A c \in 0..Digits - 1 : Bit(base, c) = Bit(ts, c)
    OBVIOUS
  <2>2. \A c \in 0..Digits : Above(base, c) = Above(ts, c)
    BY <1>1, <2>1, SameAbove
  <2>3. Above(base, 0) = base /\ Above(ts, 0) = ts
    BY AboveIs
  <2> QED
    BY <1>1, <1>2, <2>2, <2>3
<1>4. PICK b \in D : b = Max(D) /\ \A c \in D : c <= b
  <2>1. D \in SUBSET (0..Digits - 1)
    OBVIOUS
  <2> HIDE DEF D
  <2>2. \E i \in D : \A j \in D : j <= i
    BY <1>1, <1>3, <2>1, Largest
  <2>3. \E i \in D : \A j \in D : i >= j
    BY <2>2
  <2>4. Max(D) \in D /\ \A j \in D : Max(D) >= j
    BY <2>3 DEF Max
  <2> QED
    BY <2>4
<1>5. GetIndex(base, ts) = Digits - b
  BY <1>2, <1>4 DEF GetIndex
<1>6. b \in 0..Digits - 1 /\ b + 1 \in 0..Digits /\ b \in 0..Digits
  BY <1>1
<1>7. \A c \in b + 1..Digits - 1 : Bit(base, c) = Bit(ts, c)
  <2> SUFFICES ASSUME NEW c \in b + 1..Digits - 1, Bit(base, c) # Bit(ts, c) PROVE FALSE
    OBVIOUS
  <2>1. c \in 0..Digits - 1 /\ c > b
    BY <1>6
  <2>2. c \in D
    BY <2>1
  <2> HIDE DEF D
  <2>3. c <= b
    BY <1>4, <2>2
  <2> QED
    BY <1>6, <2>1, <2>3
<1>8. \A c \in b + 1..Digits : Above(base, c) = Above(ts, c)
  BY <1>6, <1>7, SameAbove
<1>9. Above(base, b) < Above(ts, b)
  <2>1. Above(base, b) <= Above(ts, b)
    BY <1>2, <1>6, AboveOrder
  <2>2. /\ Above(base, b) = 2 * Above(base, b + 1) + Bit(base, b)
        /\ Above(ts, b) = 2 * Above(ts, b + 1) + Bit(ts, b)
        /\ Bit(base, b) \in {0, 1} /\ Bit(ts, b) \in {0, 1}
    BY <1>6, AboveIs
  <2>3. Above(base, b + 1) = Above(ts, b + 1) /\ Above(base, b + 1) \in Nat
    BY <1>6, <1>8, AboveIs
  <2>4. Bit(base, b) # Bit(ts, b)
    BY <1>4
  <2>5. PICK u \in Nat, r \in {0, 1}, z \in {0, 1} :
           u = Above(base, b + 1) /\ r = Bit(base, b) /\ z = Bit(ts, b)
    BY <2>2, <2>3
  <2>6. Above(base, b) = 2 * u + r /\ Above(ts, b) = 2 * u + z /\ r # z
    BY <2>2, <2>3, <2>4, <2>5
  <2>7. 2 * u + r <= 2 * u + z
    BY <2>1, <2>6
  <2>8. 2 * u + r < 2 * u + z
    BY <2>6, <2>7
  <2> QED
    BY <2>6, <2>8
<1> QED
  BY <1>5, <1>6, <1>8, <1>9 DEF HighestBit

(* There is only one such bit.                                             *)
LEMMA HighestBitIs ==
    ASSUME NEW base \in Timestamps, NEW ts \in Timestamps, NEW b, HighestBit(base, ts, b)
    PROVE  base < ts /\ b \in 0..Digits - 1 /\ GetIndex(base, ts) = Digits - b
<1>1. base \in Nat /\ ts \in Nat /\ Digits \in Nat
  BY Powers DEF Timestamps, MaxTs
<1>2. b \in 0..Digits - 1 /\ b \in 0..Digits
  BY <1>1 DEF HighestBit
<1>3. \A d \in 0..Digits : Above(base, d) \in Nat /\ Above(ts, d) \in Nat
  BY AboveIs
<1>4. base < ts
  <2> SUFFICES ASSUME ts <= base PROVE FALSE
    BY <1>1
  <2>1. Above(ts, b) <= Above(base, b)
    BY <1>2, AboveOrder
  <2>2. Above(base, b) < Above(ts, b)
    BY DEF HighestBit
  <2> QED
    BY <1>2, <1>3, <2>1, <2>2
<1>5. PICK c \in 0..Digits - 1 : GetIndex(base, ts) = Digits - c /\ HighestBit(base, ts, c)
  BY <1>4, GetIndexIs
<1>6. ~(c < b)
  <2> SUFFICES ASSUME c < b PROVE FALSE
    OBVIOUS
  <2>1. b \in c + 1..Digits
    BY <1>1, <1>2
  <2>2. Above(base, b) = Above(ts, b) /\ Above(base, b) < Above(ts, b)
    BY <1>5, <2>1 DEF HighestBit
  <2> QED
    BY <1>2, <1>3, <2>2
<1>7. ~(b < c)
  <2> SUFFICES ASSUME b < c PROVE FALSE
    OBVIOUS
  <2>1. c \in b + 1..Digits /\ c \in 0..Digits
    BY <1>1, <1>2
  <2>2. Above(base, c) = Above(ts, c) /\ Above(base, c) < Above(ts, c)
    BY <1>5, <2>1 DEF HighestBit
  <2> QED
    BY <1>3, <2>1, <2>2
<1>8. b = c
  BY <1>1, <1>2, <1>6, <1>7
<1> QED
  BY <1>2, <1>4, <1>5, <1>8

(* A timestamp further left in the lists than another one is later, and    *)
(* stays in its list when the base becomes the other one.                  *)
LEMMA FurtherLeft ==
    ASSUME NEW base \in Timestamps, NEW x \in Timestamps, NEW y \in Timestamps, base < x,
           GetIndex(base, y) < GetIndex(base, x)
    PROVE  x < y /\ GetIndex(x, y) = GetIndex(base, y)
<1>1. Digits \in Nat /\ base \in Nat /\ y \in Nat
  BY Powers DEF Timestamps, MaxTs
<1>2. PICK b \in 0..Digits - 1 : GetIndex(base, x) = Digits - b /\ HighestBit(base, x, b)
  BY GetIndexIs
<1>3. base < y
  <2> SUFFICES ASSUME y <= base PROVE FALSE
    BY <1>1
  <2>1. GetIndex(base, y) = Digits
    BY DEF GetIndex
  <2> QED
    BY <1>1, <1>2, <2>1
<1>4. PICK c \in 0..Digits - 1 : GetIndex(base, y) = Digits - c /\ HighestBit(base, y, c)
  BY <1>3, GetIndexIs
<1>5. b < c /\ c \in b + 1..Digits /\ c + 1..Digits \subseteq b + 1..Digits
  BY <1>1, <1>2, <1>4
<1>6. HighestBit(x, y, c)
  <2>1. \A d \in b + 1..Digits : Above(base, d) = Above(x, d)
    BY <1>2 DEF HighestBit
  <2>2. /\ Above(base, c) < Above(y, c) /\ c \in 0..Digits - 1
        /\ \A d \in c + 1..Digits : Above(base, d) = Above(y, d)
    BY <1>4 DEF HighestBit
  <2>3. Above(x, c) < Above(y, c)
    BY <1>5, <2>1, <2>2
  <2>4. \A d \in c + 1..Digits : Above(x, d) = Above(y, d)
    BY <1>5, <2>1, <2>2
  <2> QED
    BY <2>2, <2>3, <2>4 DEF HighestBit
<1> QED
  BY <1>4, <1>6, HighestBitIs

(* In one list, the difference is further right.                           *)
LEMMA OneList ==
    ASSUME NEW base \in Timestamps, NEW x \in Timestamps, NEW y \in Timestamps,
           base < x, x < y, GetIndex(base, y) = GetIndex(base, x)
    PROVE  GetIndex(x, y) > GetIndex(base, x)
<1>1. Digits \in Nat /\ base \in Nat /\ x \in Nat /\ y \in Nat /\ base < y
  BY Powers DEF Timestamps, MaxTs
<1>2. PICK b \in 0..Digits - 1 : GetIndex(base, x) = Digits - b /\ HighestBit(base, x, b)
  BY GetIndexIs
<1>3. PICK b2 \in 0..Digits - 1 : GetIndex(base, y) = Digits - b2 /\ HighestBit(base, y, b2)
  BY <1>1, GetIndexIs
<1>4. b2 = b
  BY <1>1, <1>2, <1>3
<1>5. PICK c \in 0..Digits - 1 : GetIndex(x, y) = Digits - c /\ HighestBit(x, y, c)
  BY GetIndexIs
<1>6. b \in 0..Digits /\ b + 1 \in 0..Digits /\ b + 1 \in b + 1..Digits
  BY <1>1
<1>7. Above(x, b) = Above(y, b)
  <2>1. /\ Above(base, b + 1) = Above(x, b + 1) /\ Above(base, b + 1) = Above(y, b + 1)
        /\ Above(base, b) < Above(x, b) /\ Above(base, b) < Above(y, b)
    BY <1>2, <1>3, <1>4, <1>6 DEF HighestBit
  <2>2. \A z \in {base, x, y} : /\ Above(z, b) = 2 * Above(z, b + 1) + Bit(z, b)
                                /\ Bit(z, b) \in {0, 1} /\ Above(z, b + 1) \in Nat
    BY <1>6, AboveIs
  <2> QED
    BY <2>1, <2>2
<1>8. \A d \in b..Digits : Above(x, d) = Above(y, d)
  <2>1. \A d \in b + 1..Digits : Above(x, d) = Above(y, d)
    BY <1>2, <1>3, <1>4 DEF HighestBit
  <2>2. \A d \in b..Digits : d = b \/ d \in b + 1..Digits
    BY <1>1
  <2> QED
    BY <1>7, <2>1, <2>2
<1>9. c < b
  <2> SUFFICES ASSUME c >= b PROVE FALSE
    BY <1>1
  <2>1. c \in b..Digits /\ c \in 0..Digits
    BY <1>1
  <2>2. Above(x, c) = Above(y, c) /\ Above(x, c) < Above(y, c) /\ Above(x, c) \in Nat
    BY <1>5, <1>8, <2>1, AboveIs DEF HighestBit
  <2> QED
    BY <2>2
<1> QED
  BY <1>1, <1>2, <1>5, <1>9

(* What is to the right, or due already, is earlier.                       *)
LEMMA FurtherRight ==
    ASSUME NEW base \in Timestamps, NEW x \in Timestamps, NEW y \in Timestamps,
           base < x, GetIndex(base, y) > GetIndex(base, x)
    PROVE  y < x
<1>1. base \in Nat /\ x \in Nat /\ y \in Nat
  BY Powers DEF Timestamps, MaxTs
<1>2. CASE y <= base
  BY <1>1, <1>2
<1>3. CASE base < y
  BY <1>3, FurtherLeft
<1> QED
  BY <1>1, <1>2, <1>3

(* The list of the due holds the timestamps up to the next one.            *)
LEMMA DueList ==
    ASSUME NEW base \in Timestamps, NEW y \in Timestamps
    PROVE  /\ GetIndex(base, y) \in Indices /\ GetIndex(base, y) > 0
           /\ GetIndex(base, y) < Digits => base < y
           /\ GetIndex(base, y) = Digits => y <= base + 1
<1>1. Digits \in Nat \ {0} /\ base \in Nat /\ y \in Nat
  BY Powers DEF Timestamps, MaxTs
<1>2. CASE y <= base
  <2>1. GetIndex(base, y) = Digits
    BY <1>2 DEF GetIndex
  <2> QED
    BY <1>1, <1>2, <2>1 DEF Indices
<1>3. CASE base < y
  <2>1. PICK b \in 0..Digits - 1 : GetIndex(base, y) = Digits - b /\ HighestBit(base, y, b)
    BY <1>3, GetIndexIs
  <2>2. GetIndex(base, y) \in Indices /\ GetIndex(base, y) > 0
    BY <1>1, <2>1 DEF Indices
  <2>3. ASSUME b = 0 PROVE y <= base + 1
    <3>1. 0 \in 0..Digits - 1 /\ 0 + 1 \in 0 + 1..Digits
      BY <1>1
    <3>2. Above(base, 0 + 1) = Above(y, 0 + 1)
      BY <2>1, <2>3, <3>1 DEF HighestBit
    <3>3. \A z \in {base, y} : /\ z = 2 * Above(z, 0 + 1) + Bit(z, 0)
                               /\ Bit(z, 0) \in {0, 1}
      BY <3>1, AboveIs
    <3>4. PICK u \in Nat : u = Above(base, 0 + 1)
      BY <3>1, AboveIs
    <3>5. PICK r \in {0, 1}, z \in {0, 1} : r = Bit(base, 0) /\ z = Bit(y, 0)
      BY <3>3
    <3>6. base = 2 * u + r /\ y = 2 * u + z
      BY <3>2, <3>3, <3>4, <3>5
    <3> QED
      BY <3>6
  <2> QED
    BY <1>1, <1>3, <2>1, <2>2, <2>3
<1> QED
  BY <1>1, <1>2, <1>3

LinerTypeOK ==
    /\ lists \in [Indices -> SUBSET Timers] /\ bits \in SUBSET Indices
    /\ last \in 0..Horizon /\ now \in 0..Horizon /\ last <= now /\ next \in Timestamps
    /\ tm \in [Timers -> [armed : BOOLEAN, queued : BOOLEAN, expiry : 0..Horizon]]
    /\ loose \in SUBSET Timers /\ guessed \in BOOLEAN /\ stuck \in {"no", "loop", "erase"}

(* To the types and to two of the three parts: who is queued is armed, so  *)
(* that arm() does not insert a second time, and nobody is in the lists    *)
(* and expired at once.                                                    *)
LinerInv ==
    /\ LinerTypeOK /\ TimersInTheirLists /\ NextIsNotLate
    /\ Running => \A t \in Timers : /\ tm[t].queued => tm[t].armed
                                    /\ ~(t \in Queued /\ t \in loose)

(* Times are timestamps.                                                   *)
LEMMA TimesAre ==
    /\ 0..Horizon \subseteq Timestamps /\ Timestamps \subseteq Nat /\ Digits \in Nat \ {0}
    /\ MaxTs \in Timestamps /\ \A x \in Timestamps : x <= MaxTs
BY Powers, TimeLinerAssumption DEF Timestamps, MaxTs

(* A queued timer is in the list of its timestamp and in no other.         *)
LEMMA QueuedWhere ==
    ASSUME LinerInv, Running
    PROVE  /\ \A t \in Queued : /\ t \in Timers /\ tm[t].expiry \in 0..Horizon
                                /\ tm[t].expiry \in Timestamps /\ tm[t].queued
                                /\ GetIndex(last, tm[t].expiry) \in Indices
                                /\ t \in lists[GetIndex(last, tm[t].expiry)]
           /\ \A i \in Indices : \A t \in lists[i] :
                 t \in Queued /\ i = GetIndex(last, tm[t].expiry)
<1>1. \A i \in Indices : \A t \in lists[i] : t \in Queued /\ i = GetIndex(last, tm[t].expiry)
  BY DEF LinerInv, TimersInTheirLists, Queued
<1>2. ASSUME NEW t \in Queued
      PROVE  /\ t \in Timers /\ tm[t].expiry \in 0..Horizon /\ tm[t].expiry \in Timestamps
             /\ tm[t].queued
             /\ GetIndex(last, tm[t].expiry) \in Indices
             /\ t \in lists[GetIndex(last, tm[t].expiry)]
  <2>1. PICK i \in Indices : t \in lists[i]
    BY DEF Queued
  <2>2. t \in Timers /\ tm[t].expiry \in 0..Horizon
    BY <2>1 DEF LinerInv, LinerTypeOK
  <2> QED
    BY <1>1, <2>1, <2>2, TimesAre DEF LinerInv, TimersInTheirLists
<1> QED
  BY <1>1, <1>2

(* Where a queued timer stands when expire(time) is called.                *)
LEMMA TimerStandsAt ==
    ASSUME LinerInv, Running, NEW time \in last..Horizon, NEW t \in Queued,
           NEW e, e = tm[t].expiry, NEW p, p = GetIndex(last, e), NEW o, o = OwnIndex(time)
    PROVE  /\ o \in Indices /\ p \in Indices /\ time \in Timestamps /\ e \in Timestamps
           /\ p > o => e <= time
           /\ p < o => time < e /\ GetIndex(time, e) = p
           /\ p = o /\ e > time /\ last < time => GetIndex(time, e) > o
           /\ p = o /\ e > time /\ last = time => e = time + 1 /\ GetIndex(time, e) = o
<1>1. /\ last \in Timestamps /\ time \in Timestamps /\ e \in Timestamps /\ p \in Indices
      /\ last \in Nat /\ time \in Nat /\ e \in Nat /\ last <= time /\ Digits \in Nat
  <2>1. last \in 0..Horizon /\ time \in 0..Horizon /\ last <= time
    BY TimeLinerAssumption DEF LinerInv, LinerTypeOK
  <2> QED
    BY <2>1, TimesAre, QueuedWhere
<1>2. o = GetIndex(last, time) /\ o \in Indices
  BY <1>1, DueList DEF OwnIndex
<1>3. p \in Int /\ o \in Int /\ p <= Digits
  BY <1>1, <1>2 DEF Indices
<1>4. CASE last < time
  <2>1. p > o => e < time
    BY <1>1, <1>2, <1>3, <1>4, FurtherRight
  <2>2. p < o => time < e /\ GetIndex(time, e) = p
    BY <1>1, <1>2, <1>4, FurtherLeft
  <2>3. p = o /\ e > time => GetIndex(time, e) > o
    BY <1>1, <1>2, <1>4, OneList
  <2> QED
    BY <1>1, <1>2, <1>3, <1>4, <2>1, <2>2, <2>3
<1>5. CASE last = time
  <2>1. o = Digits
    BY <1>1, <1>2, <1>5 DEF GetIndex
  <2>2. /\ p < Digits => time < e
        /\ p = Digits => e <= time + 1
    BY <1>1, <1>5, DueList
  <2> QED
    BY <1>1, <1>2, <1>3, <1>5, <2>1, <2>2
<1> QED
  BY <1>1, <1>4, <1>5

(* expire() takes what is due, and nothing else.                           *)
LEMMA TakesTheDue ==
    ASSUME LinerInv, Running, NEW time \in last..Horizon
    PROVE  /\ ExpiredAt(time) = {t \in Queued : tm[t].expiry <= time}
           /\ LoopsAt(time) => time = last /\ (time + 1) \in Expiries(Queued)
<1> DEFINE o == OwnIndex(time)
<1>1. /\ last \in Nat /\ time \in Nat /\ last <= time /\ time \in 0..Horizon
      /\ \A i \in Indices : i \in Nat
  <2>1. last \in 0..Horizon
    BY DEF LinerInv, LinerTypeOK
  <2> QED
    BY <2>1, TimeLinerAssumption, TimesAre DEF Indices
<1>2. o \in Indices
  BY <1>1, TimesAre, DueList DEF OwnIndex, LinerInv, LinerTypeOK
<1> HIDE DEF o
<1>3. ASSUME NEW t \in ExpiredAt(time) PROVE t \in Queued /\ tm[t].expiry <= time
  <2>1. CASE t \in OwnDue(time)
    BY <2>1, <1>2, QueuedWhere DEF OwnDue, o
  <2>2. CASE t \notin OwnDue(time)
    <3>0. t \in UNION {lists[i] : i \in Right(time)}
      BY <2>2 DEF ExpiredAt
    <3>1. PICK i \in Right(time) : t \in lists[i]
      BY <3>0
    <3>2. i \in Indices /\ i > o
      BY <3>1 DEF Right, o, LinerInv, LinerTypeOK
    <3>3. t \in Queued /\ i = GetIndex(last, tm[t].expiry)
      BY <3>1, <3>2, QueuedWhere
    <3> QED
      BY <3>2, <3>3, TimerStandsAt DEF o
  <2> QED
    BY <2>1, <2>2
<1>4. ASSUME NEW t \in Queued, tm[t].expiry <= time PROVE t \in ExpiredAt(time)
  <2>1. PICK e, p : e = tm[t].expiry /\ p = GetIndex(last, e)
    OBVIOUS
  <2>2. p \in Indices /\ t \in lists[p] /\ e \in Timestamps
    BY <2>1, QueuedWhere
  <2>3. p \in bits
    BY <2>2 DEF LinerInv, TimersInTheirLists
  <2>4. ~(p < o)
    <3> SUFFICES ASSUME p < o PROVE FALSE
      OBVIOUS
    <3>1. time < e
      BY <2>1, TimerStandsAt DEF o
    <3> QED
      BY <1>1, <1>4, <2>1, <2>2, <3>1, TimesAre
  <2>5. p = o \/ p > o
    BY <1>1, <1>2, <2>2, <2>4
  <2>6. CASE p = o
    <3>1. t \in OwnDue(time)
      BY <1>4, <2>2, <2>6 DEF OwnDue, o
    <3> QED
      BY <3>1 DEF ExpiredAt
  <2>7. CASE p > o
    BY <2>2, <2>3, <2>7 DEF ExpiredAt, Right, o
  <2> QED
    BY <2>5, <2>6, <2>7
<1>5. ASSUME LoopsAt(time) PROVE time = last /\ (time + 1) \in Expiries(Queued)
  <2>1. PICK t \in Rest(time) : GetIndex(time, tm[t].expiry) = o
    BY <1>5 DEF LoopsAt, o
  <2>2. t \in lists[o] /\ ~(tm[t].expiry <= time)
    BY <2>1 DEF Rest, OwnDue, o
  <2>3. PICK e : e = tm[t].expiry
    OBVIOUS
  <2>4. t \in Queued /\ o = GetIndex(last, e) /\ e \in Timestamps
    BY <1>2, <2>2, <2>3, QueuedWhere
  <2>5. e > time
    BY <1>1, <2>2, <2>3, <2>4, TimesAre
  <2>6. ~(last < time)
    <3> SUFFICES ASSUME last < time PROVE FALSE
      OBVIOUS
    <3>1. GetIndex(time, e) > o
      BY <2>3, <2>4, <2>5, TimerStandsAt DEF o
    <3> QED
      BY <1>1, <1>2, <2>1, <2>3, <3>1
  <2>7. time = last
    BY <1>1, <2>6
  <2>8. e = time + 1
    BY <2>3, <2>4, <2>5, <2>7, TimerStandsAt DEF o
  <2> QED
    BY <2>3, <2>4, <2>7, <2>8 DEF Expiries
<1>6. ExpiredAt(time) = {t \in Queued : tm[t].expiry <= time}
  BY <1>3, <1>4
<1> QED
  BY <1>5, <1>6

(* The smallest of some timestamps.                                        *)
LEMMA MinIs ==
    ASSUME NEW S \in SUBSET Timestamps, S # {}
    PROVE  Min(S) \in S /\ \A x \in S : Min(S) <= x
<1>1. MaxTs \in Nat /\ S \in SUBSET (0..MaxTs)
  BY TimesAre DEF Timestamps
<1>2. \E x \in S : \A y \in S : x <= y
  BY <1>1, Least
<1> QED
  BY <1>2 DEF Min

(* The times at which queued timers are due are timestamps.                *)
LEMMA NextBecomes ==
    ASSUME NEW x \in Timestamps, NEW y \in Timestamps
    PROVE  Min({x, y}) \in Timestamps /\ Min({x, y}) <= x /\ Min({x, y}) <= y
<1>1. {x, y} \in SUBSET Timestamps /\ {x, y} # {}
  OBVIOUS
<1>2. Min({x, y}) \in {x, y} /\ \A z \in {x, y} : Min({x, y}) <= z
  BY <1>1, MinIs
<1> QED
  BY <1>1, <1>2

(* At first no timer is armed.                                             *)
LEMMA LinerStarts == ASSUME TimeLinerInit PROVE LinerInv
<1>1. Queued = {}
  BY DEF TimeLinerInit, Queued
<1>2. LinerTypeOK
  <2>1. Disarmed \in [armed : BOOLEAN, queued : BOOLEAN, expiry : 0..Horizon]
    BY TimeLinerAssumption DEF Disarmed
  <2>2. 0 \in 0..Horizon
    BY TimeLinerAssumption
  <2>3. next \in Timestamps /\ last <= now
    BY TimesAre DEF TimeLinerInit
  <2>4. tm \in [Timers -> [armed : BOOLEAN, queued : BOOLEAN, expiry : 0..Horizon]]
    BY <2>1 DEF TimeLinerInit
  <2>5. lists \in [Indices -> SUBSET Timers]
    BY DEF TimeLinerInit
  <2> QED
    BY <2>2, <2>3, <2>4, <2>5 DEF TimeLinerInit, LinerTypeOK
<1>3. \A t \in Timers : tm[t].queued = FALSE
  BY DEF TimeLinerInit, Disarmed
<1> QED
  BY <1>1, <1>2, <1>3 DEF LinerInv, TimersInTheirLists, NextIsNotLate, TimeLinerInit

(* arm() inserts a timer that is not in a list.                            *)
LEMMA ArmKeeps == ASSUME LinerInv, NEW t \in Timers, Arm(t) PROVE LinerInv'
<1>1. /\ Running /\ tm[t].armed = FALSE
      /\ UNCHANGED <<last, now, loose, guessed, stuck>>
  BY DEF Arm, LinerInv, LinerTypeOK
<1>2. PICK ts \in 0..Horizon : InsertTimer(t, ts) /\ tm' = [tm EXCEPT ![t] = Armed(ts)]
  BY DEF Arm
<1>3. PICK j \in Indices : j = GetIndex(last, ts)
  BY TimesAre, DueList DEF LinerInv, LinerTypeOK
<1>4. /\ lists' = [lists EXCEPT ![j] = lists[j] \cup {t}] /\ bits' = bits \cup {j}
      /\ next' = Min({next, ts})
  BY <1>2, <1>3 DEF InsertTimer
<1>5. t \notin Queued /\ t \notin loose /\ tm[t].queued = FALSE
  <2>1. ~tm[t].queued
    BY <1>1 DEF LinerInv
  <2> QED
    BY <1>1, <2>1 DEF LinerInv, TimersInTheirLists, LinerTypeOK
<1>6. /\ tm'[t] = [armed |-> TRUE, queued |-> TRUE, expiry |-> ts]
      /\ \A s \in Timers : s # t => tm'[s] = tm[s]
  BY <1>2 DEF Armed, LinerInv, LinerTypeOK
<1>7. next' \in Timestamps /\ next' <= next /\ next' <= ts
  BY <1>4, NextBecomes, TimesAre DEF LinerInv, LinerTypeOK
<1>8. LinerTypeOK'
  <2>1. [armed |-> TRUE, queued |-> TRUE, expiry |-> ts]
           \in [armed : BOOLEAN, queued : BOOLEAN, expiry : 0..Horizon]
    OBVIOUS
  <2> QED
    BY <1>1, <1>2, <1>4, <1>7, <2>1 DEF LinerInv, LinerTypeOK, Armed
<1>9. \A i \in Indices : lists'[i] = IF i = j THEN lists[j] \cup {t} ELSE lists[i]
  BY <1>4 DEF LinerInv, LinerTypeOK
<1>10. Queued' = Queued \cup {t}
  BY <1>9 DEF Queued
<1>11. \A i \in Indices : \A s \in lists'[i] : tm'[s].queued /\ i = GetIndex(last', tm'[s].expiry)
  <2> SUFFICES ASSUME NEW i \in Indices, NEW s \in lists'[i]
               PROVE  tm'[s].queued /\ i = GetIndex(last', tm'[s].expiry)
    OBVIOUS
  <2>1. CASE s = t
    <3>1. i = j
      BY <1>5, <1>9, <2>1, QueuedWhere, <1>1
    <3> QED
      BY <1>1, <1>3, <1>6, <2>1, <3>1
  <2>2. CASE s # t
    <3>1. s \in lists[i]
      BY <1>9, <2>2
    <3>2. s \in Timers /\ tm[s].queued /\ i = GetIndex(last, tm[s].expiry)
      BY <1>1, <3>1 DEF LinerInv, LinerTypeOK, TimersInTheirLists
    <3> QED
      BY <1>1, <1>6, <2>2, <3>2
  <2> QED
    BY <2>1, <2>2
<1>12. bits' = {i \in Indices : lists'[i] # {}}
  <2>1. bits = {i \in Indices : lists[i] # {}}
    BY <1>1 DEF LinerInv, TimersInTheirLists
  <2> QED
    BY <1>3, <1>4, <1>9, <2>1
<1>13. \A s \in Timers : tm'[s].queued <=> (s \in Queued' \/ s \in loose')
  BY <1>1, <1>5, <1>6, <1>10 DEF LinerInv, TimersInTheirLists
<1>14. Running' /\ stuck' = "no"
  BY <1>1 DEF Running
<1>15. TimersInTheirLists'
  BY <1>11, <1>12, <1>13, <1>14 DEF TimersInTheirLists
<1>16. NextIsNotLate'
  <2>1. ASSUME ~guessed', NEW s \in Queued' PROVE next' <= tm'[s].expiry
    <3>1. CASE s = t
      BY <1>6, <1>7, <3>1
    <3>2. CASE s # t
      <4>1. s \in Queued /\ s \in Timers /\ tm[s].expiry \in Timestamps
        BY <1>1, <1>10, <3>2, QueuedWhere
      <4>2. next <= tm[s].expiry
        BY <1>1, <2>1, <4>1 DEF LinerInv, NextIsNotLate
      <4>3. next \in Nat /\ next' \in Nat /\ tm[s].expiry \in Nat
        BY <1>7, <4>1, TimesAre DEF LinerInv, LinerTypeOK
      <4>4. next' <= tm[s].expiry
        BY <1>7, <4>2, <4>3
      <4> QED
        BY <1>6, <3>2, <4>1, <4>4
    <3> QED
      BY <3>1, <3>2
  <2> QED
    BY <2>1 DEF NextIsNotLate
<1>17. \A s \in Timers : (tm'[s].queued => tm'[s].armed) /\ ~(s \in Queued' /\ s \in loose')
  BY <1>1, <1>5, <1>6, <1>10 DEF LinerInv
<1> QED
  BY <1>8, <1>15, <1>16, <1>17 DEF LinerInv

(* t is taken out of list i, and what then remains.                        *)
TakenFrom(i, t, without, set) ==
    /\ without = [lists EXCEPT ![i] = lists[i] \ {t}]
    /\ lists[i] \ {t} = {} => set = bits \ {i}
    /\ lists[i] \ {t} # {} => set = bits
Remain(t, without, set) ==
    /\ without \in [Indices -> SUBSET Timers] /\ set \in SUBSET Indices
    /\ set = {k \in Indices : without[k] # {}}
    /\ \A k \in Indices : without[k] = lists[k] \ {t}
    /\ UNION {without[k] : k \in Indices} = Queued \ {t}

(* A timer leaves its list, and no other list changes.                     *)
LEMMA ListLoses ==
    ASSUME LinerInv, Running, NEW t \in Queued, NEW i \in Indices,
           i = GetIndex(last, tm[t].expiry), NEW without, NEW set, TakenFrom(i, t, without, set)
    PROVE  Remain(t, without, set)
<1>1. \A k \in Indices : t \in lists[k] => k = i
  BY QueuedWhere
<1>2. without = [lists EXCEPT ![i] = lists[i] \ {t}]
  BY DEF TakenFrom
<1>3. \A k \in Indices : without[k] = lists[k] \ {t}
  BY <1>1, <1>2 DEF LinerInv, LinerTypeOK
<1>4. without \in [Indices -> SUBSET Timers]
  BY <1>2 DEF LinerInv, LinerTypeOK
<1>5. bits = {k \in Indices : lists[k] # {}}
  BY DEF LinerInv, TimersInTheirLists
<1>6. set = {k \in Indices : without[k] # {}}
  <2>1. without[i] = lists[i] \ {t} /\ \A k \in Indices : k # i => without[k] = lists[k]
    BY <1>2 DEF LinerInv, LinerTypeOK
  <2>2. CASE lists[i] \ {t} = {}
    <3>1. set = bits \ {i}
      BY <2>2 DEF TakenFrom
    <3> QED
      BY <1>5, <2>1, <2>2, <3>1
  <2>3. CASE lists[i] \ {t} # {}
    <3>1. set = bits /\ lists[i] # {}
      BY <2>3 DEF TakenFrom
    <3> QED
      BY <1>5, <2>1, <2>3, <3>1
  <2> QED
    BY <2>2, <2>3
<1>7. UNION {without[k] : k \in Indices} = Queued \ {t}
  BY <1>3 DEF Queued
<1>8. set \in SUBSET Indices
  BY <1>6
<1> QED
  BY <1>3, <1>4, <1>6, <1>7, <1>8 DEF Remain

(* cancel() takes a timer out of its list, or erases one that is in none.  *)
LEMMA CancelKeeps == ASSUME LinerInv, NEW t \in Timers, Cancel(t) PROVE LinerInv'
<1>1. /\ Running /\ tm[t].armed /\ tm[t].queued /\ RemoveTimer(t)
      /\ tm' = [tm EXCEPT ![t] = Disarmed]
      /\ UNCHANGED <<last, now, loose, guessed>>
  BY DEF Cancel
<1>2. PICK i \in Indices : i = GetIndex(last, tm[t].expiry)
  BY TimesAre, DueList DEF LinerInv, LinerTypeOK
<1>3. /\ lists' = [lists EXCEPT ![i] = lists[i] \ {t}]
      /\ bits' = IF lists[i] \ {t} = {} THEN bits \ {i} ELSE bits
      /\ next' = next /\ stuck' = IF t \in Queued THEN "no" ELSE "erase"
  BY <1>1, <1>2 DEF RemoveTimer
<1>4. /\ tm'[t] = [armed |-> FALSE, queued |-> FALSE, expiry |-> 0]
      /\ \A s \in Timers : s # t => tm'[s] = tm[s]
  BY <1>1 DEF Disarmed, LinerInv, LinerTypeOK
<1>5. LinerTypeOK'
  <2>1. [armed |-> FALSE, queued |-> FALSE, expiry |-> 0]
           \in [armed : BOOLEAN, queued : BOOLEAN, expiry : 0..Horizon]
    BY TimeLinerAssumption
  <2> QED
    BY <1>1, <1>2, <1>3, <2>1 DEF LinerInv, LinerTypeOK, Disarmed
<1>6. CASE t \notin Queued
  <2>1. stuck' = "erase" /\ loose' # {}
    BY <1>1, <1>3, <1>6 DEF LinerInv, TimersInTheirLists
  <2> QED
    BY <1>5, <2>1 DEF LinerInv, TimersInTheirLists, NextIsNotLate, Running
<1>7. CASE t \in Queued
  <2>0. Remain(t, lists', bits')
    <3>1. TakenFrom(i, t, lists', bits')
      BY <1>3 DEF TakenFrom
    <3> QED
      BY <1>1, <1>2, <1>7, <3>1, ListLoses
  <2>1. /\ bits' = {k \in Indices : lists'[k] # {}}
        /\ \A k \in Indices : lists'[k] = lists[k] \ {t}
        /\ UNION {lists'[k] : k \in Indices} = Queued \ {t}
    BY <2>0 DEF Remain
  <2>2. Queued' = Queued \ {t}
    BY <2>1 DEF Queued
  <2>3. t \notin loose /\ stuck' = "no"
    BY <1>1, <1>3, <1>7 DEF LinerInv
  <2>4. TimersInTheirLists'
    <3>1. \A k \in Indices : \A s \in lists'[k] :
             tm'[s].queued /\ k = GetIndex(last', tm'[s].expiry)
      <4> SUFFICES ASSUME NEW k \in Indices, NEW s \in lists'[k]
                   PROVE  tm'[s].queued /\ k = GetIndex(last', tm'[s].expiry)
        OBVIOUS
      <4>1. s \in lists[k] /\ s # t
        BY <2>1
      <4>2. s \in Timers /\ tm[s].queued /\ k = GetIndex(last, tm[s].expiry)
        BY <1>1, <4>1 DEF LinerInv, LinerTypeOK, TimersInTheirLists
      <4> QED
        BY <1>1, <1>4, <4>1, <4>2
    <3>2. \A s \in Timers : tm'[s].queued <=> (s \in Queued' \/ s \in loose')
      BY <1>1, <1>4, <2>2, <2>3 DEF LinerInv, TimersInTheirLists
    <3> QED
      BY <2>1, <2>3, <3>1, <3>2 DEF TimersInTheirLists
  <2>5. NextIsNotLate'
    <3>1. ASSUME ~guessed', NEW s \in Queued' PROVE next' <= tm'[s].expiry
      <4>1. s \in Queued /\ s # t /\ s \in Timers
        BY <1>1, <2>2, QueuedWhere
      <4> QED
        BY <1>1, <1>3, <1>4, <3>1, <4>1 DEF LinerInv, NextIsNotLate
    <3> QED
      BY <3>1 DEF NextIsNotLate
  <2>6. \A s \in Timers : (tm'[s].queued => tm'[s].armed) /\ ~(s \in Queued' /\ s \in loose')
    BY <1>1, <1>4, <2>2 DEF LinerInv
  <2> QED
    BY <1>5, <2>4, <2>5, <2>6 DEF LinerInv
<1> QED
  BY <1>6, <1>7

(* rearm() takes a timer out of its list and inserts it again.             *)
LEMMA RearmKeeps == ASSUME LinerInv, NEW t \in Timers, Rearm(t) PROVE LinerInv'
<1>1. /\ Running /\ tm[t].armed /\ t \in Queued
      /\ UNCHANGED <<last, now, loose, guessed, stuck>>
  BY DEF Rearm
<1>2. PICK i \in Indices : i = GetIndex(last, tm[t].expiry)
  BY TimesAre, DueList DEF LinerInv, LinerTypeOK
<1>3. PICK without, set :
         /\ without = [lists EXCEPT ![i] = lists[i] \ {t}]
         /\ set = IF lists[i] \ {t} = {} THEN bits \ {i} ELSE bits
  OBVIOUS
<1>4. /\ without \in [Indices -> SUBSET Timers] /\ set \in SUBSET Indices
      /\ set = {k \in Indices : without[k] # {}}
      /\ \A k \in Indices : without[k] = lists[k] \ {t}
      /\ UNION {without[k] : k \in Indices} = Queued \ {t}
  <2>1. TakenFrom(i, t, without, set)
    BY <1>3 DEF TakenFrom
  <2>2. Remain(t, without, set)
    BY <1>1, <1>2, <2>1, ListLoses
  <2> QED
    BY <2>2 DEF Remain
<1>5. without[i] = lists[i] \ {t}
  BY <1>4
<1>6. PICK ts \in 0..Horizon :
         LET j == GetIndex(last, ts)
         IN  /\ lists' = [without EXCEPT ![j] = without[j] \cup {t}]
             /\ bits' = set \cup {j}
             /\ next' = Min({next, ts})
             /\ tm' = [tm EXCEPT ![t] = Armed(ts)]
  BY <1>2, <1>3, <1>5 DEF Rearm
<1>7. PICK j \in Indices : j = GetIndex(last, ts)
  BY TimesAre, DueList DEF LinerInv, LinerTypeOK
<1>8. /\ lists' = [without EXCEPT ![j] = without[j] \cup {t}] /\ bits' = set \cup {j}
      /\ next' = Min({next, ts}) /\ tm' = [tm EXCEPT ![t] = Armed(ts)]
  BY <1>6, <1>7
<1>9. /\ tm'[t] = [armed |-> TRUE, queued |-> TRUE, expiry |-> ts]
      /\ \A s \in Timers : s # t => tm'[s] = tm[s]
  BY <1>8 DEF Armed, LinerInv, LinerTypeOK
<1>10. next' \in Timestamps /\ next' <= next /\ next' <= ts
  BY <1>8, NextBecomes, TimesAre DEF LinerInv, LinerTypeOK
<1>11. LinerTypeOK'
  <2>1. [armed |-> TRUE, queued |-> TRUE, expiry |-> ts]
           \in [armed : BOOLEAN, queued : BOOLEAN, expiry : 0..Horizon]
    OBVIOUS
  <2> QED
    BY <1>1, <1>4, <1>8, <1>10, <2>1 DEF LinerInv, LinerTypeOK, Armed
<1>12. \A k \in Indices : lists'[k] = (lists[k] \ {t}) \cup (IF k = j THEN {t} ELSE {})
  BY <1>4, <1>8
<1>13. Queued' = Queued
  <2>1. UNION {lists'[k] : k \in Indices} = (UNION {without[k] : k \in Indices}) \cup {t}
    BY <1>4, <1>12
  <2> QED
    BY <1>1, <1>4, <2>1 DEF Queued
<1>14. \A k \in Indices : \A s \in lists'[k] : tm'[s].queued /\ k = GetIndex(last', tm'[s].expiry)
  <2> SUFFICES ASSUME NEW k \in Indices, NEW s \in lists'[k]
               PROVE  tm'[s].queued /\ k = GetIndex(last', tm'[s].expiry)
    OBVIOUS
  <2>1. CASE s = t
    <3>1. k = j
      BY <1>12, <2>1
    <3> QED
      BY <1>1, <1>7, <1>9, <2>1, <3>1
  <2>2. CASE s # t
    <3>1. s \in lists[k]
      BY <1>12, <2>2
    <3>2. s \in Timers /\ tm[s].queued /\ k = GetIndex(last, tm[s].expiry)
      BY <1>1, <3>1 DEF LinerInv, LinerTypeOK, TimersInTheirLists
    <3> QED
      BY <1>1, <1>9, <2>2, <3>2
  <2> QED
    BY <2>1, <2>2
<1>15. bits' = {k \in Indices : lists'[k] # {}}
  BY <1>4, <1>8, <1>12
<1>16. \A s \in Timers : tm'[s].queued <=> (s \in Queued' \/ s \in loose')
  BY <1>1, <1>9, <1>13 DEF LinerInv, TimersInTheirLists
<1>17. Running' /\ stuck' = "no"
  BY <1>1 DEF Running
<1>18. TimersInTheirLists'
  BY <1>14, <1>15, <1>16, <1>17 DEF TimersInTheirLists
<1>19. NextIsNotLate'
  <2>1. ASSUME ~guessed', NEW s \in Queued' PROVE next' <= tm'[s].expiry
    <3>1. CASE s = t
      BY <1>9, <1>10, <3>1
    <3>2. CASE s # t
      <4>1. s \in Queued /\ s \in Timers /\ tm[s].expiry \in Timestamps
        BY <1>1, <1>13, <2>1, QueuedWhere
      <4>2. next <= tm[s].expiry
        BY <1>1, <2>1, <4>1 DEF LinerInv, NextIsNotLate
      <4>3. next \in Nat /\ next' \in Nat /\ tm[s].expiry \in Nat
        BY <1>10, <4>1, TimesAre DEF LinerInv, LinerTypeOK
      <4>4. next' <= tm[s].expiry
        BY <1>10, <4>2, <4>3
      <4> QED
        BY <1>9, <3>2, <4>1, <4>4
    <3> QED
      BY <3>1, <3>2
  <2> QED
    BY <2>1 DEF NextIsNotLate
<1>20. \A s \in Timers : (tm'[s].queued => tm'[s].armed) /\ ~(s \in Queued' /\ s \in loose')
  BY <1>1, <1>9, <1>13 DEF LinerInv
<1> QED
  BY <1>11, <1>18, <1>19, <1>20 DEF LinerInv

(* timer(timer&&): the new timer takes the place of the old one.           *)
LEMMA MoveTimerKeeps ==
    ASSUME LinerInv, NEW t \in Timers, NEW u \in Timers, MoveTimer(t, u) PROVE LinerInv'
<1>1. /\ Running /\ t # u /\ tm[u].armed = FALSE /\ t \in Queued
      /\ tm' = [tm EXCEPT ![u] = tm[t],
                          ![t] = [armed |-> FALSE, queued |-> FALSE, expiry |-> tm[t].expiry]]
      /\ UNCHANGED <<bits, last, next, now, loose, guessed, stuck>>
  BY DEF MoveTimer, LinerInv, LinerTypeOK
<1>2. lists' = [i \in Indices |-> IF t \in lists[i] THEN (lists[i] \ {t}) \cup {u} ELSE lists[i]]
  BY DEF MoveTimer
<1>3. u \notin Queued /\ u \notin loose /\ t \notin loose
  <2>1. ~tm[u].queued
    BY <1>1 DEF LinerInv
  <2> QED
    BY <1>1, <2>1 DEF LinerInv, TimersInTheirLists
<1>4. PICK z \in [armed : BOOLEAN, queued : BOOLEAN, expiry : 0..Horizon] :
         /\ z = [armed |-> FALSE, queued |-> FALSE, expiry |-> tm[t].expiry]
         /\ z.armed = FALSE /\ z.queued = FALSE
  <2>1. tm[t].expiry \in 0..Horizon
    BY DEF LinerInv, LinerTypeOK
  <2> DEFINE w == [armed |-> FALSE, queued |-> FALSE, expiry |-> tm[t].expiry]
  <2>2. w \in [armed : BOOLEAN, queued : BOOLEAN, expiry : 0..Horizon]
    BY <2>1
  <2>3. w.armed = FALSE /\ w.queued = FALSE
    OBVIOUS
  <2> QED
    BY <2>2, <2>3
<1>5. /\ tm'[u] = tm[t] /\ tm'[t].queued = FALSE
      /\ \A s \in Timers : s # t /\ s # u => tm'[s] = tm[s]
  <2>1. tm' = [tm EXCEPT ![u] = tm[t], ![t] = z]
    BY <1>1, <1>4
  <2> QED
    BY <1>1, <1>4, <2>1 DEF LinerInv, LinerTypeOK
<1>6. LinerTypeOK'
  <2>1. tm' = [tm EXCEPT ![u] = tm[t], ![t] = z]
    BY <1>1, <1>4
  <2>2. tm' \in [Timers -> [armed : BOOLEAN, queued : BOOLEAN, expiry : 0..Horizon]]
    BY <2>1 DEF LinerInv, LinerTypeOK
  <2> QED
    BY <1>1, <1>2, <2>2 DEF LinerInv, LinerTypeOK
<1>7. \A i \in Indices : lists'[i] = IF t \in lists[i] THEN (lists[i] \ {t}) \cup {u} ELSE lists[i]
  BY <1>2
<1>8. Queued' = (Queued \ {t}) \cup {u}
  <2>1. PICK i \in Indices : t \in lists[i]
    BY <1>1 DEF Queued
  <2>2. u \in lists'[i]
    BY <1>7, <2>1
  <2>3. u \in Queued'
    BY <2>1, <2>2 DEF Queued
  <2>4. \A k \in Indices : \A s : s # u => (s \in lists'[k] <=> s \in lists[k] /\ s # t)
    BY <1>7
  <2>5. \A s : s # u => (s \in Queued' <=> s \in Queued /\ s # t)
    BY <2>4 DEF Queued
  <2> QED
    BY <1>1, <2>3, <2>5
<1>9. \A i \in Indices : \A s \in lists'[i] : tm'[s].queued /\ i = GetIndex(last', tm'[s].expiry)
  <2> SUFFICES ASSUME NEW i \in Indices, NEW s \in lists'[i]
               PROVE  tm'[s].queued /\ i = GetIndex(last', tm'[s].expiry)
    OBVIOUS
  <2>1. CASE s = u
    <3>1. u \notin lists[i]
      BY <1>3 DEF Queued
    <3>2. t \in lists[i]
      BY <1>7, <2>1, <3>1
    <3>3. tm[t].queued /\ i = GetIndex(last, tm[t].expiry)
      BY <1>1, <3>2 DEF LinerInv, TimersInTheirLists
    <3> QED
      BY <1>1, <1>5, <2>1, <3>3
  <2>2. CASE s # u
    <3>1. s \in lists[i] /\ s # t
      BY <1>7, <2>2
    <3>2. s \in Timers /\ tm[s].queued /\ i = GetIndex(last, tm[s].expiry)
      BY <1>1, <3>1 DEF LinerInv, LinerTypeOK, TimersInTheirLists
    <3> QED
      BY <1>1, <1>5, <2>2, <3>1, <3>2
  <2> QED
    BY <2>1, <2>2
<1>10. bits' = {i \in Indices : lists'[i] # {}}
  <2>1. \A i \in Indices : lists'[i] # {} <=> lists[i] # {}
    BY <1>7
  <2> QED
    BY <1>1, <2>1 DEF LinerInv, TimersInTheirLists
<1>11. \A s \in Timers : tm'[s].queued <=> (s \in Queued' \/ s \in loose')
  <2>1. tm[t].queued
    BY <1>1, QueuedWhere
  <2> QED
    BY <1>1, <1>3, <1>5, <1>8, <2>1 DEF LinerInv, TimersInTheirLists
<1>12. Running' /\ stuck' = "no"
  BY <1>1 DEF Running
<1>13. TimersInTheirLists'
  BY <1>9, <1>10, <1>11, <1>12 DEF TimersInTheirLists
<1>14. NextIsNotLate'
  <2>1. ASSUME ~guessed', NEW s \in Queued' PROVE next' <= tm'[s].expiry
    <3>1. CASE s = u
      BY <1>1, <1>5, <2>1, <3>1 DEF LinerInv, NextIsNotLate
    <3>2. CASE s # u
      <4>1. s \in Queued /\ s # t /\ s \in Timers
        BY <1>1, <1>8, <3>2, QueuedWhere
      <4> QED
        BY <1>1, <1>5, <2>1, <3>2, <4>1 DEF LinerInv, NextIsNotLate
    <3> QED
      BY <3>1, <3>2
  <2> QED
    BY <2>1 DEF NextIsNotLate
<1>15. \A s \in Timers : (tm'[s].queued => tm'[s].armed) /\ ~(s \in Queued' /\ s \in loose')
  BY <1>1, <1>3, <1>5, <1>8 DEF LinerInv
<1> QED
  BY <1>6, <1>13, <1>14, <1>15 DEF LinerInv

(* Time passes.                                                            *)
LEMMA TickKeeps == ASSUME LinerInv, Tick PROVE LinerInv'
<1>1. /\ now < Horizon /\ now' = now + 1
      /\ UNCHANGED <<lists, bits, last, next, tm, loose, guessed, stuck>>
  BY DEF Tick
<1>2. now' \in 0..Horizon /\ last <= now'
  BY <1>1, TimeLinerAssumption DEF LinerInv, LinerTypeOK
<1> QED
  BY <1>1, <1>2 DEF LinerInv, LinerTypeOK, TimersInTheirLists, NextIsNotLate, Running, Queued

(* An expired timer is marked and called back.                             *)
LEMMA CompleteKeeps == ASSUME LinerInv, NEW t \in Timers, Complete(t) PROVE LinerInv'
<1>1. /\ Running /\ t \in loose /\ tm' = [tm EXCEPT ![t] = Disarmed] /\ loose' = loose \ {t}
      /\ UNCHANGED <<lists, bits, last, next, now, guessed, stuck>>
  BY DEF Complete
<1>2. t \notin Queued
  BY <1>1 DEF LinerInv
<1>3. /\ tm'[t] = [armed |-> FALSE, queued |-> FALSE, expiry |-> 0]
      /\ \A s \in Timers : s # t => tm'[s] = tm[s]
  BY <1>1 DEF Disarmed, LinerInv, LinerTypeOK
<1>4. LinerTypeOK'
  <2>1. [armed |-> FALSE, queued |-> FALSE, expiry |-> 0]
           \in [armed : BOOLEAN, queued : BOOLEAN, expiry : 0..Horizon]
    BY TimeLinerAssumption
  <2> QED
    BY <1>1, <2>1 DEF LinerInv, LinerTypeOK, Disarmed
<1>5. Queued' = Queued
  BY <1>1 DEF Queued
<1>6. \A i \in Indices : \A s \in lists'[i] : tm'[s].queued /\ i = GetIndex(last', tm'[s].expiry)
  <2> SUFFICES ASSUME NEW i \in Indices, NEW s \in lists'[i]
               PROVE  tm'[s].queued /\ i = GetIndex(last', tm'[s].expiry)
    OBVIOUS
  <2>1. s \in lists[i] /\ s # t
    BY <1>1, <1>2, QueuedWhere
  <2>2. s \in Timers /\ tm[s].queued /\ i = GetIndex(last, tm[s].expiry)
    BY <1>1, <2>1 DEF LinerInv, LinerTypeOK, TimersInTheirLists
  <2> QED
    BY <1>1, <1>3, <2>1, <2>2
<1>7. \A s \in Timers : tm'[s].queued <=> (s \in Queued' \/ s \in loose')
  BY <1>1, <1>2, <1>3, <1>5 DEF LinerInv, TimersInTheirLists
<1>8. TimersInTheirLists'
  BY <1>1, <1>6, <1>7 DEF TimersInTheirLists, LinerInv, Running
<1>9. NextIsNotLate'
  <2>1. ASSUME ~guessed', NEW s \in Queued' PROVE next' <= tm'[s].expiry
    <3>1. s \in Queued /\ s # t /\ s \in Timers
      BY <1>1, <1>2, <1>5, <2>1, QueuedWhere
    <3> QED
      BY <1>1, <1>3, <2>1, <3>1 DEF LinerInv, NextIsNotLate
  <2> QED
    BY <2>1 DEF NextIsNotLate
<1>10. \A s \in Timers : (tm'[s].queued => tm'[s].armed) /\ ~(s \in Queued' /\ s \in loose')
  BY <1>1, <1>2, <1>3, <1>5 DEF LinerInv
<1> QED
  BY <1>4, <1>8, <1>9, <1>10 DEF LinerInv

(* clear() empties the lists and tells nobody.                             *)
LEMMA ClearListsKeeps == ASSUME LinerInv, ClearLists PROVE LinerInv'
<1>1. /\ Running /\ lists' = [i \in Indices |-> IF i \in bits THEN {} ELSE lists[i]]
      /\ bits' = {} /\ loose' = loose \cup Queued
      /\ UNCHANGED <<last, next, now, tm, guessed, stuck>>
  BY DEF ClearLists
<1>2. \A i \in Indices : lists'[i] = {}
  BY <1>1 DEF LinerInv, TimersInTheirLists
<1>3. Queued' = {}
  BY <1>2 DEF Queued
<1>4. LinerTypeOK'
  <2>1. Queued \subseteq Timers
    BY <1>1, QueuedWhere
  <2> QED
    BY <1>1, <2>1 DEF LinerInv, LinerTypeOK
<1>5. TimersInTheirLists'
  <2>1. \A s \in Timers : tm'[s].queued <=> (s \in Queued' \/ s \in loose')
    BY <1>1, <1>3 DEF LinerInv, TimersInTheirLists
  <2>2. Running' /\ stuck' = "no"
    BY <1>1 DEF Running
  <2> QED
    BY <1>1, <1>2, <2>1, <2>2 DEF TimersInTheirLists
<1> QED
  BY <1>1, <1>3, <1>4, <1>5 DEF LinerInv, NextIsNotLate

(* expire() at the time of the last call never ends if it has to insert a  *)
(* timer into the list it is emptying: nothing else of it is done.         *)
LEMMA ExpireLoops == ASSUME LinerInv, Expire, LoopsAt(now) PROVE LinerInv'
<1>1. stuck' = "loop" /\ UNCHANGED <<lists, bits, last, next, loose, guessed, now, tm>>
  BY DEF Expire
<1> QED
  BY <1>1 DEF LinerInv, LinerTypeOK, TimersInTheirLists, NextIsNotLate, Running

(* What expire() leaves in the lists when it ends: what was there and is   *)
(* not due, each timer in the list that its new base gives.                *)
LEMMA ExpireLeaves ==
    ASSUME LinerInv, Expire, ~LoopsAt(now)
    PROVE  /\ lists' \in [Indices -> SUBSET Timers]
           /\ \A i \in Indices : \A t \in lists'[i] :
                 t \in Queued /\ tm[t].expiry > now /\ i = GetIndex(now, tm[t].expiry)
           /\ Queued' = Queued \ ExpiredAt(now)
           /\ bits' = {i \in Indices : lists'[i] # {}}
<1>1. /\ Running /\ lists' = ListsAfter(now) /\ bits' = BitsAfter(now)
  BY DEF Expire
<1> DEFINE time == now
           o == OwnIndex(now)
<1>2. /\ now \in last..Horizon /\ now \in Nat /\ o \in Indices /\ o \in Int
      /\ \A i \in Indices : i \in Int
  <2>1. last \in Timestamps /\ now \in Timestamps /\ now \in last..Horizon /\ now \in Nat
    BY TimesAre, TimeLinerAssumption DEF LinerInv, LinerTypeOK
  <2>2. o \in Indices
    BY <2>1, DueList DEF OwnIndex
  <2>3. \A i \in Indices : i \in Int
    BY DEF Indices
  <2> QED
    BY <2>1, <2>2, <2>3
<1>3. bits = {i \in Indices : lists[i] # {}}
  BY <1>1 DEF LinerInv, TimersInTheirLists
<1> HIDE DEF o, time
<1>4. ExpiredAt(now) = {t \in Queued : tm[t].expiry <= now}
  BY <1>1, <1>2, TakesTheDue
<1>5. /\ \A t \in Rest(now) : t \in lists[o] /\ ~(tm[t].expiry <= now)
      /\ \A t \in lists[o] : ~(tm[t].expiry <= now) => t \in Rest(now)
  BY DEF Rest, OwnDue, o
<1>6. ASSUME NEW t \in Rest(now)
      PROVE  /\ t \in Queued /\ tm[t].expiry > now
             /\ GetIndex(now, tm[t].expiry) \in Indices /\ GetIndex(now, tm[t].expiry) # o
  <2>1. t \in Queued /\ tm[t].expiry \in Timestamps
    BY <1>1, <1>2, <1>5, QueuedWhere
  <2>2. GetIndex(now, tm[t].expiry) \in Indices
    <3>1. now \in Timestamps
      BY TimesAre DEF LinerInv, LinerTypeOK
    <3> QED
      BY <2>1, <3>1, DueList
  <2>3. GetIndex(now, tm[t].expiry) # o
    BY DEF LoopsAt, o
  <2>4. tm[t].expiry \in Nat /\ ~(tm[t].expiry <= now)
    BY <1>5, <2>1, TimesAre
  <2>5. tm[t].expiry > now
    BY <1>2, <2>4
  <2> QED
    BY <2>1, <2>2, <2>3, <2>5
<1>7. ASSUME NEW i \in Indices
      PROVE  lists'[i] = (IF (i \in bits /\ i > o) \/ i = o THEN {} ELSE lists[i])
                            \cup {t \in Rest(now) : GetIndex(now, tm[t].expiry) = i}
  BY <1>1 DEF ListsAfter, Right, o
<1>8. ASSUME NEW i \in Indices, NEW t \in lists'[i]
      PROVE  t \in Queued /\ tm[t].expiry > now /\ i = GetIndex(now, tm[t].expiry)
  <2>1. CASE t \in Rest(now) /\ GetIndex(now, tm[t].expiry) = i
    BY <1>6, <2>1
  <2>2. CASE ~(t \in Rest(now) /\ GetIndex(now, tm[t].expiry) = i)
    <3>1. t \in lists[i] /\ ~(i \in bits /\ i > o) /\ i # o
      BY <1>7, <2>2
    <3>2. i \in bits
      BY <1>3, <3>1
    <3>3. i < o
      BY <1>2, <3>1, <3>2
    <3>4. t \in Queued /\ i = GetIndex(last, tm[t].expiry) /\ tm[t].expiry \in Timestamps
      BY <1>1, <3>1, QueuedWhere
    <3>5. PICK e : e = tm[t].expiry
      OBVIOUS
    <3>6. now < e /\ GetIndex(now, e) = i
      BY <1>1, <1>2, <3>3, <3>4, <3>5, TimerStandsAt DEF o
    <3> QED
      BY <1>2, <3>4, <3>5, <3>6, TimesAre
  <2> QED
    BY <2>1, <2>2
<1>9. Queued' = Queued \ ExpiredAt(now)
  <2>1. ASSUME NEW t \in Queued' PROVE t \in Queued \ ExpiredAt(now)
    <3>1. PICK i \in Indices : t \in lists'[i]
      BY DEF Queued
    <3>2. t \in Queued /\ tm[t].expiry > now
      BY <1>8, <3>1
    <3>3. tm[t].expiry \in Nat
      BY <1>1, <3>2, QueuedWhere, TimesAre
    <3> QED
      BY <1>2, <1>4, <3>2, <3>3
  <2>2. ASSUME NEW t \in Queued, t \notin ExpiredAt(now) PROVE t \in Queued'
    <3>1. PICK e, p : e = tm[t].expiry /\ p = GetIndex(last, e)
      OBVIOUS
    <3>2. p \in Indices /\ t \in lists[p] /\ e \in Timestamps /\ ~(e <= now)
      BY <1>1, <1>4, <2>2, <3>1, QueuedWhere
    <3>3. ~(p > o)
      BY <1>1, <1>2, <3>1, <3>2, TimerStandsAt DEF o
    <3>4. CASE p = o
      <4>1. t \in Rest(now)
        BY <1>5, <3>1, <3>2, <3>4
      <4>2. PICK k \in Indices : k = GetIndex(now, tm[t].expiry)
        BY <1>6, <4>1
      <4>3. t \in lists'[k]
        BY <1>7, <4>1, <4>2
      <4> QED
        BY <4>3 DEF Queued
    <3>5. CASE p # o
      <4>1. t \in lists'[p]
        BY <1>7, <3>2, <3>3, <3>5
      <4> QED
        BY <3>2, <4>1 DEF Queued
    <3> QED
      BY <3>4, <3>5
  <2> QED
    BY <2>1, <2>2
<1>10. bits' = {i \in Indices : lists'[i] # {}}
  <2>0. bits' = (bits \ ({i \in bits : i > o} \cup {o}))
                   \cup {GetIndex(now, tm[t].expiry) : t \in Rest(now)}
    BY <1>1 DEF BitsAfter, Right, o
  <2>1. ASSUME NEW i \in bits' PROVE i \in Indices /\ lists'[i] # {}
    <3>1. CASE i \in bits /\ ~(i > o) /\ i # o
      <4>1. i \in Indices /\ lists[i] # {}
        BY <1>3, <3>1
      <4>2. lists[i] \subseteq lists'[i]
        BY <1>7, <3>1, <4>1
      <4> QED
        BY <4>1, <4>2
    <3>2. CASE ~(i \in bits /\ ~(i > o) /\ i # o)
      <4>1. PICK t \in Rest(now) : i = GetIndex(now, tm[t].expiry)
        BY <2>0, <3>2
      <4>2. i \in Indices
        BY <1>6, <4>1
      <4>3. t \in lists'[i]
        BY <1>7, <4>1, <4>2
      <4> QED
        BY <4>2, <4>3
    <3> QED
      BY <3>1, <3>2
  <2>2. ASSUME NEW i \in Indices, lists'[i] # {} PROVE i \in bits'
    <3>1. PICK t : t \in lists'[i]
      BY <2>2
    <3>2. CASE t \in Rest(now) /\ GetIndex(now, tm[t].expiry) = i
      BY <2>0, <3>2
    <3>3. CASE ~(t \in Rest(now) /\ GetIndex(now, tm[t].expiry) = i)
      <4>1. t \in lists[i] /\ ~(i \in bits /\ i > o) /\ i # o
        BY <1>7, <3>1, <3>3
      <4>2. i \in bits
        BY <1>3, <4>1
      <4> QED
        BY <2>0, <4>1, <4>2
    <3> QED
      BY <3>2, <3>3
  <2> QED
    BY <2>1, <2>2
<1>11. lists' \in [Indices -> SUBSET Timers]
  <2>1. \A i \in Indices : lists'[i] \in SUBSET Timers
    BY <1>1, <1>8, QueuedWhere
  <2>2. lists' = [i \in Indices |-> lists'[i]]
    BY <1>1 DEF ListsAfter
  <2> QED
    BY <2>1, <2>2
<1> QED
  BY <1>8, <1>9, <1>10, <1>11

(* The time of the next call: the first of the timers that expire() has    *)
(* inserted again, and every other one that it left is later than these.   *)
LEMMA ExpireAsksInTime ==
    ASSUME LinerInv, Expire, ~LoopsAt(now)
    PROVE  /\ next' \in Timestamps
           /\ ~guessed' => \A t \in Queued' : next' <= tm[t].expiry
<1>1. /\ Running /\ lists' = ListsAfter(now) /\ bits' = BitsAfter(now) /\ next' = NextAfter(now)
      /\ guessed' = (Rest(now) = {} /\ BitsAfter(now) # {})
  BY DEF Expire
<1>2. PICK o \in Indices : o = OwnIndex(now)
  BY TimesAre, DueList DEF LinerInv, LinerTypeOK, OwnIndex
<1>3. now \in last..Horizon /\ now \in Nat /\ last \in Timestamps /\ last \in Nat /\ last <= now
  BY TimesAre, TimeLinerAssumption DEF LinerInv, LinerTypeOK
<1>4. Rest(now) \subseteq Queued /\ \A t \in Rest(now) : t \in lists[o] /\ ~(tm[t].expiry <= now)
  BY <1>1, <1>2, QueuedWhere DEF Rest, OwnDue
<1>5. CASE Rest(now) # {}
  <2> DEFINE S == Expiries(Rest(now))
  <2>1. S \in SUBSET Timestamps /\ S # {}
    BY <1>1, <1>4, <1>5, QueuedWhere DEF Expiries
  <2>2. next' = Min(S)
    BY <1>1, <1>5 DEF NextAfter
  <2>3. next' \in S /\ \A x \in S : next' <= x
    <3> HIDE DEF S
    <3> QED
      BY <2>1, <2>2, MinIs
  <2>4. PICK r \in Rest(now) : next' = tm[r].expiry
    BY <2>3 DEF Expiries
  <2>5. r \in Queued /\ next' \in Timestamps /\ o = GetIndex(last, next') /\ r \in lists[o]
    BY <1>1, <1>2, <1>4, <2>4, QueuedWhere
  <2>6. last < next'
    BY <1>3, <1>4, <2>4, <2>5, TimesAre
  <2>7. ASSUME NEW t \in Queued' PROVE next' <= tm[t].expiry
    <3>1. t \in Queued /\ t \notin ExpiredAt(now)
      BY <2>7, ExpireLeaves
    <3>2. PICK e, p : e = tm[t].expiry /\ p = GetIndex(last, e)
      OBVIOUS
    <3>3. p \in Indices /\ t \in lists[p] /\ e \in Timestamps /\ e \in Nat /\ next' \in Nat
      BY <1>1, <2>5, <3>1, <3>2, QueuedWhere, TimesAre
    <3>4. ~(e <= now)
      BY <1>1, <1>3, <3>1, <3>2, TakesTheDue
    <3>5. ~(p > o)
      BY <1>1, <1>2, <1>3, <3>1, <3>2, <3>4, TimerStandsAt
    <3>6. CASE p = o
      <4>1. t \in Rest(now)
        BY <1>2, <3>2, <3>3, <3>4, <3>6 DEF Rest, OwnDue
      <4> QED
        BY <2>3, <4>1 DEF Expiries
    <3>7. CASE p # o
      <4>1. p < o
        BY <3>3, <3>5, <3>7, TimesAre DEF Indices
      <4>2. next' < e
        BY <1>3, <2>5, <2>6, <3>2, <3>3, <4>1, FurtherLeft
      <4> QED
        BY <3>2, <3>3, <4>2
    <3> QED
      BY <3>6, <3>7
  <2> QED
    BY <2>5, <2>7
<1>6. CASE Rest(now) = {} /\ BitsAfter(now) = {}
  <2>1. next' = MaxTs
    BY <1>1, <1>6 DEF NextAfter
  <2>2. Queued' = {}
    BY <1>1, <1>6, ExpireLeaves DEF Queued
  <2> QED
    BY <2>1, <2>2, TimesAre
<1>7. CASE Rest(now) = {} /\ BitsAfter(now) # {}
  <2> DEFINE other == GetLastNonEmptyIndex(BitsAfter(now))
             S == {MaxTs} \cup Expiries(ListsAfter(now)[other])
  <2>1. next' = Min(S)
    BY <1>1, <1>7 DEF NextAfter
  <2>2. S \in SUBSET Timestamps
    <3>1. BitsAfter(now) = {i \in Indices : lists'[i] # {}} /\ lists' = ListsAfter(now)
      BY <1>1, ExpireLeaves
    <3>2. BitsAfter(now) \in SUBSET (0..Digits) /\ Digits \in Nat
      BY <3>1, TimesAre DEF Indices
    <3>3. PICK m \in BitsAfter(now) : \A j \in BitsAfter(now) : j <= m
      BY <1>7, <3>2, Largest
    <3>4. \E i \in BitsAfter(now) : \A j \in BitsAfter(now) : i >= j
      BY <3>2, <3>3
    <3>5. PICK x : x = Max(BitsAfter(now)) /\ x \in BitsAfter(now)
      BY <3>4 DEF Max
    <3>6. PICK t : t \in lists'[x] /\ x \in Indices
      BY <3>1, <3>5
    <3>7. t \in Queued /\ x = GetIndex(now, tm[t].expiry)
      BY <3>6, ExpireLeaves
    <3>8. x > 0
      <4>1. tm[t].expiry \in Timestamps /\ now \in Timestamps
        BY <1>1, <3>7, QueuedWhere, TimesAre DEF LinerInv, LinerTypeOK
      <4> QED
        BY <3>7, <4>1, DueList
    <3>9. x - 1 \in Indices
      BY <3>2, <3>6, <3>8 DEF Indices
    <3>10. \A s \in lists'[x - 1] : tm[s].expiry \in Timestamps
      BY <1>1, <3>9, ExpireLeaves, QueuedWhere
    <3>11. ListsAfter(now)[other] = lists'[x - 1]
      BY <3>1, <3>5 DEF GetLastNonEmptyIndex
    <3>12. Expiries(lists'[x - 1]) \subseteq Timestamps
      BY <3>10 DEF Expiries
    <3>13. S = {MaxTs} \cup Expiries(lists'[x - 1])
      BY <3>11
    <3>14. {MaxTs} \subseteq Timestamps
      BY TimesAre
    <3>15. {MaxTs} \cup Expiries(lists'[x - 1]) \subseteq Timestamps
      BY <3>12, <3>14
    <3> HIDE DEF S
    <3>16. S \subseteq Timestamps
      BY <3>13, <3>15
    <3> QED
      BY <3>16
  <2>3. next' \in Timestamps
    <3>1. S # {}
      OBVIOUS
    <3> HIDE DEF S
    <3> QED
      BY <2>1, <2>2, <3>1, MinIs
  <2> QED
    BY <1>1, <1>7, <2>3
<1> QED
  BY <1>5, <1>6, <1>7

(* expire() that ends: the lists are those of the new base.                *)
LEMMA ExpireEnds == ASSUME LinerInv, Expire, ~LoopsAt(now) PROVE LinerInv'
<1>1. /\ Running /\ last' = now /\ loose' = loose \cup ExpiredAt(now) /\ stuck' = "no"
      /\ guessed' = (Rest(now) = {} /\ BitsAfter(now) # {}) /\ UNCHANGED <<now, tm>>
  BY DEF Expire, Running
<1>2. Queued' = Queued \ ExpiredAt(now) /\ bits' = {i \in Indices : lists'[i] # {}}
  BY ExpireLeaves
<1>3. ExpiredAt(now) \subseteq Queued /\ Queued \subseteq Timers
  <2>1. now \in last..Horizon
    BY TimeLinerAssumption DEF LinerInv, LinerTypeOK
  <2> QED
    BY <1>1, <2>1, TakesTheDue, QueuedWhere
<1>4. LinerTypeOK'
  <2>1. lists' \in [Indices -> SUBSET Timers] /\ bits' \in SUBSET Indices /\ next' \in Timestamps
    BY <1>2, ExpireLeaves, ExpireAsksInTime
  <2>2. last' <= now'
    BY <1>1, TimeLinerAssumption DEF LinerInv, LinerTypeOK
  <2>3. guessed' \in BOOLEAN
    BY <1>1
  <2> QED
    BY <1>1, <1>3, <2>1, <2>2, <2>3 DEF LinerInv, LinerTypeOK
<1>5. TimersInTheirLists'
  <2>1. \A i \in Indices : \A t \in lists'[i] : tm'[t].queued /\ i = GetIndex(last', tm'[t].expiry)
    <3>1. \A t \in Queued : tm[t].queued
      BY <1>1, QueuedWhere
    <3> QED
      BY <1>1, <3>1, ExpireLeaves
  <2>2. \A t \in Timers : tm'[t].queued <=> (t \in Queued' \/ t \in loose')
    BY <1>1, <1>2, <1>3 DEF LinerInv, TimersInTheirLists
  <2> QED
    BY <1>1, <1>2, <2>1, <2>2 DEF TimersInTheirLists
<1>6. NextIsNotLate'
  <2>1. ASSUME ~guessed', NEW t \in Queued' PROVE next' <= tm'[t].expiry
    BY <1>1, <2>1, ExpireAsksInTime
  <2> QED
    BY <2>1 DEF NextIsNotLate
<1>7. \A t \in Timers : (tm'[t].queued => tm'[t].armed) /\ ~(t \in Queued' /\ t \in loose')
  BY <1>1, <1>2, <1>3 DEF LinerInv
<1> QED
  BY <1>4, <1>5, <1>6, <1>7 DEF LinerInv

(* Each action keeps the invariant.                                        *)
LEMMA LinerSteps == LinerInv /\ [TimeLinerNext]_linevars => LinerInv'
<1> SUFFICES ASSUME LinerInv, [TimeLinerNext]_linevars PROVE LinerInv'
  OBVIOUS
<1>1. CASE UNCHANGED linevars
  BY <1>1 DEF linevars, LinerInv, LinerTypeOK, TimersInTheirLists, NextIsNotLate, Running, Queued
<1>2. CASE Tick
  BY <1>2, TickKeeps
<1>3. CASE Expire
  BY <1>3, ExpireLoops, ExpireEnds
<1>4. CASE ClearLists
  BY <1>4, ClearListsKeeps
<1>5. ASSUME NEW t \in Timers, Arm(t) \/ Cancel(t) \/ Rearm(t) \/ Complete(t) PROVE LinerInv'
  BY <1>5, ArmKeeps, CancelKeeps, RearmKeeps, CompleteKeeps
<1>6. ASSUME NEW t \in Timers, NEW u \in Timers, MoveTimer(t, u) PROVE LinerInv'
  BY <1>6, MoveTimerKeeps
<1> QED
  BY <1>1, <1>2, <1>3, <1>4, <1>5, <1>6 DEF TimeLinerNext

(* No timer is early, late or forgotten, for any timers, any width of a    *)
(* timestamp and any times: each is in the list that its timestamp and the *)
(* present _last give, expire() takes exactly what is due and asks to be   *)
(* called again in time -- with the exceptions that the property names.    *)
THEOREM TimersAreOnTime == TimeLinerSpec => []TimersExpireOnTime
<1>1. TimeLinerInit => LinerInv
  BY LinerStarts
<1>2. LinerInv /\ [TimeLinerNext]_linevars => LinerInv'
  BY LinerSteps
<1>3. LinerInv => TimersExpireOnTime
  <2> SUFFICES ASSUME LinerInv PROVE TimersExpireOnTime
    OBVIOUS
  <2>1. ExpireTakesTheDue
    <3> SUFFICES ASSUME Running, NEW time \in last..Horizon
                 PROVE  /\ ExpiredAt(time) = {t \in Queued : tm[t].expiry <= time}
                        /\ LoopsAt(time) => time = last /\ (time + 1) \in Expiries(Queued)
      BY DEF ExpireTakesTheDue
    <3> QED
      BY TakesTheDue
  <2> QED
    BY <2>1 DEF TimersExpireOnTime, LinerInv
<1> QED
  BY <1>1, <1>2, <1>3, PTL DEF TimeLinerSpec

-----------------------------------------------------------------------------
\* The types of the linked queue.
Blocks == [items : Seq(LItems), beg : Nat, end : Nat]
Chains == [chain : Seq(Blocks), nblock : Nat, nfree : Nat, overrun : BOOLEAN]

LueueTypeOK ==
    /\ lq \in [LQueues -> Chains]
    /\ kept \in [LQueues -> Seq(LItems)]
    /\ moved \in [LQueues -> Nat]

\* Every block but the first starts at its first cell, every block but the
\* last is full to its end, and a block in the chain has an item.
Regular(c) ==
    \A k \in 1..Len(c) :
        /\ c[k].beg < c[k].end /\ c[k].end <= BlockItems
        /\ Len(c[k].items) = c[k].end - c[k].beg
        /\ k > 1 => c[k].beg = 0
        /\ k < Len(c) => c[k].end = BlockItems

\* The sequence s is cut behind its items off[1], off[2], ... into the blocks.
CutAt(off, c, s) ==
    /\ off \in [0..Len(c) -> Nat] /\ off[0] = 0 /\ off[Len(c)] = Len(s)
    /\ \A k \in 1..Len(c) :
          /\ off[k] = off[k - 1] + Len(c[k].items)
          /\ \A j \in 1..Len(c[k].items) : c[k].items[j] = s[off[k - 1] + j]
Cut(c, s) == \E off : CutAt(off, c, s)

QueueOK(r, s, m) ==
    /\ Regular(r.chain) /\ Cut(r.chain, s)
    /\ Len(s) <= MaxHeld
    /\ m = 0 => r.nblock = Len(r.chain)
    /\ r.overrun => Len(r.chain) = 1 /\ r.chain[1].beg > 0

LueueInv == LueueTypeOK /\ \A q \in LQueues : QueueOK(lq[q], kept[q], moved[q])

(* The cuts are in order.                                                  *)
LEMMA CutsGrow ==
    ASSUME NEW c \in Seq(Blocks), NEW s \in Seq(LItems), NEW off,
           CutAt(off, c, s), Regular(c)
    PROVE  \A k \in 0..Len(c) : k <= off[k] /\ off[k] <= Len(s)
<1>0. Len(c) \in Nat /\ Len(s) \in Nat
  BY LenProperties
<1>1. \A k \in 1..Len(c) : off[k] >= off[k - 1] + 1 /\ off[k] \in Nat /\ off[k - 1] \in Nat
  <2> SUFFICES ASSUME NEW k \in 1..Len(c)
               PROVE  off[k] >= off[k - 1] + 1 /\ off[k] \in Nat /\ off[k - 1] \in Nat
    OBVIOUS
  <2>1. c[k] \in Blocks
    BY ElementOfSeq
  <2>2. c[k].beg \in Nat /\ c[k].end \in Nat /\ Len(c[k].items) >= 1 /\ Len(c[k].items) \in Nat
    BY <2>1 DEF Blocks, Regular
  <2>3. k \in 0..Len(c) /\ k - 1 \in 0..Len(c)
    BY <1>0
  <2> QED
    BY <2>2, <2>3 DEF CutAt
<1>2. \A k \in 0..Len(c) : k <= off[k]
  <2> DEFINE S == {k \in 0..Len(c) : ~(k <= off[k])}
  <2> SUFFICES ASSUME S # {} PROVE FALSE
    OBVIOUS
  <2>1. PICK k \in S : \A j \in S : k <= j
    <3>1. S \in SUBSET (0..Len(c))
      OBVIOUS
    <3> HIDE DEF S
    <3> QED
      BY <1>0, <3>1, Least
  <2>2. k # 0
    BY <2>1 DEF CutAt
  <2>3. k \in 1..Len(c) /\ k - 1 \in 0..Len(c) /\ k - 1 < k
    BY <1>0, <2>1, <2>2
  <2>4. k - 1 \notin S
    BY <2>1, <2>3
  <2> QED
    BY <1>1, <2>1, <2>3, <2>4
<1>3. \A k \in 0..Len(c) : off[k] <= Len(s)
  <2> DEFINE S == {i \in 0..Len(c) : ~(off[Len(c) - i] <= Len(s))}
  <2>0. S = {}
    <3> SUFFICES ASSUME S # {} PROVE FALSE
      OBVIOUS
    <3>1. PICK i \in S : \A j \in S : i <= j
      <4>1. S \in SUBSET (0..Len(c))
        OBVIOUS
      <4> HIDE DEF S
      <4> QED
        BY <1>0, <4>1, Least
    <3>2. i # 0
      BY <1>0, <3>1 DEF CutAt
    <3>3. i - 1 \in 0..Len(c) /\ i - 1 < i /\ Len(c) - (i - 1) \in 1..Len(c)
          /\ (Len(c) - (i - 1)) - 1 = Len(c) - i
      BY <1>0, <3>1, <3>2
    <3>4. i - 1 \notin S
      BY <3>1, <3>3
    <3>5. off[Len(c) - (i - 1)] <= Len(s) /\ ~(off[Len(c) - i] <= Len(s))
      BY <3>1, <3>3, <3>4
    <3> DEFINE k == Len(c) - (i - 1)
    <3>6. k \in 1..Len(c) /\ k - 1 = Len(c) - i
      BY <3>3
    <3>7. off[k] >= off[k - 1] + 1 /\ off[k] \in Nat /\ off[k - 1] \in Nat
      <4> HIDE DEF k
      <4> QED
        BY <1>1, <3>6
    <3>8. off[k] <= Len(s) /\ ~(off[k - 1] <= Len(s))
      BY <3>5, <3>6
    <3> HIDE DEF k
    <3> QED
      BY <1>0, <3>7, <3>8
  <2> SUFFICES ASSUME NEW k \in 0..Len(c) PROVE off[k] <= Len(s)
    OBVIOUS
  <2>1. Len(c) - k \in 0..Len(c) /\ Len(c) - (Len(c) - k) = k
    BY <1>0
  <2> QED
    BY <2>0, <2>1
<1> QED
  BY <1>2, <1>3

(* A sequence that is cut into the blocks is what the blocks hold.         *)
LEMMA CutIsFlat ==
    ASSUME NEW c \in Seq(Blocks), NEW s \in Seq(LItems), Regular(c), Cut(c, s)
    PROVE  FlattenSeq([k \in DOMAIN c |-> c[k].items]) = s
<1> DEFINE parts == [k \in DOMAIN c |-> c[k].items]
           n == Len(c)
<1>0. /\ n \in Nat /\ Len(s) \in Nat /\ DOMAIN c = 1..n
      /\ \A k \in 1..n : c[k] \in Blocks /\ parts[k] = c[k].items /\ parts[k] \in Seq(LItems)
  <2>1. n \in Nat /\ Len(s) \in Nat /\ DOMAIN c = 1..n
    BY LenProperties
  <2>2. \A k \in 1..n : c[k] \in Blocks
    BY ElementOfSeq
  <2> QED
    BY <2>1, <2>2 DEF Blocks
<1>1. parts \in Seq(Seq(LItems)) /\ Len(parts) = n
  <2>1. parts \in [1..n -> Seq(LItems)]
    BY <1>0
  <2> HIDE DEF parts
  <2>2. n \in Nat
    BY <1>0
  <2> HIDE DEF n
  <2> QED
    BY <2>1, <2>2
<1>2. PICK off : CutAt(off, c, s)
  BY DEF Cut
<1>3. \A k \in 0..n : k <= off[k] /\ off[k] <= Len(s) /\ off[k] \in Nat
  <2>1. \A k \in 0..n : off[k] \in Nat
    BY <1>2 DEF CutAt
  <2> QED
    BY <1>2, <2>1, CutsGrow
<1>4. CASE n = 0
  <2>1. s = <<>> /\ parts = <<>>
    BY <1>0, <1>1, <1>2, <1>4, EmptySeq DEF CutAt
  <2> QED
    BY <1>1, <1>4, <2>1 DEF FlattenSeq
<1>5. CASE n # 0
  <2> DEFINE Body(f) == [i \in 1..n |-> IF i = 1 THEN parts[i] ELSE f[i - 1] \o parts[i]]
             g == [i \in 1..n |-> SubSeq(s, 1, off[i])]
             flat == CHOOSE f : f = Body(f)
  <2>1. \A i \in 1..n : /\ SubSeq(s, 1, off[i]) \in Seq(LItems)
                        /\ Len(SubSeq(s, 1, off[i])) = off[i]
                        /\ \A j \in 1..off[i] : SubSeq(s, 1, off[i])[j] = s[j]
    <3> SUFFICES ASSUME NEW i \in 1..n
                 PROVE  /\ SubSeq(s, 1, off[i]) \in Seq(LItems)
                        /\ Len(SubSeq(s, 1, off[i])) = off[i]
                        /\ \A j \in 1..off[i] : SubSeq(s, 1, off[i])[j] = s[j]
      OBVIOUS
    <3>1. off[i] \in Nat /\ off[i] <= Len(s)
      BY <1>0, <1>3
    <3>2. \A j \in 1..off[i] : s[j] \in LItems
      BY <1>0, <3>1, ElementOfSeq
    <3> QED
      BY <3>1, <3>2, SubSeqProperties
  <2>2. SubSeq(s, 1, off[1]) = parts[1]
    <3>1. 1 \in 1..n /\ 0 \in 0..n
      BY <1>0, <1>5
    <3>2. off[1] = Len(parts[1]) /\ \A j \in 1..Len(parts[1]) : parts[1][j] = s[j]
      BY <1>0, <1>2, <1>3, <3>1 DEF CutAt
    <3> HIDE DEF parts, n
    <3> QED
      BY <1>0, <2>1, <3>1, <3>2, SeqEqual
  <2>3. ASSUME NEW i \in 1..n, i # 1
        PROVE  SubSeq(s, 1, off[i]) = SubSeq(s, 1, off[i - 1]) \o parts[i]
    <3>1. i - 1 \in 1..n /\ i - 1 \in 0..n /\ i \in 0..n
      BY <1>0, <2>3
    <3>2. off[i] = off[i - 1] + Len(parts[i]) /\ \A j \in 1..Len(parts[i]) : parts[i][j] = s[off[i - 1] + j]
      BY <1>0, <1>2 DEF CutAt
    <3> DEFINE a == SubSeq(s, 1, off[i - 1])
               b == SubSeq(s, 1, off[i])
    <3>3. /\ a \in Seq(LItems) /\ Len(a) = off[i - 1] /\ \A j \in 1..off[i - 1] : a[j] = s[j]
          /\ b \in Seq(LItems) /\ Len(b) = off[i] /\ \A j \in 1..off[i] : b[j] = s[j]
      BY <2>1, <3>1
    <3>4. off[i] \in Nat /\ off[i - 1] \in Nat /\ parts[i] \in Seq(LItems) /\ Len(parts[i]) \in Nat
      BY <1>0, <1>3, <3>1, LenProperties
    <3> HIDE DEF a, b, parts, n
    <3>5. /\ a \o parts[i] \in Seq(LItems) /\ Len(a \o parts[i]) = off[i]
          /\ \A j \in 1..off[i] : (a \o parts[i])[j] =
                IF j <= off[i - 1] THEN a[j] ELSE parts[i][j - off[i - 1]]
      <4>1. /\ a \o parts[i] \in Seq(LItems) /\ Len(a \o parts[i]) = Len(a) + Len(parts[i])
            /\ \A j \in 1..Len(a) + Len(parts[i]) : (a \o parts[i])[j] =
                  IF j <= Len(a) THEN a[j] ELSE parts[i][j - Len(a)]
        BY <3>3, <3>4, ConcatProperties
      <4> QED
        BY <3>2, <3>3, <4>1
    <3>6. ASSUME NEW j \in 1..off[i] PROVE b[j] = (a \o parts[i])[j]
      <4>1. CASE j <= off[i - 1]
        BY <3>3, <3>4, <3>5, <4>1
      <4>2. CASE ~(j <= off[i - 1])
        <5>1. j - off[i - 1] \in 1..Len(parts[i]) /\ off[i - 1] + (j - off[i - 1]) = j
          BY <3>2, <3>4, <4>2
        <5> QED
          BY <3>2, <3>3, <3>5, <4>2, <5>1
      <4> QED
        BY <4>1, <4>2
    <3>7. b = a \o parts[i]
      BY <3>3, <3>5, <3>6, SeqEqual
    <3> QED
      BY <3>7 DEF a, b
  <2>4. g = Body(g)
    <3>1. ASSUME NEW i \in 1..n
          PROVE  g[i] = IF i = 1 THEN parts[i] ELSE g[i - 1] \o parts[i]
      <4>1. CASE i = 1
        BY <2>2, <4>1
      <4>2. CASE i # 1
        <5>1. i - 1 \in 1..n
          BY <1>0, <4>2
        <5> HIDE DEF parts
        <5> QED
          BY <2>3, <4>2, <5>1
      <4> QED
        BY <4>1, <4>2
    <3> HIDE DEF parts
    <3> QED
      BY <3>1
  <2>5. flat = Body(flat)
    <3> HIDE DEF g, Body
    <3> QED
      BY <2>4
  <2>6. \A i \in 1..n : flat[i] = IF i = 1 THEN parts[i] ELSE flat[i - 1] \o parts[i]
    <3> HIDE DEF flat, parts, n
    <3> QED
      BY <2>5
  <2>7. \A i \in 1..n : flat[i] = SubSeq(s, 1, off[i])
    <3> HIDE DEF flat, parts
    <3> DEFINE S == {i \in 0..n : i # 0 /\ flat[i] # SubSeq(s, 1, off[i])}
    <3> SUFFICES ASSUME S # {} PROVE FALSE
      BY <1>0
    <3>1. PICK i \in S : \A j \in S : i <= j
      <4>1. S \in SUBSET (0..n)
        OBVIOUS
      <4> HIDE DEF S
      <4> QED
        BY <1>0, <4>1, Least
    <3>2. i \in 1..n /\ flat[i] # SubSeq(s, 1, off[i])
      BY <1>0, <3>1
    <3>3. CASE i = 1
      BY <2>2, <2>6, <3>2, <3>3
    <3>4. CASE i # 1
      <4>1. i - 1 \in 0..n /\ i - 1 # 0 /\ i - 1 < i
        BY <1>0, <3>2, <3>4
      <4>2. i - 1 \notin S
        BY <3>1, <4>1
      <4>3. flat[i - 1] = SubSeq(s, 1, off[i - 1])
        BY <4>1, <4>2
      <4> QED
        BY <2>3, <2>6, <3>2, <3>4, <4>3
    <3> QED
      BY <3>3, <3>4
  <2>8. FlattenSeq(parts) = flat[n]
    <3> HIDE DEF parts, n
    <3> QED
      BY <1>1, <1>5 DEF FlattenSeq
  <2>9. n \in 1..n /\ off[n] = Len(s)
    BY <1>0, <1>2, <1>5 DEF CutAt
  <2>10. SubSeq(s, 1, Len(s)) = s
    BY SubSeqFull
  <2> HIDE DEF flat, parts, n
  <2> QED
    BY <2>7, <2>8, <2>9, <2>10 DEF parts
<1> QED
  BY <1>4, <1>5

(* What a block of a regular chain is.                                     *)
LEMMA BlockIs ==
    ASSUME NEW c \in Seq(Blocks), Regular(c), NEW k \in 1..Len(c)
    PROVE  /\ c[k] \in Blocks /\ c[k].items \in Seq(LItems)
           /\ c[k].beg \in Nat /\ c[k].end \in Nat /\ Len(c[k].items) \in Nat
           /\ c[k].beg < c[k].end /\ c[k].end <= BlockItems
           /\ Len(c[k].items) = c[k].end - c[k].beg
           /\ k > 1 => c[k].beg = 0
           /\ k < Len(c) => c[k].end = BlockItems
<1>1. c[k] \in Blocks
  BY ElementOfSeq
<1>2. c[k].items \in Seq(LItems) /\ c[k].beg \in Nat /\ c[k].end \in Nat
  BY <1>1 DEF Blocks
<1>3. Len(c[k].items) \in Nat
  BY <1>2, LenProperties
<1> QED
  BY <1>1, <1>2, <1>3 DEF Regular

(* A new block with one item, behind blocks that are full to their end.    *)
LEMMA ChainGrows ==
    ASSUME NEW c \in Seq(Blocks), NEW s \in Seq(LItems), Regular(c), Cut(c, s),
           NEW v \in LItems,
           c # <<>> => c[Len(c)].end = BlockItems
    PROVE  LET d == Append(c, [items |-> <<v>>, beg |-> 0, end |-> 1])
           IN  d \in Seq(Blocks) /\ Regular(d) /\ Cut(d, Append(s, v))
<1> DEFINE b == [items |-> <<v>>, beg |-> 0, end |-> 1]
           d == Append(c, b)
           n == Len(c)
           t == Append(s, v)
<1>1. /\ b \in Blocks /\ b.beg = 0 /\ b.end = 1 /\ Len(b.items) = 1 /\ b.items[1] = v
  BY DEF Blocks
<1>2. /\ n \in Nat /\ Len(d) = n + 1 /\ d \in Seq(Blocks) /\ d[n + 1] = b
      /\ \A k \in 1..n : d[k] = c[k]
  <2> HIDE DEF b
  <2> QED
    BY <1>1, AppendProperties, LenProperties
<1>3. /\ Len(s) \in Nat /\ t \in Seq(LItems) /\ Len(t) = Len(s) + 1 /\ t[Len(s) + 1] = v
      /\ \A j \in 1..Len(s) : t[j] = s[j]
  BY AppendProperties, LenProperties
<1>4. BlockItems \in Nat \ {0}
  BY LueueAssumption
<1>5. Regular(d)
  <2> SUFFICES ASSUME NEW k \in 1..n + 1
               PROVE  /\ d[k].beg < d[k].end /\ d[k].end <= BlockItems
                      /\ Len(d[k].items) = d[k].end - d[k].beg
                      /\ k > 1 => d[k].beg = 0
                      /\ k < n + 1 => d[k].end = BlockItems
    <3> HIDE DEF d, n
    <3> QED
      BY <1>2 DEF Regular
  <2> HIDE DEF b, d
  <2>1. CASE k = n + 1
    <3>1. d[k].beg = 0 /\ d[k].end = 1 /\ Len(d[k].items) = 1
      BY <1>1, <1>2, <2>1
    <3>2. 1 <= BlockItems /\ ~(k < n + 1)
      BY <1>2, <1>4, <2>1
    <3> QED
      BY <3>1, <3>2
  <2>2. CASE k # n + 1
    <3>1. k \in 1..n /\ d[k] = c[k] /\ c # <<>>
      BY <1>2, <2>2, EmptySeq
    <3>2. k < n \/ k = n
      BY <3>1, <1>2
    <3> QED
      BY <1>2, <3>1, <3>2, BlockIs
  <2> QED
    BY <2>1, <2>2
<1>6. PICK off : CutAt(off, c, s)
  BY DEF Cut
<1> DEFINE g == [k \in 0..n + 1 |-> IF k = n + 1 THEN Len(s) + 1 ELSE off[k]]
<1>7. CutAt(g, d, t)
  <2> HIDE DEF b, d, t
  <2>1. off \in [0..n -> Nat] /\ off[0] = 0 /\ off[n] = Len(s)
    BY <1>6 DEF CutAt
  <2>2. g \in [0..n + 1 -> Nat] /\ g[0] = 0 /\ g[n + 1] = Len(t)
        /\ (\A k \in 0..n : g[k] = off[k])
    <3> HIDE DEF n
    <3>1. \A k \in 0..n + 1 : k = n + 1 \/ k \in 0..n
      BY <1>2
    <3>2. 0 \in 0..n + 1 /\ 0 # n + 1 /\ n + 1 \in 0..n + 1
      BY <1>2
    <3> QED
      BY <1>2, <1>3, <2>1, <3>1, <3>2
  <2> HIDE DEF g
  <2>3. ASSUME NEW k \in 1..n + 1
        PROVE  /\ g[k] = g[k - 1] + Len(d[k].items)
               /\ \A j \in 1..Len(d[k].items) : d[k].items[j] = t[g[k - 1] + j]
    <3>1. CASE k = n + 1
      <4>1. k - 1 = n /\ n \in 0..n
        BY <1>2, <3>1
      <4>2. g[k] = Len(s) + 1 /\ g[k - 1] = Len(s) /\ Len(d[k].items) = 1 /\ d[k].items[1] = v
        BY <1>1, <1>2, <1>3, <2>1, <2>2, <3>1, <4>1
      <4> HIDE DEF n
      <4>3. \A j \in 1..1 : j = 1
        OBVIOUS
      <4> QED
        BY <1>3, <4>2, <4>3
    <3>2. CASE k # n + 1
      <4>1. k \in 1..n /\ k \in 0..n /\ k - 1 \in 0..n
        BY <1>2, <3>2
      <4>2. /\ off[k] = off[k - 1] + Len(c[k].items)
            /\ \A j \in 1..Len(c[k].items) : c[k].items[j] = s[off[k - 1] + j]
        BY <1>6, <4>1 DEF CutAt
      <4>3. off[k] <= Len(s) /\ off[k - 1] \in Nat /\ Len(c[k].items) \in Nat
        BY <1>6, <2>1, <4>1, CutsGrow, BlockIs
      <4>4. \A j \in 1..Len(c[k].items) : off[k - 1] + j \in 1..Len(s)
        BY SMTT(30), <1>3, <4>2, <4>3
      <4> HIDE DEF n
      <4> QED
        BY <1>2, <1>3, <2>2, <4>1, <4>2, <4>4
    <3> QED
      BY <3>1, <3>2
  <2> HIDE DEF n
  <2> QED
    BY <1>2, <2>2, <2>3 DEF CutAt
<1>8. Cut(d, t)
  BY <1>7 DEF Cut
<1> HIDE DEF d, t, n
<1>9. d \in Seq(Blocks) /\ Regular(d) /\ Cut(d, t)
  BY <1>2, <1>5, <1>8
<1> QED
  BY <1>9 DEF d, t

(* One more item in the last block.                                        *)
LEMMA LastFills ==
    ASSUME NEW c \in Seq(Blocks), NEW s \in Seq(LItems), Regular(c), Cut(c, s),
           NEW v \in LItems, NEW n, n = Len(c), n # 0, c[n].end < BlockItems,
           NEW d \in Seq(Blocks), Len(d) = n,
           \A k \in 1..n - 1 : d[k] = c[k],
           d[n] = [items |-> Append(c[n].items, v), beg |-> c[n].beg, end |-> c[n].end + 1]
    PROVE  Regular(d) /\ Cut(d, Append(s, v))
<1> DEFINE t == Append(s, v)
           w == Append(c[n].items, v)
<1>1. n \in Nat /\ n \in 1..n /\ n - 1 \in 0..n /\ n \in 0..n
  BY LenProperties
<1>2. /\ Len(s) \in Nat /\ t \in Seq(LItems) /\ Len(t) = Len(s) + 1 /\ t[Len(s) + 1] = v
      /\ \A j \in 1..Len(s) : t[j] = s[j]
  BY AppendProperties, LenProperties
<1>3. /\ c[n].items \in Seq(LItems) /\ Len(c[n].items) \in Nat /\ c[n].beg \in Nat /\ c[n].end \in Nat
      /\ c[n].beg < c[n].end /\ Len(c[n].items) = c[n].end - c[n].beg /\ (n > 1 => c[n].beg = 0)
  BY <1>1, BlockIs
<1>4. /\ Len(w) = Len(c[n].items) + 1 /\ w[Len(c[n].items) + 1] = v
      /\ \A j \in 1..Len(c[n].items) : w[j] = c[n].items[j]
  BY <1>3, AppendProperties
<1>5. d[n].items = w /\ d[n].beg = c[n].beg /\ d[n].end = c[n].end + 1
  OBVIOUS
<1> HIDE DEF w, t
<1>6. \A k \in 1..n : k = n \/ (k \in 1..n - 1 /\ d[k] = c[k])
  BY <1>1
<1>7. Regular(d)
  <2>1. BlockItems \in Nat
    BY LueueAssumption
  <2> SUFFICES ASSUME NEW k \in 1..n
               PROVE  /\ d[k].beg < d[k].end /\ d[k].end <= BlockItems
                      /\ Len(d[k].items) = d[k].end - d[k].beg
                      /\ k > 1 => d[k].beg = 0
                      /\ k < n => d[k].end = BlockItems
    BY DEF Regular
  <2>2. CASE k = n
    BY <1>3, <1>4, <1>5, <2>1, <2>2
  <2>3. CASE k # n
    BY <1>6, <2>3, BlockIs
  <2> QED
    BY <2>2, <2>3
<1>8. PICK off : CutAt(off, c, s)
  BY DEF Cut
<1>9. off \in [0..n -> Nat] /\ off[0] = 0 /\ off[n] = Len(s)
  BY <1>8 DEF CutAt
<1> DEFINE g == [k \in 0..n |-> IF k = n THEN Len(s) + 1 ELSE off[k]]
<1>10. g \in [0..n -> Nat] /\ g[0] = 0 /\ g[n] = Len(t) /\ \A k \in 0..n - 1 : g[k] = off[k]
  <2>1. \A k \in 0..n - 1 : k \in 0..n /\ k # n
    BY <1>1
  <2>2. 0 \in 0..n /\ 0 # n
    BY <1>1
  <2> QED
    BY <1>1, <1>2, <1>9, <2>1, <2>2
<1> HIDE DEF g
<1>11. ASSUME NEW k \in 1..n
       PROVE  /\ g[k] = g[k - 1] + Len(d[k].items)
              /\ \A j \in 1..Len(d[k].items) : d[k].items[j] = t[g[k - 1] + j]
  <2>0. k - 1 \in 0..n - 1 /\ k \in 0..n /\ k - 1 \in 0..n
    BY <1>1
  <2>1. /\ off[k] = off[k - 1] + Len(c[k].items)
        /\ \A j \in 1..Len(c[k].items) : c[k].items[j] = s[off[k - 1] + j]
    BY <1>8 DEF CutAt
  <2>2. off[k] <= Len(s) /\ off[k - 1] \in Nat /\ Len(c[k].items) \in Nat
    BY <1>8, <1>9, <2>0, CutsGrow, BlockIs
  <2>3. \A j \in 1..Len(c[k].items) : off[k - 1] + j \in 1..Len(s)
    BY <1>2, <2>1, <2>2
  <2>4. CASE k = n
    <3>1. g[k] = Len(s) + 1 /\ g[k - 1] = off[k - 1] /\ Len(s) = off[k - 1] + Len(c[n].items)
      BY <1>2, <1>9, <1>10, <2>0, <2>1, <2>4
    <3>2. Len(d[k].items) = Len(c[n].items) + 1
      BY <1>4, <1>5, <2>4
    <3>3. ASSUME NEW j \in 1..Len(d[k].items) PROVE d[k].items[j] = t[g[k - 1] + j]
      <4>1. CASE j = Len(c[n].items) + 1
        <5>1. d[k].items[j] = v
          BY <1>4, <1>5, <2>4, <4>1
        <5>2. g[k - 1] + j = Len(s) + 1
          <6> DEFINE a == off[k - 1]
                     l == Len(c[n].items)
          <6>1. a \in Nat /\ l \in Nat /\ j = l + 1 /\ Len(s) = a + l /\ g[k - 1] = a
            BY <1>3, <2>2, <3>1, <4>1
          <6> HIDE DEF a, l
          <6> QED
            BY <6>1
        <5> QED
          BY <1>2, <5>1, <5>2
      <4>2. CASE j # Len(c[n].items) + 1
        <5>1. j \in 1..Len(c[n].items)
          BY <1>3, <3>2, <4>2
        <5> QED
          BY ZenonT(40), <1>2, <1>4, <1>5, <2>1, <2>3, <2>4, <3>1, <5>1
      <4> QED
        BY <4>1, <4>2
    <3> QED
      BY <1>3, <2>2, <3>1, <3>2, <3>3
  <2>5. CASE k # n
    <3>1. k \in 0..n - 1 /\ d[k] = c[k]
      BY <1>6, <2>5, <2>0, <1>1
    <3> QED
      BY SMTT(30), <1>2, <1>10, <2>0, <2>1, <2>3, <3>1
  <2> QED
    BY <2>4, <2>5
<1>12. CutAt(g, d, t)
  BY <1>10, <1>11 DEF CutAt
<1>13. Cut(d, t)
  BY <1>12 DEF Cut
<1> QED
  BY <1>7, <1>13 DEF t

(* A chain with a block holds an item.                                     *)
LEMMA ChainHolds ==
    ASSUME NEW c \in Seq(Blocks), NEW s \in Seq(LItems), Regular(c), Cut(c, s), c # <<>>
    PROVE  /\ Len(s) \in Nat \ {0} /\ s # <<>> /\ 1 \in 1..Len(c)
           /\ Tail(s) \in Seq(LItems) /\ Len(Tail(s)) = Len(s) - 1
           /\ \A j \in 1..Len(s) - 1 : Tail(s)[j] = s[j + 1]
<1>1. Len(c) \in Nat \ {0} /\ Len(s) \in Nat
  BY EmptySeq, LenProperties
<1>2. PICK off : CutAt(off, c, s)
  BY DEF Cut
<1>3. 1 \in 0..Len(c) /\ 1 \in 1..Len(c)
  BY <1>1
<1>4. 1 <= off[1] /\ off[1] <= Len(s) /\ off[1] \in Nat
  BY <1>2, <1>3, CutsGrow DEF CutAt
<1>5. Len(s) \in Nat \ {0} /\ s # <<>>
  BY <1>1, <1>4, EmptySeq
<1> QED
  BY <1>1, <1>3, <1>5, HeadTailProperties

(* The first item leaves a block that holds more.                          *)
LEMMA FrontShrinks ==
    ASSUME NEW c \in Seq(Blocks), NEW s \in Seq(LItems), Regular(c), Cut(c, s),
           NEW n, n = Len(c), c # <<>>, c[1].beg + 1 # c[1].end,
           NEW d \in Seq(Blocks), Len(d) = n,
           \A k \in 2..n : d[k] = c[k],
           d[1] = [items |-> Tail(c[1].items), beg |-> c[1].beg + 1, end |-> c[1].end]
    PROVE  Regular(d) /\ Cut(d, Tail(s))
<1> DEFINE t == Tail(s)
           w == Tail(c[1].items)
<1>1. n \in Nat /\ 1 \in 1..n /\ 0 \in 0..n /\ 1 \in 0..n /\ n \in 0..n /\ n # 0
  BY ChainHolds, LenProperties
<1>2. /\ Len(s) \in Nat /\ Len(t) = Len(s) - 1 /\ Len(s) # 0
      /\ \A j \in 1..Len(s) - 1 : t[j] = s[j + 1]
  BY ChainHolds
<1>3. /\ c[1].items \in Seq(LItems) /\ Len(c[1].items) \in Nat /\ c[1].beg \in Nat /\ c[1].end \in Nat
      /\ c[1].beg + 1 < c[1].end /\ Len(c[1].items) = c[1].end - c[1].beg
      /\ c[1].end <= BlockItems /\ (1 < n => c[1].end = BlockItems)
  BY <1>1, BlockIs
<1>4. /\ Len(w) = Len(c[1].items) - 1 /\ Len(w) \in Nat
      /\ \A j \in 1..Len(w) : w[j] = c[1].items[j + 1]
  BY SMTT(30), <1>3, HeadTailProperties, EmptySeq
<1>5. d[1].items = w /\ d[1].beg = c[1].beg + 1 /\ d[1].end = c[1].end
  OBVIOUS
<1> HIDE DEF w, t
<1>6. \A k \in 1..n : k = 1 \/ (k \in 2..n /\ d[k] = c[k])
  BY <1>1
<1>7. Regular(d)
  <2>1. BlockItems \in Nat
    BY LueueAssumption
  <2> SUFFICES ASSUME NEW k \in 1..n
               PROVE  /\ d[k].beg < d[k].end /\ d[k].end <= BlockItems
                      /\ Len(d[k].items) = d[k].end - d[k].beg
                      /\ k > 1 => d[k].beg = 0
                      /\ k < n => d[k].end = BlockItems
    BY DEF Regular
  <2>2. CASE k = 1
    BY SMTT(30), <1>3, <1>4, <1>5, <2>1, <2>2
  <2>3. CASE k # 1
    BY <1>6, <2>3, BlockIs
  <2> QED
    BY <2>2, <2>3
<1>8. PICK off : CutAt(off, c, s)
  BY DEF Cut
<1>9. /\ off \in [0..n -> Nat] /\ off[0] = 0 /\ off[n] = Len(s)
      /\ \A k \in 0..n : k <= off[k] /\ off[k] <= Len(s)
  BY <1>8, CutsGrow DEF CutAt
<1> DEFINE g == [k \in 0..n |-> IF k = 0 THEN 0 ELSE off[k] - 1]
<1>10. g \in [0..n -> Nat] /\ g[0] = 0 /\ g[n] = Len(t) /\ \A k \in 1..n : g[k] = off[k] - 1
  <2>1. \A k \in 1..n : k \in 0..n /\ k # 0
    BY <1>1
  <2>2. \A k \in 0..n : k # 0 => off[k] - 1 \in Nat
    BY <1>9
  <2> QED
    BY <1>1, <1>2, <1>9, <2>1, <2>2
<1> HIDE DEF g
<1>11. ASSUME NEW k \in 1..n
       PROVE  /\ g[k] = g[k - 1] + Len(d[k].items)
              /\ \A j \in 1..Len(d[k].items) : d[k].items[j] = t[g[k - 1] + j]
  <2>0. k \in 0..n /\ k - 1 \in 0..n
    BY <1>1
  <2>1. /\ off[k] = off[k - 1] + Len(c[k].items)
        /\ \A j \in 1..Len(c[k].items) : c[k].items[j] = s[off[k - 1] + j]
    BY <1>8 DEF CutAt
  <2>2. off[k] <= Len(s) /\ off[k - 1] \in Nat /\ Len(c[k].items) \in Nat /\ k - 1 <= off[k - 1]
    BY <1>9, <2>0, BlockIs
  <2> DEFINE a == off[k - 1]
             l == Len(c[k].items)
  <2>3. a \in Nat /\ l \in Nat /\ a + l <= Len(s) /\ off[k] = a + l
    BY <2>1, <2>2
  <2>4. CASE k = 1
    <3>1. a = 0 /\ g[k - 1] = 0 /\ g[k] = a + l - 1 /\ Len(d[k].items) = l - 1 /\ l >= 1
      <4>1. k - 1 = 0 /\ off[k - 1] = 0 /\ g[k - 1] = 0 /\ g[k] = off[k] - 1
        BY <1>9, <1>10, <2>4
      <4>2. Len(d[k].items) = Len(c[k].items) - 1 /\ Len(c[k].items) >= 1
        BY <1>3, <1>4, <1>5, <2>4
      <4> QED
        BY <2>3, <4>1, <4>2
    <3>2. \A j \in 1..l - 1 : d[k].items[j] = c[k].items[j + 1]
      BY <1>4, <1>5, <2>4, <3>1
    <3>3. \A j \in 1..l : c[k].items[j] = s[a + j]
      BY <2>1
    <3> HIDE DEF a, l
    <3>4. \A j \in 1..l - 1 : j + 1 \in 1..l /\ a + (j + 1) = j + 1 /\ j \in 1..Len(s) - 1
                              /\ g[k - 1] + j = j
      BY <1>2, <2>3, <3>1
    <3>5. \A j \in 1..l - 1 : d[k].items[j] = t[g[k - 1] + j]
      <4> SUFFICES ASSUME NEW j \in 1..l - 1 PROVE d[k].items[j] = t[g[k - 1] + j]
        OBVIOUS
      <4>1. d[k].items[j] = s[a + (j + 1)]
        BY <3>2, <3>3, <3>4
      <4>2. t[j] = s[j + 1]
        BY <1>2, <3>4
      <4> QED
        BY <3>4, <4>1, <4>2
    <3> QED
      BY <2>3, <3>1, <3>5
  <2>5. CASE k # 1
    <3>1. d[k] = c[k] /\ k - 1 \in 1..n
      BY <1>6, <2>5, <1>1
    <3>2. g[k - 1] = a - 1 /\ g[k] = a + l - 1 /\ a >= 1
      <4>1. g[k - 1] = off[k - 1] - 1 /\ g[k] = off[k] - 1
        BY <1>10, <3>1
      <4>2. 1 <= k - 1 /\ k - 1 <= off[k - 1] /\ k \in Int
        BY <1>1, <2>2, <3>1
      <4> QED
        BY <2>3, <4>1, <4>2
    <3>3. \A j \in 1..l : c[k].items[j] = s[a + j]
      BY <2>1
    <3>4. Len(d[k].items) = l
      BY <3>1
    <3> HIDE DEF a, l
    <3>5. \A j \in 1..l : (a - 1) + j \in 1..Len(s) - 1 /\ ((a - 1) + j) + 1 = a + j
      BY <1>2, <2>3, <3>2
    <3>6. \A j \in 1..l : c[k].items[j] = t[(a - 1) + j]
      BY ZenonT(40), <1>2, <3>3, <3>5
    <3> QED
      BY <2>3, <3>1, <3>2, <3>4, <3>6
  <2> QED
    BY <2>4, <2>5
<1>12. CutAt(g, d, t)
  BY <1>10, <1>11 DEF CutAt
<1>13. Cut(d, t)
  BY <1>12 DEF Cut
<1> QED
  BY <1>7, <1>13 DEF t

(* The only item of the first block leaves, and the block with it.         *)
LEMMA FrontGoes ==
    ASSUME NEW c \in Seq(Blocks), NEW s \in Seq(LItems), Regular(c), Cut(c, s),
           c # <<>>, c[1].beg + 1 = c[1].end,
           NEW d \in Seq(Blocks), Len(d) = Len(c) - 1,
           \A k \in 1..Len(c) - 1 : d[k] = c[k + 1]
    PROVE  Regular(d) /\ Cut(d, Tail(s))
<1> DEFINE t == Tail(s)
           n == Len(d)
<1>1. /\ n \in Nat /\ Len(c) = n + 1 /\ 1 \in 1..Len(c) /\ 0 \in 0..n /\ n \in 0..n
      /\ \A k \in 1..n : d[k] = c[k + 1] /\ k + 1 \in 1..Len(c) /\ k + 1 > 1 /\ (k < n => k + 1 < Len(c))
  BY ChainHolds, LenProperties
<1>2. /\ Len(s) \in Nat /\ Len(t) = Len(s) - 1 /\ Len(s) # 0
      /\ \A j \in 1..Len(s) - 1 : t[j] = s[j + 1]
  BY ChainHolds
<1>3. Len(c[1].items) = 1
  <2>1. c[1].beg \in Nat /\ c[1].end \in Nat /\ Len(c[1].items) = c[1].end - c[1].beg
    BY <1>1, BlockIs
  <2> QED
    BY <2>1
<1> HIDE DEF t, n
<1>4. Regular(d)
  <2> SUFFICES ASSUME NEW k \in 1..n
               PROVE  /\ d[k].beg < d[k].end /\ d[k].end <= BlockItems
                      /\ Len(d[k].items) = d[k].end - d[k].beg
                      /\ k > 1 => d[k].beg = 0
                      /\ k < n => d[k].end = BlockItems
    BY DEF Regular, n
  <2> DEFINE i == k + 1
  <2>1. i \in 1..Len(c) /\ i > 1 /\ (k < n => i < Len(c)) /\ d[k] = c[i]
    BY <1>1
  <2> HIDE DEF i
  <2>2. /\ c[i].beg < c[i].end /\ c[i].end <= BlockItems
        /\ Len(c[i].items) = c[i].end - c[i].beg
        /\ i > 1 => c[i].beg = 0
        /\ i < Len(c) => c[i].end = BlockItems
    BY <2>1, BlockIs
  <2> QED
    BY <2>1, <2>2
<1>5. PICK off : CutAt(off, c, s)
  BY DEF Cut
<1>6. /\ off \in [0..n + 1 -> Nat] /\ off[0] = 0 /\ off[n + 1] = Len(s)
      /\ \A k \in 0..n + 1 : k <= off[k] /\ off[k] <= Len(s)
  <2>1. off \in [0..Len(c) -> Nat] /\ off[0] = 0 /\ off[Len(c)] = Len(s)
    BY <1>5 DEF CutAt
  <2>2. \A k \in 0..Len(c) : k <= off[k] /\ off[k] <= Len(s)
    BY <1>5, CutsGrow
  <2> QED
    BY <1>1, <2>1, <2>2
<1>7. off[1] = 1
  <2>1. off[1] = off[1 - 1] + Len(c[1].items)
    BY <1>1, <1>5 DEF CutAt
  <2> QED
    BY <1>3, <1>6, <2>1
<1> DEFINE g == [k \in 0..n |-> off[k + 1] - 1]
<1>8. g \in [0..n -> Nat] /\ g[0] = 0 /\ g[n] = Len(t) /\ \A k \in 0..n : g[k] = off[k + 1] - 1
  <2>1. \A k \in 0..n : k + 1 \in 0..n + 1 /\ off[k + 1] - 1 \in Nat
    BY SMTT(30), <1>1, <1>6
  <2> QED
    BY <1>1, <1>2, <1>6, <1>7, <2>1
<1> HIDE DEF g
<1>9. ASSUME NEW k \in 1..n
      PROVE  /\ g[k] = g[k - 1] + Len(d[k].items)
             /\ \A j \in 1..Len(d[k].items) : d[k].items[j] = t[g[k - 1] + j]
  <2> DEFINE a == off[k]
             l == Len(d[k].items)
  <2>1. k \in 0..n + 1 /\ k + 1 \in 0..n + 1 /\ k - 1 \in 0..n /\ k \in 0..n /\ (k + 1) - 1 = k /\ (k - 1) + 1 = k
    BY <1>1
  <2>2. off[k + 1] = a + l /\ \A j \in 1..l : d[k].items[j] = s[a + j]
    <3>1. /\ off[k + 1] = off[(k + 1) - 1] + Len(c[k + 1].items)
          /\ \A j \in 1..Len(c[k + 1].items) : c[k + 1].items[j] = s[off[(k + 1) - 1] + j]
      BY <1>1, <1>5 DEF CutAt
    <3> QED
      BY <1>1, <2>1, <3>1
  <2>3. a \in Nat /\ l \in Nat /\ a >= 1 /\ a + l <= Len(s)
    <3>1. l \in Nat
      BY <1>1, BlockIs
    <3>2. a \in Nat /\ a >= 1 /\ off[k + 1] <= Len(s)
      BY <1>1, <1>6, <2>1
    <3> QED
      BY <2>2, <3>1, <3>2
  <2>4. g[k - 1] = a - 1 /\ g[k] = (a + l) - 1
    <3>1. g[k] = off[k + 1] - 1
      BY <1>8, <2>1
    <3>2. g[k - 1] = off[(k - 1) + 1] - 1
      BY <1>8, <2>1
    <3>3. g[k - 1] = off[k] - 1
      BY <2>1, <3>2
    <3>4. g[k - 1] = a - 1
      BY <3>3
    <3>5. off[k + 1] = a + l
      BY <2>2
    <3>6. g[k] = (a + l) - 1
      BY <3>1, <3>5
    <3> QED
      BY <3>4, <3>6
  <2> HIDE DEF a, l
  <2>5. \A j \in 1..l : (a - 1) + j \in 1..Len(s) - 1 /\ ((a - 1) + j) + 1 = a + j
    BY <1>2, <2>3
  <2>6. \A j \in 1..l : d[k].items[j] = t[(a - 1) + j]
    BY <1>2, <2>2, <2>5
  <2> QED
    BY <2>3, <2>4, <2>6 DEF l
<1>10. CutAt(g, d, t)
  BY <1>8, <1>9 DEF CutAt, n
<1>11. Cut(d, t)
  BY <1>10 DEF Cut
<1> QED
  BY <1>4, <1>11 DEF t

(* Numbers below the width are themselves modulo it.                       *)
LEMMA ModuloIs == ASSUME NEW i \in Nat, i < SizeWidth PROVE Modulo(i) = i
<1>1. SizeWidth \in Nat /\ SizeWidth > 0
  BY LueueAssumption
<1> QED
  BY <1>1 DEF Modulo

(* The first of a sequence.                                                *)
LEMMA HeadIs ==
    ASSUME NEW S, NEW s \in Seq(S), s # <<>>
    PROVE  Head(s) = s[1] /\ 1 \in 1..Len(s)
<1>1. Len(s) \in Nat \ {0}
  BY EmptySeq, LenProperties
<1>2. 1 \in 1..Len(s) /\ Len(s) \in 1..Len(s)
  BY <1>1
<1>3. Head(SubSeq(s, 1, Len(s))) = s[1]
  BY <1>2, HeadTailOfSubSeq
<1> QED
  BY <1>2, <1>3, SubSeqFull

(* size(): the blocks between the first and the last are full.             *)
LEMMA SizeIs ==
    ASSUME NEW r \in Chains, NEW s \in Seq(LItems), QueueOK(r, s, 0)
    PROVE  LSize(r) = Len(s) /\ Len(r.chain) <= Len(s)
<1> DEFINE c == r.chain
           n == Len(c)
           B == BlockItems
<1>1. /\ c \in Seq(Blocks) /\ n \in Nat /\ Regular(c) /\ Len(s) <= MaxHeld /\ Len(s) \in Nat
      /\ r.nblock = n /\ MaxHeld \in Nat /\ SizeWidth \in Nat /\ B \in Nat /\ MaxHeld < SizeWidth
  <2>1. c \in Seq(Blocks)
    BY DEF Chains
  <2>2. n \in Nat /\ Len(s) \in Nat
    BY <2>1, LenProperties
  <2> QED
    BY <2>1, <2>2, LueueAssumption DEF QueueOK
<1>2. PICK off : CutAt(off, c, s)
  BY DEF QueueOK, Cut
<1>3. /\ off \in [0..n -> Nat] /\ off[0] = 0 /\ off[n] = Len(s)
      /\ \A k \in 0..n : k <= off[k] /\ off[k] <= Len(s)
  BY <1>1, <1>2, CutsGrow DEF CutAt
<1>4. n <= Len(s)
  BY <1>1, <1>3
<1>5. CASE n = 0
  <2>1. c = <<>>
    BY <1>1, <1>5, EmptySeq
  <2> QED
    BY <1>1, <1>3, <1>5, <2>1 DEF LSize
<1>6. \A k \in 1..n : /\ c[k].beg \in Nat /\ c[k].end \in Nat /\ off[k] \in Nat /\ off[k - 1] \in Nat
                      /\ off[k] = off[k - 1] + (c[k].end - c[k].beg)
                      /\ k > 1 => c[k].beg = 0
                      /\ k < n => c[k].end = B
  <2> SUFFICES ASSUME NEW k \in 1..n
               PROVE  /\ c[k].beg \in Nat /\ c[k].end \in Nat /\ off[k] \in Nat /\ off[k - 1] \in Nat
                      /\ off[k] = off[k - 1] + (c[k].end - c[k].beg)
                      /\ k > 1 => c[k].beg = 0
                      /\ k < n => c[k].end = B
    OBVIOUS
  <2>1. k \in 0..n /\ k - 1 \in 0..n
    BY <1>1
  <2>2. off[k] = off[k - 1] + Len(c[k].items)
    BY <1>2 DEF CutAt
  <2>3. /\ c[k].beg \in Nat /\ c[k].end \in Nat /\ Len(c[k].items) = c[k].end - c[k].beg
        /\ k > 1 => c[k].beg = 0
        /\ k < n => c[k].end = B
    BY <1>1, BlockIs
  <2> QED
    BY <1>3, <2>1, <2>2, <2>3
<1>7. CASE n = 1
  <2>1. c # <<>> /\ Head(c) = c[1]
    <3>1. c # <<>>
      BY <1>7, EmptySeq
    <3>2. c \in Seq(Blocks)
      BY <1>1
    <3> HIDE DEF c
    <3> QED
      BY <3>1, <3>2, HeadIs
  <2>2. Len(s) = c[1].end - c[1].beg
    <3>1. off[1] = off[1 - 1] + (c[1].end - c[1].beg) /\ c[1].beg \in Nat /\ c[1].end \in Nat
      BY <1>6, <1>7
    <3> QED
      BY <1>3, <1>7, <3>1
  <2> QED
    BY <1>4, <1>7, <2>1, <2>2 DEF LSize
<1>8. CASE n > 1
  <2> DEFINE first == c[1].end - c[1].beg
             full(k) == (k - 1) * B
             S == {k \in 0..n : k # 0 /\ k # n /\ off[k] # first + full(k)}
  <2>0. first \in Int /\ off[1] = first
    <3>1. 1 \in 1..n
      BY <1>1, <1>8
    <3>2. off[1] = off[1 - 1] + (c[1].end - c[1].beg) /\ c[1].beg \in Nat /\ c[1].end \in Nat
      BY <1>6, <3>1
    <3> QED
      BY <1>3, <3>2
  <2> HIDE DEF first
  <2>1. S = {}
    <3> SUFFICES ASSUME S # {} PROVE FALSE
      OBVIOUS
    <3>1. PICK k \in S : \A j \in S : k <= j
      <4>1. S \in SUBSET (0..n)
        OBVIOUS
      <4> HIDE DEF S
      <4> QED
        BY <1>1, <4>1, Least
    <3>2. k # 1
      <4>1. full(1) = 0
        BY <1>1
      <4> HIDE DEF full
      <4>2. off[1] = first + full(1)
        BY <2>0, <4>1
      <4> QED
        BY <3>1, <4>2
    <3>3. k \in 1..n /\ k - 1 \in 0..n /\ k - 1 # 0 /\ k - 1 # n /\ k - 1 < k /\ k > 1 /\ k < n
      BY <1>1, <3>1, <3>2
    <3>4. k - 1 \notin S
      BY <3>1, <3>3
    <3>5. off[k - 1] = first + full(k - 1)
      BY <3>3, <3>4
    <3>6. off[k] = off[k - 1] + B
      <4>1. off[k] = off[k - 1] + (c[k].end - c[k].beg) /\ c[k].beg = 0 /\ c[k].end = B /\ off[k - 1] \in Nat
        BY <1>6, <3>3
      <4> QED
        BY <1>1, <4>1
    <3>7. full(k) = full(k - 1) + B
      <4>1. k \in Int /\ B \in Int
        BY <1>1, <3>3
      <4> QED
        BY <4>1
    <3>8. full(k) \in Int /\ full(k - 1) \in Int
      <4>1. k \in Int /\ B \in Int
        BY <1>1, <3>3
      <4> QED
        BY <4>1
    <3> HIDE DEF full
    <3>9. off[k] = first + full(k)
      BY <1>1, <2>0, <3>5, <3>6, <3>7, <3>8
    <3> QED
      BY <3>1, <3>9
  <2>2. off[n - 1] = first + (n - 2) * B
    <3>1. n - 1 \in 0..n /\ n - 1 # 0 /\ n - 1 # n
      <4> HIDE DEF n
      <4> QED
        BY <1>1, <1>8
    <3>2. off[n - 1] = first + full(n - 1)
      BY <2>1, <3>1
    <3>3. full(n - 1) = (n - 2) * B
      <4>1. (n - 1) - 1 = n - 2
        BY <1>1
      <4> QED
        BY <4>1
    <3> HIDE DEF full
    <3> QED
      BY <3>2, <3>3
  <2>3. Len(s) = off[n - 1] + (c[n].end - c[n].beg) /\ c[n].end - c[n].beg \in Int
    <3>1. n \in 1..n
      BY <1>1, <1>8
    <3>2. /\ off[n] = off[n - 1] + (c[n].end - c[n].beg) /\ off[n] = Len(s)
          /\ c[n].beg \in Nat /\ c[n].end \in Nat
      BY <1>3, <1>6, <3>1
    <3>3. c[n].end - c[n].beg \in Int
      BY <3>2
    <3> QED
      BY <3>2, <3>3
  <2>4. (n - 2) * B \in Int
    BY <1>1
  <2>5. first + c[n].end - c[n].beg + (n - 2) * B = Len(s)
    <3> DEFINE m == (n - 2) * B
    <3>1. off[n - 1] = first + m /\ m \in Int
      BY <2>2, <2>4
    <3>2. c[n].end \in Nat /\ c[n].beg \in Nat
      BY <1>1, <1>6, <1>8
    <3> DEFINE e == c[n].end
               b == c[n].beg
               o == off[n - 1]
    <3>4. Len(s) = o + (e - b) /\ o = first + m /\ m \in Int /\ e \in Nat /\ b \in Nat
      BY <2>3, <3>1, <3>2
    <3> HIDE DEF m, e, b, o
    <3>5. first + e - b + m = Len(s)
      BY <2>0, <3>4
    <3> HIDE DEF n, B
    <3> QED
      BY <3>5 DEF e, b, m
  <2>6. Modulo(Len(s)) = Len(s)
    BY <1>1, ModuloIs
  <2>7. c # <<>> /\ Head(c) = c[1] /\ Last(c) = c[n] /\ n # 1
    <3>1. c # <<>>
      BY <1>8, EmptySeq
    <3>0. n # 1
      <4> HIDE DEF n
      <4> QED
        BY <1>1, <1>8
    <3>2. c \in Seq(Blocks) /\ n # 1
      BY <1>1, <3>0
    <3> HIDE DEF c
    <3> QED
      BY <3>1, <3>2, HeadIs DEF Last
  <2>8. LSize(r) = Modulo(c[1].end - c[1].beg + c[n].end - c[n].beg + (n - 2) * B)
    BY <1>1, <2>7 DEF LSize
  <2> QED
    BY <1>4, <2>5, <2>6, <2>8 DEF first
<1>9. n = 0 \/ n = 1 \/ n > 1
  <2> HIDE DEF n
  <2> QED
    BY <1>1
<1> QED
  BY <1>5, <1>7, <1>8, <1>9

(* No queue holds more than all the queues together.                       *)
LEMMA HeldBounds ==
    ASSUME LueueInv, NEW q \in LQueues
    PROVE  Len(kept[q]) <= HeldItems /\ Len(kept[q]) \in Nat /\ HeldItems \in Int
<1> DEFINE l == Len(kept[q])
           mine == {q} \X (1..l)
           all == {p \in LQueues \X (1..MaxHeld) : p[2] <= Len(kept[p[1]])}
<1>1. l \in Nat /\ l <= MaxHeld /\ MaxHeld \in Nat /\ IsFiniteSet(LQueues)
  <2>1. kept[q] \in Seq(LItems)
    BY DEF LueueInv, LueueTypeOK
  <2> QED
    BY <2>1, LenProperties, LueueAssumption DEF LueueInv, QueueOK
<1>2. IsFiniteSet(1..l) /\ Cardinality(1..l) = l /\ IsFiniteSet(1..MaxHeld)
  <2>1. 1 \in Int
    OBVIOUS
  <2> HIDE DEF l
  <2>2. IsFiniteSet(1..l) /\ Cardinality(1..l) = IF 1 > l THEN 0 ELSE l - 1 + 1
    BY <1>1, <2>1, FS_Interval
  <2>3. IsFiniteSet(1..MaxHeld)
    BY <1>1, <2>1, FS_Interval
  <2> QED
    BY <1>1, <2>2, <2>3
<1>3. IsFiniteSet({q}) /\ Cardinality({q}) = 1
  BY FS_Singleton
<1>4. Cardinality(mine) = l
  <2>1. Cardinality(mine) = Cardinality({q}) * Cardinality(1..l)
    <3> HIDE DEF l
    <3> QED
      BY <1>2, <1>3, FS_Product
  <2> HIDE DEF l
  <2> QED
    BY <1>1, <1>2, <1>3, <2>1
<1>5. IsFiniteSet(LQueues \X (1..MaxHeld))
  BY <1>1, <1>2, FS_Product
<1>6. mine \subseteq all
  BY <1>1
<1>7. all \subseteq LQueues \X (1..MaxHeld)
  OBVIOUS
<1> HIDE DEF mine, all
<1>8. IsFiniteSet(all) /\ Cardinality(mine) <= Cardinality(all) /\ Cardinality(all) \in Nat
  <2>1. IsFiniteSet(all)
    BY <1>5, <1>7, FS_Subset
  <2> QED
    BY <1>6, <2>1, FS_Subset, FS_CardinalityType
<1> QED
  BY <1>1, <1>4, <1>8 DEF all, HeldItems

(* The counters of size_t are natural numbers.                             *)
LEMMA ModuloType == ASSUME NEW i \in Int PROVE Modulo(i) \in Nat
<1>1. SizeWidth \in Nat /\ SizeWidth > 0
  BY LueueAssumption
<1> QED
  BY <1>1 DEF Modulo

\* The chain e when an item enters its block k, and when one leaves it.
FilledAt(e, k, v) == [e EXCEPT ![k] = [e[k] EXCEPT !.items = Append(@, v), !.end = @ + 1]]
DrainedAt(e, k) == [e EXCEPT ![k] = [e[k] EXCEPT !.items = Tail(@), !.beg = @ + 1]]

(* An item enters a block of the chain; an item leaves one.                *)
LEMMA BlockFills ==
    ASSUME NEW e \in Seq(Blocks), NEW k \in 1..Len(e), NEW v \in LItems
    PROVE  LET f == FilledAt(e, k, v)
           IN  /\ f \in Seq(Blocks) /\ Len(f) = Len(e)
               /\ f[k] = [items |-> Append(e[k].items, v), beg |-> e[k].beg, end |-> e[k].end + 1]
               /\ \A i \in 1..Len(e) : i # k => f[i] = e[i]
<1> DEFINE b == e[k]
           w == [items |-> Append(b.items, v), beg |-> b.beg, end |-> b.end + 1]
           f == [e EXCEPT ![k] = w]
           h == FilledAt(e, k, v)
<1>1. /\ b \in Blocks /\ b.items \in Seq(LItems) /\ b.beg \in Nat /\ b.end \in Nat
      /\ b = [items |-> b.items, beg |-> b.beg, end |-> b.end]
  <2>1. b \in Blocks
    BY ElementOfSeq
  <2> HIDE DEF b
  <2> QED
    BY <2>1 DEF Blocks
<1>2. w \in Blocks
  <2>1. Append(b.items, v) \in Seq(LItems)
    BY <1>1, AppendProperties
  <2> HIDE DEF b
  <2> QED
    BY <1>1, <2>1 DEF Blocks
<1>3. f \in Seq(Blocks) /\ Len(f) = Len(e) /\ \A i \in 1..Len(e) : f[i] = IF i = k THEN w ELSE e[i]
  <2> HIDE DEF w
  <2> QED
    BY <1>2, ExceptSeq
<1>5. h = f
  <2> DEFINE y == [b EXCEPT !.items = Append(@, v), !.end = @ + 1]
  <2>1. y = w
    <3> HIDE DEF b
    <3>0. y = [b EXCEPT !.items = Append(@, v), !.end = @ + 1]
      OBVIOUS
    <3> HIDE DEF y
    <3>1. y = [items |-> y.items, beg |-> y.beg, end |-> y.end]
      BY <1>1, <3>0 DEF Blocks
    <3>2. y.items = w.items /\ y.beg = w.beg /\ y.end = w.end
      BY <1>1, <3>0 DEF Blocks
    <3> QED
      BY <3>1, <3>2
  <2> QED
    BY <2>1 DEF FilledAt
<1> HIDE DEF w, f, h
<1>6. /\ h \in Seq(Blocks) /\ Len(h) = Len(e) /\ h[k] = w
      /\ \A i \in 1..Len(e) : i # k => h[i] = e[i]
  BY <1>3, <1>5
<1> QED
  BY <1>6 DEF w, h

(* A block that an item leaves at its front.                               *)
LEMMA BlockDrains ==
    ASSUME NEW e \in Seq(Blocks), NEW k \in 1..Len(e), e[k].items # <<>>
    PROVE  LET f == DrainedAt(e, k)
           IN  /\ f \in Seq(Blocks) /\ Len(f) = Len(e)
               /\ f[k] = [items |-> Tail(e[k].items), beg |-> e[k].beg + 1, end |-> e[k].end]
               /\ \A i \in 1..Len(e) : i # k => f[i] = e[i]
<1> DEFINE b == e[k]
           w == [items |-> Tail(b.items), beg |-> b.beg + 1, end |-> b.end]
           f == [e EXCEPT ![k] = w]
           h == DrainedAt(e, k)
<1>1. /\ b \in Blocks /\ b.items \in Seq(LItems) /\ b.beg \in Nat /\ b.end \in Nat
      /\ b = [items |-> b.items, beg |-> b.beg, end |-> b.end]
  <2>1. b \in Blocks
    BY ElementOfSeq
  <2> HIDE DEF b
  <2> QED
    BY <2>1 DEF Blocks
<1>2. w \in Blocks
  <2>1. Tail(b.items) \in Seq(LItems)
    BY <1>1, HeadTailProperties
  <2> HIDE DEF b
  <2> QED
    BY <1>1, <2>1 DEF Blocks
<1>3. f \in Seq(Blocks) /\ Len(f) = Len(e) /\ \A i \in 1..Len(e) : f[i] = IF i = k THEN w ELSE e[i]
  <2> HIDE DEF w
  <2> QED
    BY <1>2, ExceptSeq
<1>5. h = f
  <2> DEFINE y == [b EXCEPT !.items = Tail(@), !.beg = @ + 1]
  <2>1. y = w
    <3> HIDE DEF b
    <3>0. y = [b EXCEPT !.items = Tail(@), !.beg = @ + 1]
      OBVIOUS
    <3> HIDE DEF y
    <3>1. y = [items |-> y.items, beg |-> y.beg, end |-> y.end]
      BY <1>1, <3>0 DEF Blocks
    <3>2. y.items = w.items /\ y.beg = w.beg /\ y.end = w.end
      BY <1>1, <3>0 DEF Blocks
    <3> QED
      BY <3>1, <3>2
  <2> QED
    BY <2>1 DEF DrainedAt
<1> HIDE DEF w, f, h
<1>6. /\ h \in Seq(Blocks) /\ Len(h) = Len(e) /\ h[k] = w
      /\ \A i \in 1..Len(e) : i # k => h[i] = e[i]
  BY <1>3, <1>5
<1> QED
  BY <1>6 DEF w, h

(* push_back() appends to the last block or to a new one, unless it writes *)
(* past the end of a single block.                                         *)
LEMMA PushIs ==
    ASSUME NEW r \in Chains, NEW s \in Seq(LItems), NEW m, QueueOK(r, s, m), ~r.overrun,
           Len(s) < MaxHeld, NEW v \in LItems
    PROVE  LET x == LPushBack(r, v)
           IN  x \in Chains /\ QueueOK(x, IF x.overrun THEN s ELSE Append(s, v), m)
<1> DEFINE c == r.chain
           n == Len(c)
           x == LPushBack(r, v)
           b == [items |-> <<v>>, beg |-> 0, end |-> 1]
<1>0. /\ c \in Seq(Blocks) /\ r.nblock \in Nat /\ r.nfree \in Nat /\ r.overrun = FALSE
      /\ Regular(c) /\ Cut(c, s) /\ (m = 0 => r.nblock = n)
      /\ n \in Nat /\ Len(s) \in Nat /\ BlockItems \in Nat \ {0} /\ SizeWidth \in Nat
      /\ SizeWidth > MaxHeld /\ MaxHeld \in Nat
  <2>1. c \in Seq(Blocks) /\ r.nblock \in Nat /\ r.nfree \in Nat /\ r.overrun = FALSE
    BY DEF Chains
  <2>2. n \in Nat /\ Len(s) \in Nat
    BY <2>1, LenProperties
  <2> QED
    BY <2>1, <2>2, LueueAssumption DEF QueueOK
<1>1. Append(s, v) \in Seq(LItems) /\ Len(Append(s, v)) = Len(s) + 1
  BY AppendProperties
<1>2. n <= Len(s)
  <2>1. PICK off : CutAt(off, c, s)
    BY <1>0 DEF Cut
  <2>2. n \in 0..n
    BY <1>0
  <2>3. n <= off[n] /\ off[n] = Len(s)
    BY <1>0, <2>1, <2>2, CutsGrow DEF CutAt
  <2> QED
    BY <2>3
<1>3. CASE LEmpty(r) \/ Last(c).end - Last(c).beg >= BlockItems
  <2> DEFINE a == NewBackBlock(r)
             d == Append(c, b)
  <2>1. a = MayAllocate(r)
    BY <1>3 DEF MayAllocate
  <2>2. /\ a.chain = Append(c, NewBlock) /\ a.nfree \in Nat /\ a.nblock = Modulo(r.nblock + 1)
        /\ a.overrun = FALSE /\ a.nblock \in Nat
        /\ a = [chain |-> a.chain, nblock |-> a.nblock, nfree |-> a.nfree, overrun |-> FALSE]
    <3> DEFINE i == r.nblock + 1
               f == IF r.nfree > 0 THEN r.nfree - 1 ELSE r.nfree
    <3>1. i \in Int /\ f \in Nat
      BY <1>0
    <3>2. a = [r EXCEPT !.chain = Append(@, NewBlock), !.nfree = f, !.nblock = Modulo(i)]
      BY DEF NewBackBlock
    <3> HIDE DEF a, i, f
    <3>3. Modulo(i) \in Nat
      BY <3>1, ModuloType
    <3>4. /\ a.chain = Append(c, NewBlock) /\ a.nfree = f /\ a.nblock = Modulo(i) /\ a.overrun = r.overrun
          /\ a = [chain |-> a.chain, nblock |-> a.nblock, nfree |-> a.nfree, overrun |-> a.overrun]
      BY <3>2 DEF Chains
    <3> QED
      BY <1>0, <3>1, <3>3, <3>4 DEF i
  <2>3. c # <<>> => c[n].end = BlockItems
    <3> SUFFICES ASSUME c # <<>> PROVE c[n].end = BlockItems
      OBVIOUS
    <3>1. n \in 1..n
      BY <1>0, EmptySeq
    <3>2. c[n].beg \in Nat /\ c[n].end \in Nat /\ c[n].end <= BlockItems
      BY <1>0, <3>1, BlockIs
    <3>3. c[n].end - c[n].beg >= BlockItems
      BY <1>3 DEF LEmpty, Last
    <3> QED
      BY <1>0, <3>2, <3>3
  <2>4. d \in Seq(Blocks) /\ Regular(d) /\ Cut(d, Append(s, v))
    BY <1>0, <2>3, ChainGrows
  <2>5. /\ NewBlock \in Blocks /\ NewBlock.end = 0 /\ b \in Blocks
        /\ Append(c, NewBlock) \in Seq(Blocks) /\ Len(Append(c, NewBlock)) = n + 1
        /\ Append(c, NewBlock)[n + 1] = NewBlock
        /\ \A k \in 1..n : Append(c, NewBlock)[k] = c[k]
    <3>1. NewBlock \in Blocks /\ NewBlock.end = 0 /\ b \in Blocks
      BY EmptySeq DEF NewBlock, Blocks
    <3> HIDE DEF b
    <3> QED
      BY <1>0, <3>1, AppendProperties
  <2>6. x = [a EXCEPT !.chain[n + 1] = [a.chain[n + 1] EXCEPT !.items = Append(@, v), !.end = @ + 1]]
    BY <1>0, <2>1, <2>2, <2>5 DEF LPushBack
  <2>7. x.chain = d /\ x.nblock = a.nblock /\ x.nfree = a.nfree /\ x.overrun = FALSE
    <3> DEFINE e == Append(c, NewBlock)
               f == FilledAt(e, n + 1, v)
    <3>1. n + 1 \in 1..Len(e) /\ e \in Seq(Blocks)
      BY <1>0, <2>5
    <3>2. /\ x.chain = f /\ x.nblock = a.nblock /\ x.nfree = a.nfree /\ x.overrun = a.overrun
      <4> HIDE DEF a, x, e
      <4> QED
        BY <2>2, <2>6 DEF e, FilledAt
    <3>3. /\ f \in Seq(Blocks) /\ Len(f) = Len(e)
          /\ f[n + 1] = [items |-> Append(e[n + 1].items, v), beg |-> e[n + 1].beg, end |-> e[n + 1].end + 1]
          /\ \A i \in 1..Len(e) : i # n + 1 => f[i] = e[i]
      <4> DEFINE k == n + 1
      <4>1. k \in 1..Len(e)
        BY <3>1
      <4> HIDE DEF e, n, k
      <4>2. LET g == FilledAt(e, k, v)
            IN  /\ g \in Seq(Blocks) /\ Len(g) = Len(e)
                /\ g[k] = [items |-> Append(e[k].items, v), beg |-> e[k].beg, end |-> e[k].end + 1]
                /\ \A i \in 1..Len(e) : i # k => g[i] = e[i]
        BY <3>1, <4>1, BlockFills
      <4> QED
        BY <4>2 DEF k
    <3>4. f[n + 1] = b
      <4>1. e[n + 1] = NewBlock /\ NewBlock.items = <<>> /\ NewBlock.beg = 0 /\ NewBlock.end = 0
        BY <2>5 DEF NewBlock
      <4>2. Append(<<>>, v) = <<v>> /\ 0 + 1 = 1
        OBVIOUS
      <4> HIDE DEF e, f, n
      <4> QED
        BY <3>3, <4>1, <4>2
    <3>5. d \in Seq(Blocks) /\ Len(d) = n + 1 /\ d[n + 1] = b /\ \A i \in 1..n : d[i] = c[i]
      <4> HIDE DEF b
      <4> QED
        BY <1>0, <2>5, AppendProperties
    <3>6. f = d
      <4>1. Len(e) = n + 1 /\ \A i \in 1..n : e[i] = c[i]
        BY <2>5
      <4> HIDE DEF e, f, d, b
      <4>2. \A i \in 1..n + 1 : i = n + 1 \/ (i \in 1..n /\ i # n + 1 /\ i \in 1..Len(e))
        BY <1>0, <4>1
      <4>3. \A i \in 1..n + 1 : f[i] = d[i]
        BY <3>3, <3>4, <3>5, <4>1, <4>2
      <4> QED
        BY <3>3, <3>5, <4>1, <4>3, SeqEqual
    <3> QED
      BY <2>2, <3>2, <3>6
  <2>8. x = [chain |-> x.chain, nblock |-> x.nblock, nfree |-> x.nfree, overrun |-> x.overrun]
    <3> HIDE DEF a, x
    <3> QED
      BY <2>2, <2>6
  <2>9. x \in Chains
    <3> HIDE DEF a, x, d
    <3> QED
      BY <2>2, <2>4, <2>7, <2>8 DEF Chains
  <2>10. m = 0 => x.nblock = Len(d)
    <3> SUFFICES ASSUME m = 0 PROVE x.nblock = Len(d)
      OBVIOUS
    <3>1. Len(d) = n + 1
      <4> HIDE DEF b
      <4> QED
        BY <1>0, <2>5, AppendProperties
    <3> DEFINE i == n + 1
    <3>2. i \in Nat /\ i < SizeWidth
      BY <1>0, <1>2
    <3> HIDE DEF i
    <3>3. Modulo(i) = i
      BY <3>2, ModuloIs
    <3> QED
      BY <1>0, <2>2, <2>7, <3>1, <3>3 DEF i
  <2> QED
    <3> HIDE DEF a, x, d
    <3>1. QueueOK(x, Append(s, v), m)
      BY <1>0, <1>1, <2>4, <2>7, <2>10 DEF QueueOK
    <3> QED
      BY <2>7, <2>9, <3>1 DEF x
<1>4. CASE ~(LEmpty(r) \/ Last(c).end - Last(c).beg >= BlockItems)
  <2>1. MayAllocate(r) = r
    BY <1>4 DEF MayAllocate
  <2>2. c # <<>> /\ n \in 1..n /\ n # 0
    BY <1>0, <1>4, EmptySeq DEF LEmpty
  <2>3. /\ c[n].beg \in Nat /\ c[n].end \in Nat /\ c[n].end <= BlockItems
        /\ c[n].end - c[n].beg < BlockItems /\ (n > 1 => c[n].beg = 0)
    <3>1. c[n].beg \in Nat /\ c[n].end \in Nat /\ c[n].end <= BlockItems /\ (n > 1 => c[n].beg = 0)
      BY <1>0, <2>2, BlockIs
    <3>2. ~(c[n].end - c[n].beg >= BlockItems)
      BY <1>4 DEF Last
    <3> QED
      BY <1>0, <3>1, <3>2
  <2>4. CASE c[n].end >= BlockItems
    <3>1. x = [r EXCEPT !.overrun = TRUE]
      BY <2>1, <2>4 DEF LPushBack
    <3> HIDE DEF x
    <3>2. x \in Chains /\ x.chain = c /\ x.nblock = r.nblock /\ x.overrun = TRUE
      BY <3>1 DEF Chains
    <3>3. c[n].beg > 0 /\ n = 1
      <4> HIDE DEF c, n
      <4>1. c[n].beg > 0
        BY <1>0, <2>3, <2>4
      <4> QED
        BY <1>0, <2>2, <2>3, <4>1
    <3>4. QueueOK(x, s, m)
      BY <1>0, <3>2, <3>3 DEF QueueOK
    <3> QED
      BY <3>2, <3>4 DEF x
  <2>5. CASE ~(c[n].end >= BlockItems)
    <3> DEFINE d == FilledAt(c, n, v)
    <3>1. x = [r EXCEPT !.chain[n] = [c[n] EXCEPT !.items = Append(@, v), !.end = @ + 1]]
      BY <2>1, <2>5 DEF LPushBack
    <3>2. /\ d \in Seq(Blocks) /\ Len(d) = n
          /\ d[n] = [items |-> Append(c[n].items, v), beg |-> c[n].beg, end |-> c[n].end + 1]
          /\ \A i \in 1..n : i # n => d[i] = c[i]
      <4> DEFINE k == n
      <4>1. k \in 1..Len(c) /\ c \in Seq(Blocks)
        BY <1>0, <2>2
      <4> HIDE DEF c, k
      <4>2. LET g == FilledAt(c, k, v)
            IN  /\ g \in Seq(Blocks) /\ Len(g) = Len(c)
                /\ g[k] = [items |-> Append(c[k].items, v), beg |-> c[k].beg, end |-> c[k].end + 1]
                /\ \A i \in 1..Len(c) : i # k => g[i] = c[i]
        BY <4>1, BlockFills
      <4> QED
        BY <4>2 DEF k, c
    <3>3. /\ x.chain = d /\ x.nblock = r.nblock /\ x.nfree = r.nfree /\ x.overrun = r.overrun
          /\ x = [chain |-> x.chain, nblock |-> x.nblock, nfree |-> x.nfree, overrun |-> x.overrun]
      <4> HIDE DEF x
      <4> QED
        BY <3>1 DEF Chains, FilledAt
    <3> HIDE DEF d, x
    <3>4. c[n].end < BlockItems /\ \A i \in 1..n - 1 : d[i] = c[i]
      <4>1. \A i \in 1..n - 1 : i \in 1..n /\ i # n
        BY <1>0
      <4>2. \A i \in 1..n - 1 : d[i] = c[i]
        BY <3>2, <4>1
      <4> HIDE DEF c, n
      <4>3. c[n].end < BlockItems
        BY <1>0, <2>3, <2>5
      <4> QED
        BY <4>2, <4>3
    <3>5. Regular(d) /\ Cut(d, Append(s, v))
      <4> HIDE DEF c, n
      <4>1. n = Len(c)
        BY DEF n
      <4> QED
        BY <1>0, <2>2, <3>2, <3>4, <4>1, LastFills
    <3>6. x \in Chains /\ QueueOK(x, Append(s, v), m)
      BY <1>0, <1>1, <3>2, <3>3, <3>5 DEF QueueOK, Chains
    <3> QED
      BY <1>0, <3>3, <3>6 DEF x
  <2> QED
    BY <2>4, <2>5
<1> QED
  BY <1>3, <1>4

(* pop_front() takes the first item, and an emptied block off the chain.   *)
LEMMA PopIs ==
    ASSUME NEW r \in Chains, NEW s \in Seq(LItems), NEW m, QueueOK(r, s, m), ~r.overrun,
           r.chain # <<>>
    PROVE  LPopFront(r) \in Chains /\ QueueOK(LPopFront(r), Tail(s), m) /\ Tail(s) \in Seq(LItems)
<1> DEFINE c == r.chain
           n == Len(c)
           d == DrainedAt(c, 1)
           x == LPopFront(r)
           a == [r EXCEPT !.chain[1] = [c[1] EXCEPT !.items = Tail(@), !.beg = @ + 1]]
<1>0. /\ c \in Seq(Blocks) /\ r.nblock \in Nat /\ r.nfree \in Nat /\ r.overrun = FALSE
      /\ Regular(c) /\ Cut(c, s) /\ (m = 0 => r.nblock = n)
      /\ n \in Nat /\ Len(s) \in Nat /\ SizeWidth \in Nat
      /\ SizeWidth > MaxHeld /\ MaxHeld \in Nat /\ Len(s) <= MaxHeld
  <2>1. c \in Seq(Blocks) /\ r.nblock \in Nat /\ r.nfree \in Nat /\ r.overrun = FALSE
    BY DEF Chains
  <2>2. n \in Nat /\ Len(s) \in Nat
    BY <2>1, LenProperties
  <2> QED
    BY <2>1, <2>2, LueueAssumption DEF QueueOK
<1>1. /\ Len(s) \in Nat \ {0} /\ 1 \in 1..n /\ Tail(s) \in Seq(LItems) /\ Len(Tail(s)) = Len(s) - 1
      /\ n \in Nat \ {0}
  <2>1. /\ Len(s) \in Nat \ {0} /\ 1 \in 1..n /\ Tail(s) \in Seq(LItems) /\ Len(Tail(s)) = Len(s) - 1
    BY <1>0, ChainHolds
  <2> HIDE DEF n
  <2> QED
    BY <1>0, <2>1
<1>2. n <= Len(s)
  <2>1. PICK off : CutAt(off, c, s)
    BY <1>0 DEF Cut
  <2>2. n \in 0..n
    BY <1>0
  <2>3. n <= off[n] /\ off[n] = Len(s)
    BY <1>0, <2>1, <2>2, CutsGrow DEF CutAt
  <2> QED
    BY <2>3
<1>3. /\ c[1].beg \in Nat /\ c[1].end \in Nat /\ Len(c[1].items) = c[1].end - c[1].beg
      /\ c[1].beg < c[1].end /\ c[1].items \in Seq(LItems)
  BY <1>0, <1>1, BlockIs
<1>4. c[1].items # <<>>
  BY <1>3, EmptySeq
<1>5. /\ d \in Seq(Blocks) /\ Len(d) = n
      /\ d[1] = [items |-> Tail(c[1].items), beg |-> c[1].beg + 1, end |-> c[1].end]
      /\ \A i \in 1..n : i # 1 => d[i] = c[i]
  <2> HIDE DEF c
  <2>1. LET f == DrainedAt(c, 1)
        IN  /\ f \in Seq(Blocks) /\ Len(f) = Len(c)
            /\ f[1] = [items |-> Tail(c[1].items), beg |-> c[1].beg + 1, end |-> c[1].end]
            /\ \A i \in 1..Len(c) : i # 1 => f[i] = c[i]
    BY <1>0, <1>1, <1>4, BlockDrains
  <2> QED
    BY <2>1
<1>6. /\ a.chain = d /\ a.nblock = r.nblock /\ a.nfree = r.nfree /\ a.overrun = FALSE /\ a \in Chains
  <2> HIDE DEF d
  <2>0. a = [r EXCEPT !.chain = d]
    BY DEF DrainedAt, d
  <2> HIDE DEF a
  <2> QED
    BY <1>0, <1>5, <2>0 DEF Chains
<1>7. CASE c[1].beg + 1 # c[1].end
  <2>1. x = a
    <3>1. d[1].beg # d[1].end
      BY <1>5, <1>7
    <3> HIDE DEF d
    <3> QED
      BY <1>6, <3>1 DEF LPopFront
  <2>2. \A k \in 2..n : d[k] = c[k]
    <3>1. \A k \in 2..n : k \in 1..n /\ k # 1
      BY <1>0
    <3> QED
      BY <1>5, <3>1
  <2> HIDE DEF a, d, x
  <2>3. Regular(d) /\ Cut(d, Tail(s))
    BY <1>0, <1>5, <1>7, <2>2, FrontShrinks
  <2>4. QueueOK(a, Tail(s), m)
    BY <1>0, <1>1, <1>5, <1>6, <2>3 DEF QueueOK
  <2> QED
    BY <1>1, <1>6, <2>1, <2>4 DEF x
<1>8. CASE c[1].beg + 1 = c[1].end
  <2> DEFINE i == a.nblock - 1
             f == IF a.nfree < FreeBlockNum THEN a.nfree + 1 ELSE a.nfree
             e == Tail(d)
  <2>1. x = [a EXCEPT !.chain = e, !.nfree = f, !.nblock = Modulo(i)]
    <3>1. d[1].beg = d[1].end
      BY <1>5, <1>8
    <3>2. x = DeleteFrontBlock(a)
      <4> HIDE DEF d
      <4> QED
        BY <1>6, <3>1 DEF LPopFront
    <3> HIDE DEF a, d, x
    <3> QED
      BY <1>6, <3>2 DEF DeleteFrontBlock
  <2>2. i \in Int /\ f \in Nat
    <3> HIDE DEF a
    <3> QED
      BY <1>0, <1>6 DEF FreeBlockNum
  <2>3. Modulo(i) \in Nat /\ (m = 0 => Modulo(i) = n - 1)
    <3>1. m = 0 => i = n - 1
      <4> HIDE DEF a
      <4> QED
        BY <1>0, <1>6
    <3>2. n - 1 < SizeWidth /\ n - 1 \in Nat
      <4> HIDE DEF n
      <4> QED
        BY <1>0, <1>1, <1>2
    <3> HIDE DEF i
    <3>3. Modulo(i) \in Nat
      BY <2>2, ModuloType
    <3> DEFINE j == n - 1
    <3>4. m = 0 => i = j /\ j \in Nat /\ j < SizeWidth
      BY <3>1, <3>2
    <3> HIDE DEF j
    <3>5. m = 0 => Modulo(i) = j
      BY <3>4, ModuloIs
    <3> QED
      BY <3>3, <3>5 DEF j
  <2>4. e \in Seq(Blocks) /\ Len(e) = n - 1 /\ \A k \in 1..n - 1 : e[k] = c[k + 1]
    <3>1. d # <<>>
      BY <1>1, <1>5, EmptySeq
    <3> HIDE DEF d
    <3>2. e \in Seq(Blocks) /\ Len(e) = n - 1 /\ \A k \in 1..Len(e) : e[k] = d[k + 1]
      BY <1>5, <3>1, HeadTailProperties
    <3>3. \A k \in 1..n - 1 : k + 1 \in 1..n /\ k + 1 # 1
      BY <1>0
    <3> HIDE DEF e
    <3> QED
      BY <1>5, <3>2, <3>3
  <2> HIDE DEF e, i, f, a, x
  <2>5. Regular(e) /\ Cut(e, Tail(s))
    BY <1>0, <1>1, <1>8, <2>4, FrontGoes
  <2>6. /\ x.chain = e /\ x.nblock = Modulo(i) /\ x.nfree = f /\ x.overrun = FALSE
        /\ x = [chain |-> x.chain, nblock |-> x.nblock, nfree |-> x.nfree, overrun |-> x.overrun]
    BY <1>6, <2>1 DEF Chains
  <2>7. x \in Chains
    BY <2>2, <2>3, <2>4, <2>6 DEF Chains
  <2>8. QueueOK(x, Tail(s), m)
    BY <1>0, <1>1, <2>3, <2>4, <2>5, <2>6 DEF QueueOK
  <2> QED
    BY <1>1, <2>7, <2>8 DEF x
<1> QED
  BY <1>7, <1>8

(* clear() leaves no block in the chain.                                   *)
LEMMA EmptyIsCut == Cut(<<>>, <<>>) /\ Regular(<<>>) /\ <<>> \in Seq(Blocks) /\ Len(<<>>) = 0
<1>1. <<>> \in Seq(Blocks) /\ Len(<<>>) = 0
  BY EmptySeq
<1>2. CutAt([k \in 0..0 |-> 0], <<>>, <<>>)
  BY <1>1 DEF CutAt
<1>3. Cut(<<>>, <<>>)
  BY <1>2 DEF Cut
<1>4. Regular(<<>>)
  BY <1>1 DEF Regular
<1> QED
  BY <1>1, <1>3, <1>4

(* clear() leaves an empty queue.                                          *)
LEMMA ClearIs ==
    ASSUME NEW r \in Chains, NEW s \in Seq(LItems), NEW m, QueueOK(r, s, m), ~r.overrun
    PROVE  LClear(r) \in Chains /\ QueueOK(LClear(r), <<>>, m)
<1> DEFINE i == r.nblock - Len(r.chain)
           f == IF r.chain = <<>> THEN r.nfree ELSE Max({r.nfree, FreeBlockNum})
           x == LClear(r)
<1>1. /\ r.nblock \in Nat /\ r.nfree \in Nat /\ r.overrun = FALSE /\ Len(r.chain) \in Nat
      /\ MaxHeld \in Nat /\ SizeWidth \in Nat /\ SizeWidth > 0
  <2>1. r.chain \in Seq(Blocks) /\ r.nblock \in Nat /\ r.nfree \in Nat /\ r.overrun = FALSE
    BY DEF Chains
  <2> QED
    BY <2>1, LenProperties, LueueAssumption
<1>2. f \in Nat
  <2>1. \E y \in {r.nfree, 1} : \A z \in {r.nfree, 1} : y >= z
    BY <1>1
  <2> QED
    BY <1>1, <2>1 DEF Max, FreeBlockNum
<1>3. i \in Int /\ (m = 0 => i = 0)
  BY <1>1 DEF QueueOK
<1>4. x = [r EXCEPT !.chain = <<>>, !.nblock = Modulo(i), !.nfree = f]
  BY DEF LClear
<1> HIDE DEF i, f, x
<1>5. Modulo(i) \in Nat /\ (m = 0 => Modulo(i) = 0)
  BY <1>1, <1>3, ModuloType, ModuloIs
<1>6. /\ x.chain = <<>> /\ x.nblock = Modulo(i) /\ x.nfree = f /\ x.overrun = FALSE
      /\ x = [chain |-> x.chain, nblock |-> x.nblock, nfree |-> x.nfree, overrun |-> x.overrun]
  BY <1>1, <1>4 DEF Chains
<1>7. x \in Chains
  BY <1>2, <1>5, <1>6, EmptyIsCut DEF Chains
<1>8. QueueOK(x, <<>>, m)
  BY <1>1, <1>5, <1>6, EmptyIsCut DEF QueueOK
<1> QED
  BY <1>7, <1>8 DEF x

(* reserve() only fills the free list; a move takes the chain.             *)
LEMMA ReserveIs ==
    ASSUME NEW r \in Chains, NEW s \in Seq(LItems), NEW m, QueueOK(r, s, m), NEW n \in Nat
    PROVE  LReserve(r, n) \in Chains /\ QueueOK(LReserve(r, n), s, m)
<1> DEFINE i == BlocksFor(n) - r.nblock
           x == LReserve(r, n)
<1>1. i \in Int
  <2>1. r.nblock \in Nat /\ BlockItems \in Nat \ {0}
    BY LueueAssumption DEF Chains
  <2>2. n + BlockItems - 1 \in Int
    BY <2>1
  <2>3. BlocksFor(n) \in Int
    BY <2>1, <2>2 DEF BlocksFor
  <2> QED
    BY <2>1, <2>3
<1>2. x = r \/ x = [r EXCEPT !.nfree = Modulo(i)]
  BY DEF LReserve
<1> HIDE DEF i, x
<1>3. Modulo(i) \in Nat
  BY <1>1, ModuloType
<1>4. x \in Chains /\ x.chain = r.chain /\ x.nblock = r.nblock /\ x.overrun = r.overrun
  BY <1>2, <1>3 DEF Chains
<1>5. QueueOK(x, s, m)
  BY <1>4 DEF QueueOK
<1> QED
  BY <1>4, <1>5 DEF x

(* A move leaves the items in the target and nothing in the source.        *)
LEMMA MoveIs ==
    ASSUME NEW r \in Chains, NEW s \in Seq(LItems), NEW m \in Nat, QueueOK(r, s, m), ~r.overrun
    PROVE  /\ MovedTo(r) \in Chains /\ QueueOK(MovedTo(r), s, m + 1)
           /\ MovedFrom(r) \in Chains /\ QueueOK(MovedFrom(r), <<>>, m + 1)
<1>1. MovedTo(r) \in Chains /\ MovedTo(r).chain = r.chain /\ MovedTo(r).overrun = FALSE
  BY DEF MovedTo, Chains
<1>2. MovedFrom(r) \in Chains /\ MovedFrom(r).chain = <<>> /\ MovedFrom(r).overrun = FALSE
  BY EmptyIsCut DEF MovedFrom, Chains
<1>3. m + 1 # 0 /\ MaxHeld \in Nat
  BY LueueAssumption
<1> QED
  BY <1>1, <1>2, <1>3, EmptyIsCut DEF QueueOK

(* The queues are empty at first.                                          *)
LEMMA LueueStarts == ASSUME LueueInit PROVE LueueInv
<1>1. MaxHeld \in Nat
  BY LueueAssumption
<1>2. EmptyQueue \in Chains /\ EmptyQueue.chain = <<>> /\ EmptyQueue.nblock = 0 /\ EmptyQueue.overrun = FALSE
  BY EmptyIsCut DEF EmptyQueue, Chains
<1>3. \A m : QueueOK(EmptyQueue, <<>>, m)
  BY <1>1, <1>2, EmptyIsCut DEF QueueOK
<1>4. <<>> \in Seq(LItems)
  BY EmptySeq
<1> QED
  BY <1>2, <1>3, <1>4 DEF LueueInit, LueueInv, LueueTypeOK

(* An operation on one queue leaves the others alone.                      *)
LEMMA LSetKeeps ==
    ASSUME LueueInv, NEW q \in LQueues, NEW r \in Chains, NEW s \in Seq(LItems),
           LSet(q, r, s), QueueOK(r, s, moved[q])
    PROVE  LueueInv'
<1>1. /\ lq' = [lq EXCEPT ![q] = r] /\ kept' = [kept EXCEPT ![q] = s] /\ moved' = moved
      /\ lq \in [LQueues -> Chains] /\ kept \in [LQueues -> Seq(LItems)] /\ moved \in [LQueues -> Nat]
  BY DEF LSet, LueueInv, LueueTypeOK
<1>2. LueueTypeOK'
  BY <1>1 DEF LueueTypeOK
<1>3. ASSUME NEW p \in LQueues PROVE QueueOK(lq'[p], kept'[p], moved'[p])
  <2>1. CASE p = q
    <3>1. lq'[p] = r /\ kept'[p] = s /\ moved'[p] = moved[q]
      BY <1>1, <2>1
    <3> QED
      BY <3>1
  <2>2. CASE p # q
    <3>1. lq'[p] = lq[p] /\ kept'[p] = kept[p] /\ moved'[p] = moved[p]
      BY <1>1, <2>2
    <3>2. QueueOK(lq[p], kept[p], moved[p])
      BY DEF LueueInv
    <3> QED
      BY <3>1, <3>2
  <2> QED
    BY <2>1, <2>2
<1> QED
  BY <1>2, <1>3 DEF LueueInv

(* Every operation keeps the chains regular and cut from what is owed.     *)
LEMMA LueueSteps == LueueInv /\ [LueueNext]_lvars => LueueInv'
<1> SUFFICES ASSUME LueueInv, [LueueNext]_lvars PROVE LueueInv'
  OBVIOUS
<1>0. ASSUME NEW q \in LQueues
      PROVE  /\ lq[q] \in Chains /\ kept[q] \in Seq(LItems) /\ moved[q] \in Nat
             /\ QueueOK(lq[q], kept[q], moved[q])
  BY DEF LueueInv, LueueTypeOK
<1>1. ASSUME NEW q \in LQueues, DoPush(q) PROVE LueueInv'
  <2>1. PICK v \in LItems :
          LET r == LPushBack(lq[q], v)
          IN  LSet(q, r, IF r.overrun THEN kept[q] ELSE Append(kept[q], v))
    BY <1>1 DEF DoPush
  <2> DEFINE r == LPushBack(lq[q], v)
             s == IF r.overrun THEN kept[q] ELSE Append(kept[q], v)
  <2>2. Len(kept[q]) < MaxHeld /\ ~lq[q].overrun
    <3>1. HeldItems < MaxHeld /\ ~lq[q].overrun
      BY <1>1 DEF DoPush, Usable
    <3>2. Len(kept[q]) <= HeldItems /\ Len(kept[q]) \in Nat /\ HeldItems \in Int
      BY HeldBounds
    <3>3. MaxHeld \in Nat
      BY LueueAssumption
    <3> QED
      BY <3>1, <3>2, <3>3
  <2>3. r \in Chains /\ QueueOK(r, s, moved[q])
    BY <1>0, <2>2, PushIs
  <2>4. s \in Seq(LItems)
    <3>1. Append(kept[q], v) \in Seq(LItems)
      BY <1>0, AppendProperties
    <3> HIDE DEF r
    <3> QED
      BY <1>0, <3>1
  <2> HIDE DEF r, s
  <2> QED
    BY <2>1, <2>3, <2>4, LSetKeeps DEF r, s
<1>2. ASSUME NEW q \in LQueues, DoPop(q) PROVE LueueInv'
  <2>1. ~lq[q].overrun /\ lq[q].chain # <<>> /\ LSet(q, LPopFront(lq[q]), Tail(kept[q]))
    BY <1>2 DEF DoPop, Usable, LEmpty
  <2>2. /\ LPopFront(lq[q]) \in Chains /\ QueueOK(LPopFront(lq[q]), Tail(kept[q]), moved[q])
        /\ Tail(kept[q]) \in Seq(LItems)
    BY <1>0, <2>1, PopIs
  <2> QED
    BY <2>1, <2>2, LSetKeeps
<1>3. ASSUME NEW q \in LQueues, DoClear(q) PROVE LueueInv'
  <2>1. ~lq[q].overrun /\ LSet(q, LClear(lq[q]), <<>>)
    BY <1>3 DEF DoClear, Usable
  <2>2. LClear(lq[q]) \in Chains /\ QueueOK(LClear(lq[q]), <<>>, moved[q]) /\ <<>> \in Seq(LItems)
    BY <1>0, <2>1, ClearIs, EmptySeq
  <2> QED
    BY <2>1, <2>2, LSetKeeps
<1>4. ASSUME NEW q \in LQueues, DoReserve(q) PROVE LueueInv'
  <2>1. PICK n \in 0..MaxReserve : LSet(q, LReserve(lq[q], n), kept[q])
    BY <1>4 DEF DoReserve
  <2>2. n \in Nat
    BY LueueAssumption
  <2>3. LReserve(lq[q], n) \in Chains /\ QueueOK(LReserve(lq[q], n), kept[q], moved[q])
    BY <1>0, <2>2, ReserveIs
  <2> QED
    BY <1>0, <2>1, <2>3, LSetKeeps
<1>5. ASSUME NEW q \in LQueues, NEW p \in LQueues, DoMove(q, p) PROVE LueueInv'
  <2>1. /\ q # p /\ ~lq[p].overrun
        /\ lq' = [lq EXCEPT ![q] = MovedTo(lq[p]), ![p] = MovedFrom(lq[p])]
        /\ kept' = [kept EXCEPT ![q] = kept[p], ![p] = <<>>]
        /\ moved' = [moved EXCEPT ![q] = @ + 1, ![p] = @ + 1]
    BY <1>5 DEF DoMove, Usable
  <2>2. /\ MovedTo(lq[p]) \in Chains /\ QueueOK(MovedTo(lq[p]), kept[p], moved[p] + 1)
        /\ MovedFrom(lq[p]) \in Chains /\ QueueOK(MovedFrom(lq[p]), <<>>, moved[p] + 1)
    BY <1>0, <2>1, MoveIs
  <2>3. QueueOK(MovedTo(lq[p]), kept[p], moved[q] + 1)
    <3>1. moved[q] + 1 # 0 /\ moved[p] + 1 # 0
      BY <1>0
    <3> HIDE DEF MovedTo
    <3> QED
      BY <2>2, <3>1 DEF QueueOK
  <2>4. /\ lq \in [LQueues -> Chains] /\ kept \in [LQueues -> Seq(LItems)] /\ moved \in [LQueues -> Nat]
        /\ <<>> \in Seq(LItems)
    BY EmptySeq DEF LueueInv, LueueTypeOK
  <2>5. LueueTypeOK'
    <3>1. lq' \in [LQueues -> Chains] /\ kept' \in [LQueues -> Seq(LItems)]
      BY <1>0, <2>1, <2>2, <2>4
    <3>2. \A o \in LQueues : moved[o] + 1 \in Nat
      BY <1>0
    <3>3. moved' \in [LQueues -> Nat]
      BY <2>1, <2>4, <3>2
    <3> QED
      BY <3>1, <3>3 DEF LueueTypeOK
  <2>6. ASSUME NEW o \in LQueues PROVE QueueOK(lq'[o], kept'[o], moved'[o])
    <3>1. CASE o = q
      <4>1. lq'[o] = MovedTo(lq[p]) /\ kept'[o] = kept[p] /\ moved'[o] = moved[q] + 1
        BY <2>1, <2>4, <3>1
      <4> QED
        BY <2>3, <4>1
    <3>2. CASE o = p
      <4>1. lq'[o] = MovedFrom(lq[p]) /\ kept'[o] = <<>> /\ moved'[o] = moved[p] + 1
        BY <2>1, <2>4, <3>2
      <4> QED
        BY <2>2, <4>1
    <3>3. CASE o # q /\ o # p
      <4>1. lq'[o] = lq[o] /\ kept'[o] = kept[o] /\ moved'[o] = moved[o]
        BY <2>1, <2>4, <3>3
      <4> QED
        BY <1>0, <4>1
    <3> QED
      BY <3>1, <3>2, <3>3
  <2> QED
    BY <2>5, <2>6 DEF LueueInv
<1>6. CASE UNCHANGED lvars
  <2>1. lq' = lq /\ kept' = kept /\ moved' = moved
    BY <1>6 DEF lvars
  <2> QED
    BY <2>1 DEF LueueInv, LueueTypeOK
<1>7. CASE LueueNext
  BY <1>1, <1>2, <1>3, <1>4, <1>5, <1>7 DEF LueueNext
<1> QED
  BY <1>6, <1>7

(* The queue is a FIFO queue: it holds, in order, what was pushed and not  *)
(* popped, through full and emptied blocks, clear(), reserve() and moves;  *)
(* size() counts it unless the queue took part in a move; and only a       *)
(* single block that was popped from can be pushed past its end.           *)
THEOREM LueueIsAQueue == LueueSpec => []LueueIsAFifo
<1>1. LueueInit => LueueInv
  BY LueueStarts
<1>2. LueueInv => LueueIsAFifo
  <2> SUFFICES ASSUME LueueInv PROVE LueueIsAFifo
    OBVIOUS
  <2>0. ASSUME NEW q \in LQueues
        PROVE  /\ lq[q] \in Chains /\ kept[q] \in Seq(LItems) /\ lq[q].chain \in Seq(Blocks)
               /\ QueueOK(lq[q], kept[q], moved[q])
               /\ Regular(lq[q].chain) /\ Cut(lq[q].chain, kept[q])
    <3>1. lq[q] \in Chains /\ kept[q] \in Seq(LItems) /\ QueueOK(lq[q], kept[q], moved[q])
      BY DEF LueueInv, LueueTypeOK
    <3> QED
      BY <3>1 DEF Chains, QueueOK
  <2>1. ASSUME NEW q \in LQueues PROVE LContents(lq[q]) = kept[q]
    BY <2>0, CutIsFlat DEF LContents
  <2>2. ASSUME NEW q \in LQueues, moved[q] = 0
        PROVE  lq[q].nblock = Len(lq[q].chain) /\ LSize(lq[q]) = Len(kept[q])
    <3>1. QueueOK(lq[q], kept[q], 0)
      BY <2>0, <2>2
    <3> QED
      BY <2>0, <3>1, SizeIs DEF QueueOK
  <2>3. QueueKeepsItems
    BY <2>1, <2>2 DEF QueueKeepsItems
  <2>4. OverrunNeedsAPoppedBlock
    <3> SUFFICES ASSUME NEW q \in LQueues
                 PROVE  LET c == lq[q].chain
                        IN  /\ lq[q].overrun => Len(c) = 1 /\ c[1].beg > 0
                            /\ \A k \in DOMAIN c :
                                  /\ c[k].beg < c[k].end /\ c[k].end <= BlockItems
                                  /\ k > 1 => c[k].beg = 0
                                  /\ k < Len(c) => c[k].end = BlockItems
      BY DEF OverrunNeedsAPoppedBlock
    <3>1. DOMAIN lq[q].chain = 1..Len(lq[q].chain)
      BY <2>0, LenProperties
    <3> QED
      BY <2>0, <3>1 DEF QueueOK, Regular
  <2> QED
    BY <2>3, <2>4 DEF LueueIsAFifo
<1>3. QED
  BY <1>1, <1>2, LueueSteps, PTL DEF LueueSpec

-----------------------------------------------------------------------------
(* A remainder is what is left of a number after a multiple of m, and      *)
(* there is one.                                                           *)
LEMMA RemainderIs ==
    ASSUME NEW m \in Nat \ {0}, NEW x \in Int
    PROVE  /\ x % m \in 0..m - 1
           /\ \E q \in Int : x = q * m + (x % m)
<1> DEFINE q == x \div m
           r == x % m
<1>1. q \in Int /\ r \in 0..m - 1
  OBVIOUS
<1>2. q = x \div m /\ r = x % m
  OBVIOUS
<1> HIDE DEF q, r
<1>3. x = q * m + r
  BY <1>1, <1>2
<1>4. \E k \in Int : x = k * m + r
  BY <1>1, <1>3
<1> QED
  BY <1>1, <1>4 DEF r

(* The remainder of a sum with a multiple of m.                            *)
LEMMA RemainderOf ==
    ASSUME NEW m \in Nat \ {0}, NEW q \in Int, NEW r \in 0..m - 1
    PROVE  (q * m + r) % m = r
OBVIOUS

(* Numbers of 0..m-1 are their own remainders.                             *)
LEMMA RemainderSmall ==
    ASSUME NEW m \in Nat \ {0}, NEW r \in 0..m - 1
    PROVE  r % m = r
OBVIOUS

(* The remainder of a sum of which one part was reduced already.           *)
LEMMA ReducedSum ==
    ASSUME NEW m \in Nat \ {0}, NEW w \in Nat \ {0}, w % m = 0, NEW x \in Int, NEW y \in Int
    PROVE  /\ (x + (y % w)) % m = (x + y) % m
           /\ (x - (y % w)) % m = (x - y) % m
<1>0. w \in Int
  OBVIOUS
<1>1. PICK k \in Int : w = k * m + (w % m)
  BY <1>0, RemainderIs
<1>2. PICK q \in Int : y = q * w + (y % w)
  BY RemainderIs
<1> DEFINE s == y % w
           n == q * k
<1>3. s \in Int /\ n \in Int /\ y = q * w + s /\ w = k * m
  BY <1>1, <1>2, RemainderIs
<1> HIDE DEF s
<1>4. q * w = n * m
  BY <1>3
<1> HIDE DEF n
<1>5. y = n * m + s
  BY <1>3, <1>4
<1>6. ASSUME NEW z \in Int, NEW j \in Int PROVE (z + j * m) % m = z % m
  <2>1. PICK p \in Int : z = p * m + (z % m)
    BY RemainderIs
  <2> DEFINE r == z % m
             t == p + j
  <2>2. r \in 0..m - 1 /\ z = p * m + r
    BY <2>1, RemainderIs
  <2> HIDE DEF r
  <2>3. z + j * m = t * m + r /\ t \in Int
    BY <2>2
  <2> HIDE DEF t
  <2>4. (z + j * m) % m = r
    BY <2>2, <2>3, RemainderOf
  <2> QED
    BY <2>4 DEF r
<1>7. (x + y) % m = (x + s) % m
  <2>1. x + y = (x + s) + n * m /\ x + s \in Int
    BY <1>3, <1>5
  <2> QED
    BY ZenonT(40), <1>3, <1>6, <2>1
<1>8. (x - y) % m = (x - s) % m
  <2> DEFINE j == 0 - n
  <2>1. j * m = 0 - n * m /\ j \in Int
    BY <1>3
  <2> HIDE DEF j
  <2>2. x - y = (x - s) + j * m /\ x - s \in Int
    BY <1>3, <1>5, <2>1
  <2> QED
    BY <1>6, <2>1, <2>2
<1> QED
  BY <1>7, <1>8 DEF s

(* An offset around the ring, d further back or d further on.              *)
LEMMA TurnedOffset ==
    ASSUME NEW m \in Nat \ {0}, NEW x \in Int, NEW d \in 0..m
    PROVE  /\ (x - d) % m = IF (x % m) >= d THEN (x % m) - d ELSE (x % m) - d + m
           /\ (x + d) % m = IF (x % m) + d < m THEN (x % m) + d ELSE (x % m) + d - m
<1> DEFINE r == x % m
<1>1. PICK q \in Int : x = q * m + r
  BY RemainderIs
<1>2. r \in 0..m - 1
  BY RemainderIs
<1> HIDE DEF r
<1>3. ASSUME NEW e \in Int, r + e \in 0..m - 1 PROVE (x + e) % m = r + e
  <2>1. x + e = q * m + (r + e)
    BY <1>1, <1>2
  <2> QED
    BY <1>3, <2>1, RemainderOf
<1>4. ASSUME NEW e \in Int, r + e - m \in 0..m - 1 PROVE (x + e) % m = r + e - m
  <2> DEFINE p == q + 1
  <2>1. p * m = q * m + m
    OBVIOUS
  <2>2. x + e = p * m + (r + e - m)
    BY <1>1, <1>2, <2>1
  <2>3. p \in Int
    OBVIOUS
  <2> HIDE DEF p
  <2> QED
    BY <1>4, <2>2, <2>3, RemainderOf
<1>5. ASSUME NEW e \in Int, r + e + m \in 0..m - 1 PROVE (x + e) % m = r + e + m
  <2> DEFINE p == q - 1
  <2>1. p * m = q * m - m
    OBVIOUS
  <2>2. x + e = p * m + (r + e + m)
    BY <1>1, <1>2, <2>1
  <2>3. p \in Int
    OBVIOUS
  <2> HIDE DEF p
  <2> QED
    BY <1>5, <2>2, <2>3, RemainderOf
<1>6. (x - d) % m = IF r >= d THEN r - d ELSE r - d + m
  <2> DEFINE e == 0 - d
  <2>1. x - d = x + e /\ e \in Int /\ r - d = r + e
    BY <1>2
  <2>2. r >= d => r + e \in 0..m - 1
    BY <1>2
  <2>3. ~(r >= d) => r + e + m \in 0..m - 1
    BY <1>2
  <2> HIDE DEF e
  <2> QED
    BY <1>3, <1>5, <2>1, <2>2, <2>3
<1>7. (x + d) % m = IF r + d < m THEN r + d ELSE r + d - m
  <2>1. r + d < m => r + d \in 0..m - 1
    BY <1>2
  <2>2. ~(r + d < m) => r + d - m \in 0..m - 1
    BY <1>2
  <2>3. r + d < m => (x + d) % m = r + d
    BY <1>3, <2>1
  <2>4. ~(r + d < m) => (x + d) % m = r + d - m
    BY <1>4, <2>2
  <2> QED
    BY <2>3, <2>4
<1> QED
  BY <1>6, <1>7 DEF r

(* What the assumption says of the numbers.                                *)
LEMMA RingSizes ==
    /\ Width \in Nat \ {0} /\ MaxItems \in Nat /\ MaxArgs \in Nat /\ MaxArgs > 0
    /\ MaxItems + MaxArgs < Width
    /\ \A c \in Caps : c \in Nat \ {0} /\ c <= Width /\ Width % c = 0
    /\ Raw \notin RItems
BY RueueAssumption

(* mask() and the free-running counters: what was reduced to a counter     *)
(* reaches the same cell.                                                  *)
LEMMA Masks ==
    ASSUME NEW c \in Caps, NEW x \in Int, NEW y \in Int
    PROVE  /\ Wrap(x) \in 0..Width - 1
           /\ Wrap(x) % c = x % c
           /\ (x - Wrap(y)) % c = (x - y) % c
           /\ (x + Wrap(y)) % c = (x + y) % c
<1>1. c \in Nat \ {0} /\ Width \in Nat \ {0} /\ Width % c = 0
  BY RingSizes
<1>2. Wrap(x) \in 0..Width - 1
  BY <1>1, RemainderIs DEF Wrap
<1>3. (x - Wrap(y)) % c = (x - y) % c /\ (x + Wrap(y)) % c = (x + y) % c
  BY ZenonT(40), <1>1, ReducedSum DEF Wrap
<1>4. Wrap(x) % c = x % c
  <2>1. (0 + Wrap(x)) % c = (0 + x) % c
    <3> DEFINE n == 0
    <3>1. n \in Int
      OBVIOUS
    <3> HIDE DEF n
    <3>2. (n + Wrap(x)) % c = (n + x) % c
      BY ZenonT(40), <1>1, <3>1, ReducedSum DEF Wrap
    <3> QED
      BY <3>2 DEF n
  <2>2. 0 + Wrap(x) = Wrap(x) /\ 0 + x = x
    BY <1>2
  <2> QED
    BY <2>1, <2>2
<1> QED
  BY <1>2, <1>3, <1>4

(* A counter that is changed twice.                                        *)
LEMMA Wraps ==
    ASSUME NEW x \in Int, NEW y \in Int
    PROVE  /\ Wrap(x) \in 0..Width - 1
           /\ Wrap(x - Wrap(y)) = Wrap(x - y)
           /\ Wrap(Wrap(y) + x) = Wrap(y + x)
           /\ Wrap(Wrap(y) - x) = Wrap(y - x)
           /\ (x \in 0..Width - 1 => Wrap(x) = x)
<1>1. Width \in Nat \ {0} /\ Width % Width = 0
  <2>1. Width \in Nat \ {0}
    BY RingSizes
  <2>2. (1 * Width + 0) % Width = 0
    BY <2>1, RemainderOf
  <2>3. 1 * Width + 0 = Width
    BY <2>1
  <2> QED
    BY <2>1, <2>2, <2>3
<1>2. Wrap(x) \in 0..Width - 1 /\ Wrap(y) \in 0..Width - 1
  BY <1>1, RemainderIs DEF Wrap
<1>3. Wrap(x - Wrap(y)) = Wrap(x - y) /\ Wrap(x + Wrap(y)) = Wrap(x + y)
  BY <1>1, ReducedSum DEF Wrap
<1>4. x + Wrap(y) = Wrap(y) + x /\ x + y = y + x
  BY <1>2
<1>5. Wrap(Wrap(y) - x) = Wrap(y - x)
  <2> DEFINE z == 0 - x
  <2>1. z \in Int /\ y - x = z + y /\ Wrap(y) - x = z + Wrap(y)
    BY <1>2
  <2> HIDE DEF z
  <2>2. Wrap(z + Wrap(y)) = Wrap(z + y)
    BY <1>1, <2>1, ReducedSum DEF Wrap
  <2> QED
    BY <2>1, <2>2
<1>6. x \in 0..Width - 1 => Wrap(x) = x
  BY <1>1, RemainderSmall DEF Wrap
<1> QED
  BY <1>2, <1>3, <1>4, <1>5, <1>6

\* A ring by its fields, and its cells by their distance from the counter b:
\* the members of w, and then raw cells.
Ring(d, b, e, c) == [data |-> d, beg |-> b, end |-> e, cap |-> c]
Words            == Seq(RItems \cup {Raw})
Held(w, o)       == IF o < Len(w) THEN w[o + 1] ELSE Raw
Cells(c, b, w)   == [x \in 0..c - 1 |-> Held(w, (x - b) % c)]

\* w with t from its k-th member on.
Overwritten(v, w, k, t, c) ==
    \A o \in 0..c - 1 :
        Held(v, o) = IF k <= o /\ o < k + Len(t) THEN t[o - k + 1] ELSE Held(w, o)

(* construct() or destroy() in the cells from the k-th one on.             *)
LEMMA StoreCells ==
    ASSUME NEW c \in Caps, NEW b \in Int, NEW w \in Words, NEW beg, NEW e,
           NEW k \in Nat, NEW t \in Words, k + Len(t) <= c, NEW at, at = Wrap(b + k), NEW v \in Words,
           Overwritten(v, w, k, t, c)
    PROVE  Store(Ring(Cells(c, b, w), beg, e, c), at, t) = Ring(Cells(c, b, v), beg, e, c)
<1> DEFINE d == Cells(c, b, w)
           new == [x \in DOMAIN d |->
                       LET j == (x - at) % c IN IF j < Len(t) THEN t[j + 1] ELSE d[x]]
<1>1. Store(Ring(d, beg, e, c), at, t) = Ring(new, beg, e, c)
  <2> HIDE DEF d
  <2> QED
    BY DEF Store, Ring
<1>2. c \in Nat \ {0} /\ Len(t) \in Nat
  BY RingSizes DEF Words
<1>3. ASSUME NEW x \in 0..c - 1 PROVE new[x] = Cells(c, b, v)[x]
  <2> DEFINE o == (x - b) % c
             j == (x - at) % c
             z == x - b
             y == b + k
  <2>1. z \in Int /\ y \in Int /\ x \in Int /\ x - y = z - k
    BY <1>2
  <2>2. o \in 0..c - 1
    BY <1>2, <2>1, RemainderIs
  <2>3. j = (x - y) % c
    BY <2>1, Masks
  <2>4. k \in 0..c
    BY <1>2
  <2>5. j = IF o >= k THEN o - k ELSE o - k + c
    <3>1. o = z % c
      OBVIOUS
    <3> HIDE DEF j, y, z, o
    <3>2. j = (z - k) % c
      BY <2>1, <2>3
    <3> QED
      BY <1>2, <2>1, <2>4, <3>1, <3>2, TurnedOffset
  <2>6. d[x] = Held(w, o) /\ Cells(c, b, v)[x] = Held(v, o) /\ x \in DOMAIN d
    BY DEF Cells
  <2>7. new[x] = IF j < Len(t) THEN t[j + 1] ELSE Held(w, o)
    <3> HIDE DEF d, j, o
    <3>1. new[x] = IF j < Len(t) THEN t[j + 1] ELSE d[x]
      BY <2>6 DEF j
    <3> QED
      BY <2>6, <3>1
  <2>8. Held(v, o) = IF k <= o /\ o < k + Len(t) THEN t[o - k + 1] ELSE Held(w, o)
    <3> HIDE DEF o
    <3> QED
      BY <2>2 DEF Overwritten
  <2> HIDE DEF d, j, o, new
  <2>9. CASE k <= o /\ o < k + Len(t)
    BY <1>2, <2>2, <2>4, <2>5, <2>6, <2>7, <2>8, <2>9
  <2>10. CASE ~(k <= o /\ o < k + Len(t))
    <3>1. ~(j < Len(t))
      BY <1>2, <2>2, <2>4, <2>5, <2>10
    <3> QED
      BY <2>6, <2>7, <2>8, <2>10, <3>1
  <2> QED
    BY <2>9, <2>10
<1>4. DOMAIN d = 0..c - 1
  BY DEF Cells
<1>5. new = [x \in 0..c - 1 |-> new[x]]
  BY <1>4
<1>6. Cells(c, b, v) = [x \in 0..c - 1 |-> Cells(c, b, v)[x]]
  BY DEF Cells
<1>7. new = Cells(c, b, v)
  <2> HIDE DEF d, new
  <2>1. [x \in 0..c - 1 |-> new[x]] = [x \in 0..c - 1 |-> Cells(c, b, v)[x]]
    BY <1>3
  <2> QED
    BY <1>5, <1>6, <2>1
<1> QED
  BY <1>1, <1>7

(* The same cells, seen from a counter d further on or d further back.     *)
LEMMA TurnedCells ==
    ASSUME NEW c \in Caps, NEW b \in Int, NEW w \in Words, NEW v \in Words, NEW d \in 0..c
    PROVE  /\ (\A o \in 0..c - 1 :
                   Held(v, o) = IF o + d < c THEN Held(w, o + d) ELSE Held(w, o + d - c))
              => Cells(c, b, w) = Cells(c, Wrap(b + d), v)
           /\ (\A o \in 0..c - 1 :
                   Held(v, o) = IF o >= d THEN Held(w, o - d) ELSE Held(w, o - d + c))
              => Cells(c, b, w) = Cells(c, Wrap(b - d), v)
<1>1. c \in Nat \ {0}
  BY RingSizes
<1>2. ASSUME \A o \in 0..c - 1 :
                 Held(v, o) = IF o + d < c THEN Held(w, o + d) ELSE Held(w, o + d - c)
      PROVE  Cells(c, b, w) = Cells(c, Wrap(b + d), v)
  <2>1. ASSUME NEW x \in 0..c - 1 PROVE Held(w, (x - b) % c) = Held(v, (x - Wrap(b + d)) % c)
    <3> DEFINE z == x - b
               y == b + d
               n == z % c
               o == (x - Wrap(y)) % c
    <3>1. z \in Int /\ y \in Int /\ x \in Int /\ x - y = z - d
      BY <1>1
    <3>2. o = (x - y) % c
      <4> HIDE DEF y
      <4> QED
        BY <3>1, Masks
    <3>3. n \in 0..c - 1
      <4> HIDE DEF z
      <4> QED
        BY <1>1, <3>1, RemainderIs
    <3>4. o = IF n >= d THEN n - d ELSE n - d + c
      <4>1. n = z % c
        OBVIOUS
      <4> HIDE DEF o, z, y, n
      <4>2. o = (z - d) % c
        BY <3>1, <3>2
      <4> QED
        BY <1>1, <3>1, <4>1, <4>2, TurnedOffset
    <3> HIDE DEF o, n
    <3>5. o \in 0..c - 1
      BY <1>1, <3>3, <3>4
    <3>6. Held(v, o) = IF o + d < c THEN Held(w, o + d) ELSE Held(w, o + d - c)
      BY <1>2, <3>5
    <3>7. n = IF o + d < c THEN o + d ELSE o + d - c
      BY <1>1, <3>3, <3>4
    <3>8. Held(v, o) = Held(w, n)
      BY <3>6, <3>7
    <3> QED
      BY <3>8 DEF o, n
  <2> QED
    BY <2>1 DEF Cells
<1>3. ASSUME \A o \in 0..c - 1 :
                 Held(v, o) = IF o >= d THEN Held(w, o - d) ELSE Held(w, o - d + c)
      PROVE  Cells(c, b, w) = Cells(c, Wrap(b - d), v)
  <2>1. ASSUME NEW x \in 0..c - 1 PROVE Held(w, (x - b) % c) = Held(v, (x - Wrap(b - d)) % c)
    <3> DEFINE z == x - b
               y == b - d
               n == z % c
               o == (x - Wrap(y)) % c
    <3>1. z \in Int /\ y \in Int /\ x \in Int /\ x - y = z + d
      BY <1>1
    <3>2. o = (x - y) % c
      <4> HIDE DEF y
      <4> QED
        BY <3>1, Masks
    <3>3. n \in 0..c - 1
      <4> HIDE DEF z
      <4> QED
        BY <1>1, <3>1, RemainderIs
    <3>4. o = IF n + d < c THEN n + d ELSE n + d - c
      <4>1. n = z % c
        OBVIOUS
      <4> HIDE DEF o, z, y, n
      <4>2. o = (z + d) % c
        BY <3>1, <3>2
      <4> QED
        BY <1>1, <3>1, <4>1, <4>2, TurnedOffset
    <3> HIDE DEF o, n
    <3>5. o \in 0..c - 1
      BY <1>1, <3>3, <3>4
    <3>6. Held(v, o) = IF o >= d THEN Held(w, o - d) ELSE Held(w, o - d + c)
      BY <1>3, <3>5
    <3>7. n = IF o >= d THEN o - d ELSE o - d + c
      BY <1>1, <3>3, <3>4
    <3>8. Held(v, o) = Held(w, n)
      BY <3>6, <3>7
    <3> QED
      BY <3>8 DEF o, n
  <2> QED
    BY <2>1 DEF Cells
<1> QED
  BY <1>2, <1>3

\* A ring that holds the items s and stands at b.
RingOf(b, s, c) == Ring(Cells(c, b, s), b, Wrap(b + Len(s)), c)
Legal(b, s, c) ==
    /\ b \in 0..Width - 1 /\ c \in Caps \cup {0}
    /\ s \in Seq(RItems) /\ Len(s) <= c /\ Len(s) < Width
Rings(r, s) == \E b \in 0..Width - 1, c \in Caps \cup {0} : Legal(b, s, c) /\ r = RingOf(b, s, c)

(* The size, the counters and the capacity of a ring.                      *)
LEMMA RingFields ==
    ASSUME NEW b, NEW s, NEW c, Legal(b, s, c)
    PROVE  LET r == RingOf(b, s, c)
           IN  /\ r.beg = b /\ r.end = Wrap(b + Len(s)) /\ r.cap = c /\ r.data = Cells(c, b, s)
               /\ RSize(r) = Len(s) /\ Len(s) \in Nat /\ b \in Int
               /\ c \in Nat /\ (c = 0 => s = <<>>) /\ (c # 0 => c \in Caps)
               /\ s \in Words
<1> DEFINE r == RingOf(b, s, c)
           n == Len(s)
<1>1. b \in 0..Width - 1 /\ c \in Caps \cup {0} /\ s \in Seq(RItems) /\ n <= c /\ n < Width
      /\ n \in Nat /\ Width \in Nat \ {0} /\ c \in Nat
  BY RingSizes DEF Legal
<1>2. r.beg = b /\ r.end = Wrap(b + n) /\ r.cap = c /\ r.data = Cells(c, b, s)
  BY DEF RingOf, Ring
<1>3. RSize(r) = n
  <2> HIDE DEF r, n
  <2>1. b \in Int /\ b + n \in Int /\ 0 - b \in Int /\ n \in 0..Width - 1 /\ (b + n) - b = n
    BY <1>1
  <2>2. Wrap(Wrap(b + n) - b) = Wrap((b + n) - b)
    <3> DEFINE y == b + n
    <3>1. y \in Int
      BY <2>1
    <3> HIDE DEF y
    <3> QED
      BY <2>1, <3>1, Wraps
  <2>3. Wrap(n) = n
    BY <1>1, <2>1, Wraps
  <2> QED
    BY <1>2, <2>1, <2>2, <2>3 DEF RSize
<1>4. c = 0 => s = <<>>
  BY <1>1, EmptySeq
<1>5. s \in Words
  BY <1>1 DEF Words
<1> QED
  BY <1>1, <1>2, <1>3, <1>4, <1>5

(* operator[] and the iterators give the items.                            *)
LEMMA ItemsOf ==
    ASSUME NEW b, NEW s, NEW c, Legal(b, s, c)
    PROVE  Items(RingOf(b, s, c)) = s
<1> DEFINE r == RingOf(b, s, c)
<1>1. /\ r.beg = b /\ r.cap = c /\ r.data = Cells(c, b, s)
      /\ RSize(r) = Len(s) /\ Len(s) \in Nat /\ b \in Int /\ Len(s) <= c
      /\ c \in Nat /\ (c # 0 => c \in Caps) /\ s \in Seq(RItems)
  <2>1. Len(s) <= c /\ s \in Seq(RItems)
    BY DEF Legal
  <2> QED
    BY <2>1, RingFields
<1> HIDE DEF r
<1>2. ASSUME NEW k \in 1..Len(s) PROVE RItem(r, Wrap(r.beg + k - 1)) = s[k]
  <2> DEFINE o == k - 1
             y == b + o
             x == Wrap(y) % c
  <2>1. c \in Caps /\ o \in 0..c - 1 /\ y \in Int /\ y - b = o /\ c \in Nat \ {0} /\ o < Len(s)
        /\ o + 1 = k
    BY <1>1, RingSizes
  <2>2. r.beg + k - 1 = y
    BY <1>1
  <2> HIDE DEF y
  <2>3. x = y % c /\ x \in 0..c - 1
    BY <2>1, Masks, RemainderIs
  <2>4. (x - b) % c = o
    <3> DEFINE z == 0 - b
    <3>1. z \in Int /\ x - b = z + x /\ z + y = o
      BY <1>1, <2>1, <2>3
    <3>2. c % c = 0
      <4>1. (1 * c + 0) % c = 0 /\ 1 * c + 0 = c
        BY <2>1, RemainderOf
      <4> QED
        BY <4>1
    <3> HIDE DEF z, x
    <3>3. (z + (y % c)) % c = (z + y) % c
      BY ZenonT(40), <2>1, <3>1, <3>2, ReducedSum
    <3>4. o % c = o
      BY <2>1, RemainderSmall
    <3> QED
      BY <2>3, <3>1, <3>3, <3>4
  <2>5. RItem(r, Wrap(y)) = r.data[x]
    BY <1>1, <2>1 DEF RItem, Mask
  <2>6. r.data[x] = Held(s, (x - b) % c)
    <3> HIDE DEF x
    <3> QED
      BY <1>1, <2>3 DEF Cells
  <2>7. Held(s, o) = s[k]
    BY <2>1 DEF Held
  <2> HIDE DEF x, o
  <2> QED
    BY <2>2, <2>4, <2>5, <2>6, <2>7
<1>3. s = [k \in 1..Len(s) |-> s[k]]
  BY <1>1
<1>4. Items(r) = [k \in 1..Len(s) |-> s[k]]
  BY <1>1, <1>2 DEF Items
<1> QED
  BY <1>3, <1>4 DEF r

(* size_policy() has a capacity for every size the bounds allow.           *)
LEMMA SizePolicyIs ==
    ASSUME NEW n \in 0..MaxItems + MaxArgs
    PROVE  SizePolicy(n) \in Caps /\ n <= SizePolicy(n)
<1> DEFINE Fits == {c \in Caps : n <= c}
<1>1. Width \in Nat /\ Fits \in SUBSET (0..Width) /\ n \in Nat
  BY RingSizes
<1>2. Fits # {}
  BY RueueAssumption
<1>3. PICK c \in Fits : \A d \in Fits : c <= d
  <2> HIDE DEF Fits
  <2> QED
    BY <1>1, <1>2, Least
<1>4. \E e \in Caps : n <= e /\ \A d \in Caps : n <= d => e <= d
  BY <1>3
<1> QED
  BY <1>4 DEF SizePolicy

(* A new allocation.                                                       *)
LEMMA AllocatedIs ==
    ASSUME NEW s \in Seq(RItems), NEW c \in Caps, Len(s) <= c, Len(s) < Width
    PROVE  Allocated(s, c) = RingOf(0, s, c) /\ Legal(0, s, c)
<1>1. c \in Nat \ {0} /\ Len(s) \in Nat /\ Width \in Nat \ {0} /\ 0 + Len(s) = Len(s)
  BY RingSizes
<1>2. Wrap(0 + Len(s)) = Len(s)
  BY <1>1, Wraps
<1>3. Cells(c, 0, s) = [i \in 0..c - 1 |-> IF i < Len(s) THEN s[i + 1] ELSE Raw]
  <2>1. ASSUME NEW i \in 0..c - 1
        PROVE  Held(s, (i - 0) % c) = IF i < Len(s) THEN s[i + 1] ELSE Raw
    <3>1. i - 0 = i /\ i % c = i
      BY <1>1, RemainderSmall
    <3> QED
      BY <3>1 DEF Held
  <2> QED
    BY <2>1 DEF Cells
<1> QED
  BY SMTT(30), <1>1, <1>2, <1>3 DEF Allocated, RingOf, Ring, Legal

(* realloc() and reserve(): the items stay, and there is room for n.       *)
LEMMA ReallocIs ==
    ASSUME NEW b, NEW s, NEW c, Legal(b, s, c), NEW n \in 0..MaxItems + MaxArgs
    PROVE  LET r == RingOf(b, s, c)
           IN  /\ n >= Len(s) => Rings(Realloc(r, n), s)
               /\ \E a, k : /\ Legal(a, s, k) /\ n <= k /\ Reserve(r, n) = RingOf(a, s, k)
                            /\ a = b \/ a = 0
<1> DEFINE r == RingOf(b, s, c)
           k == SizePolicy(n)
<1>1. /\ r.cap = c /\ Items(r) = s /\ RSize(r) = Len(s) /\ c \in Nat /\ Len(s) \in Nat /\ n \in Nat
      /\ k \in Caps /\ n <= k /\ s \in Seq(RItems) /\ Len(s) < Width /\ Len(s) <= c
      /\ k \in Nat /\ Width \in Nat
  BY RingFields, ItemsOf, SizePolicyIs, RingSizes DEF Legal
<1> HIDE DEF r, k
<1>2. Realloc(r, n) = Allocated(s, k)
  BY <1>1 DEF Realloc, k
<1>3. ASSUME n >= Len(s) PROVE Realloc(r, n) = RingOf(0, s, k) /\ Legal(0, s, k)
  BY <1>1, <1>2, <1>3, AllocatedIs
<1>4. n >= Len(s) => Rings(Realloc(r, n), s)
  BY <1>3 DEF Rings, Legal
<1>5. CASE c >= n
  BY <1>1, <1>4, <1>5 DEF Reserve, r
<1>6. CASE ~(c >= n)
  <2>1. n >= Len(s) /\ Reserve(r, n) = Realloc(r, n)
    BY <1>1, <1>6 DEF Reserve
  <2> QED
    BY <1>1, <1>3, <1>4, <2>1 DEF r
<1> QED
  BY <1>5, <1>6

(* One field of a ring set anew.                                           *)
LEMMA RingSet ==
    ASSUME NEW d, NEW b, NEW e, NEW c, NEW x
    PROVE  /\ [Ring(d, b, e, c) EXCEPT !.beg = x] = Ring(d, x, e, c)
           /\ [Ring(d, b, e, c) EXCEPT !.end = x] = Ring(d, b, x, c)
           /\ Ring(d, b, e, c).beg = b /\ Ring(d, b, e, c).end = e
           /\ Ring(d, b, e, c).cap = c /\ Ring(d, b, e, c).data = d
BY DEF Ring

(* A part of a sequence, and a sequence with a part of it replaced.        *)
LEMMA PartIs ==
    ASSUME NEW S, NEW s \in Seq(S), NEW i \in 1..Len(s) + 1, NEW j \in i - 1..Len(s)
    PROVE  /\ SubSeq(s, i, j) \in Seq(S)
           /\ Len(SubSeq(s, i, j)) = j - i + 1
           /\ \A k \in 1..j - i + 1 : SubSeq(s, i, j)[k] = s[i + k - 1]
<1>1. Len(s) \in Nat
  OBVIOUS
<1> QED
  BY <1>1, SubSeqProperties

(* What a spliced sequence holds.                                          *)
LEMMA SpliceIs ==
    ASSUME NEW S, NEW s \in Seq(S), NEW t \in Seq(S), NEW i \in 0..Len(s), NEW j \in i..Len(s)
    PROVE  LET u == Splice(s, i, j, t)
           IN  /\ u \in Seq(S) /\ Len(u) = Len(s) - (j - i) + Len(t)
               /\ \A k \in 1..Len(u) :
                      u[k] = IF k <= i THEN s[k]
                             ELSE IF k <= i + Len(t) THEN t[k - i] ELSE s[k - Len(t) + (j - i)]
<1> DEFINE a == SubSeq(s, 1, i)
           b == SubSeq(s, j + 1, Len(s))
           m == Len(t)
           n == Len(s)
<1>1. n \in Nat /\ m \in Nat /\ i \in Nat /\ j \in Nat /\ i <= j /\ j <= n
  OBVIOUS
<1>2. a \in Seq(S) /\ Len(a) = i /\ \A k \in 1..i : a[k] = s[k]
  <2>1. 1 \in 1..n + 1 /\ i \in 1 - 1..n /\ i - 1 + 1 = i
    BY <1>1
  <2>2. a \in Seq(S) /\ Len(a) = i - 1 + 1 /\ \A k \in 1..i - 1 + 1 : a[k] = s[1 + k - 1]
    BY <2>1, PartIs
  <2> QED
    BY <2>1, <2>2
<1>3. b \in Seq(S) /\ Len(b) = n - j /\ \A k \in 1..n - j : b[k] = s[j + k]
  <2>1. j + 1 \in 1..n + 1 /\ n \in (j + 1) - 1..n /\ n - (j + 1) + 1 = n - j
    BY <1>1
  <2>2. b \in Seq(S) /\ Len(b) = n - (j + 1) + 1 /\ \A k \in 1..n - (j + 1) + 1 : b[k] = s[(j + 1) + k - 1]
    BY <2>1, PartIs
  <2> HIDE DEF b
  <2>3. \A k \in 1..n - j : b[k] = s[j + k]
    <3> SUFFICES ASSUME NEW k \in 1..n - j PROVE b[k] = s[j + k]
      OBVIOUS
    <3>1. k \in 1..n - (j + 1) + 1 /\ (j + 1) + k - 1 = j + k
      BY <1>1, <2>1
    <3> QED
      BY <2>2, <3>1
  <2> QED
    BY <2>1, <2>2, <2>3
<1> HIDE DEF a, b
<1>4. a \o t \in Seq(S) /\ Len(a \o t) = i + m
      /\ \A k \in 1..i + m : (a \o t)[k] = IF k <= i THEN a[k] ELSE t[k - i]
  BY <1>1, <1>2, ConcatProperties
<1> DEFINE c == a \o t
<1> HIDE DEF c
<1>5. c \in Seq(S) /\ Len(c) = i + m /\ \A k \in 1..i + m : c[k] = IF k <= i THEN s[k] ELSE t[k - i]
  BY <1>1, <1>2, <1>4 DEF c
<1>6. c \o b \in Seq(S) /\ Len(c \o b) = i + m + (n - j)
      /\ \A k \in 1..i + m + (n - j) : (c \o b)[k] = IF k <= i + m THEN c[k] ELSE b[k - (i + m)]
  <2>1. b \in Seq(S) /\ Len(b) = n - j /\ c \in Seq(S) /\ Len(c) = i + m
    BY <1>3, <1>5
  <2> HIDE DEF m, n
  <2>2. c \o b \in Seq(S) /\ Len(c \o b) = Len(c) + Len(b)
        /\ \A k \in 1..Len(c) + Len(b) : (c \o b)[k] = IF k <= Len(c) THEN c[k] ELSE b[k - Len(c)]
    BY <2>1, ConcatProperties
  <2> QED
    BY <2>1, <2>2
<1>7. Splice(s, i, j, t) = c \o b
  BY DEF Splice, a, b, c
<1> DEFINE u == c \o b
<1> HIDE DEF u
<1>8. u \in Seq(S) /\ Len(u) = n - (j - i) + m
  BY <1>1, <1>6 DEF u
<1>9. ASSUME NEW k \in 1..Len(u)
      PROVE  u[k] = IF k <= i THEN s[k] ELSE IF k <= i + m THEN t[k - i] ELSE s[k - m + (j - i)]
  <2>1. k \in 1..i + m + (n - j) /\ u[k] = IF k <= i + m THEN c[k] ELSE b[k - (i + m)]
    BY <1>1, <1>6, <1>8 DEF u
  <2>2. CASE k <= i + m
    BY <1>1, <1>5, <2>1, <2>2
  <2>3. CASE ~(k <= i + m)
    <3>1. k - (i + m) \in 1..n - j /\ j + (k - (i + m)) = k - m + (j - i)
      BY <1>1, <2>1, <2>3
    <3>2. b[k - (i + m)] = s[k - m + (j - i)]
      BY <1>3, <3>1
    <3> QED
      BY <1>1, <2>1, <2>3, <3>2
  <2> QED
    BY <2>2, <2>3
<1> QED
  BY <1>7, <1>8, <1>9 DEF u

\* What is o cells behind the first of Splice(s, i, j, t).
Spliced(u, s, i, j, t) ==
    \A o \in Nat : Held(u, o) = IF o < i THEN Held(s, o)
                                ELSE IF o < i + Len(t) THEN t[o - i + 1]
                                ELSE Held(s, o - Len(t) + (j - i))

(* And by its offsets, the raw cells behind its last member included.      *)
LEMMA HeldSplice ==
    ASSUME NEW s \in Words, NEW t \in Words, NEW i \in 0..Len(s), NEW j \in i..Len(s)
    PROVE  Spliced(Splice(s, i, j, t), s, i, j, t)
<1> DEFINE u == Splice(s, i, j, t)
           m == Len(t)
           n == Len(s)
<1>1. n \in Nat /\ m \in Nat /\ i \in Nat /\ j \in Nat /\ i <= j /\ j <= n
  BY DEF Words
<1>2. /\ Len(u) = n - (j - i) + m
      /\ \A k \in 1..Len(u) :
             u[k] = IF k <= i THEN s[k] ELSE IF k <= i + m THEN t[k - i] ELSE s[k - m + (j - i)]
  BY SpliceIs DEF Words
<1> HIDE DEF u, m, n
<1>3. ASSUME NEW o \in Nat
      PROVE  Held(u, o) = IF o < i THEN Held(s, o)
                          ELSE IF o < i + m THEN t[o - i + 1] ELSE Held(s, o - m + (j - i))
  <2> DEFINE k == o + 1
  <2>0. Len(u) \in Int
    BY <1>1, <1>2
  <2>1. k \in Nat /\ k > 0 /\ k - i = o - i + 1 /\ k - m + (j - i) = (o - m + (j - i)) + 1
        /\ (o < Len(u) <=> k <= Len(u))
    BY <1>1, <2>0
  <2>2. CASE o < Len(u)
    <3>1. k \in 1..Len(u)
      BY <1>1, <1>2, <2>1, <2>2
    <3>2. Held(u, o) = u[k]
      BY <2>2 DEF Held
    <3>3. u[k] = IF k <= i THEN s[k] ELSE IF k <= i + m THEN t[k - i] ELSE s[k - m + (j - i)]
      BY <1>2, <3>1
    <3>4. o < i => Held(s, o) = s[k]
      BY <1>1 DEF Held, n
    <3>5. o >= i + m => Held(s, o - m + (j - i)) = s[k - m + (j - i)]
      <4>1. o - m + (j - i) < n
        BY <1>1, <1>2, <2>2
      <4> QED
        BY <2>1, <4>1 DEF Held, n
    <3> QED
      BY <1>1, <2>1, <3>2, <3>3, <3>4, <3>5
  <2>3. CASE ~(o < Len(u))
    <3>1. ~(o < i) /\ ~(o < i + m) /\ ~(o - m + (j - i) < n)
      BY <1>1, <1>2, <2>3
    <3> QED
      BY <2>3, <3>1 DEF Held, n
  <2> QED
    BY <2>2, <2>3
<1> QED
  BY <1>3 DEF Spliced, u, m, n

(* The ends of a sequence are the cases of Splice that push and pop use.   *)
LEMMA SpliceEnds ==
    ASSUME NEW S, NEW s \in Seq(S), NEW v \in S
    PROVE  LET n == Len(s)
           IN  /\ Append(s, v) = Splice(s, n, n, <<v>>)
               /\ <<v>> \o s = Splice(s, 0, 0, <<v>>)
               /\ SubSeq(s, 1, 0) \o <<v>> = <<v>>
               /\ <<v>> \o SubSeq(s, n + 1, n) = <<v>>
<1> DEFINE n == Len(s)
<1>1. n \in Nat /\ <<v>> \in Seq(S) /\ Len(<<v>>) = 1
  OBVIOUS
<1>2. SubSeq(s, 1, 0) = <<>> /\ SubSeq(s, n + 1, n) = <<>>
  <2>1. 1 \in 1..n + 1 /\ 0 \in 1 - 1..n /\ n + 1 \in 1..n + 1 /\ n \in (n + 1) - 1..n
    BY <1>1
  <2>2. SubSeq(s, 1, 0) \in Seq(S) /\ Len(SubSeq(s, 1, 0)) = 0
    <3>1. Len(SubSeq(s, 1, 0)) = 0 - 1 + 1 /\ SubSeq(s, 1, 0) \in Seq(S)
      BY <2>1, PartIs
    <3> QED
      BY <3>1
  <2>3. SubSeq(s, n + 1, n) \in Seq(S) /\ Len(SubSeq(s, n + 1, n)) = 0
    <3>1. Len(SubSeq(s, n + 1, n)) = n - (n + 1) + 1 /\ SubSeq(s, n + 1, n) \in Seq(S)
      BY <2>1, PartIs
    <3> QED
      BY <1>1, <3>1
  <2> QED
    BY <2>2, <2>3, EmptySeq
<1>3. SubSeq(s, 1, n) = s
  <2>1. 1 \in 1..n + 1 /\ n \in 1 - 1..n /\ n - 1 + 1 = n
    BY <1>1
  <2>2. SubSeq(s, 1, n) \in Seq(S) /\ Len(SubSeq(s, 1, n)) = n - 1 + 1
        /\ \A k \in 1..n - 1 + 1 : SubSeq(s, 1, n)[k] = s[1 + k - 1]
    BY <2>1, PartIs
  <2>3. \A k \in 1..n : SubSeq(s, 1, n)[k] = s[k]
    BY <2>1, <2>2
  <2> QED
    BY <2>1, <2>2, <2>3, SeqEqual
<1>4. Append(s, v) = s \o <<v>>
  BY AppendIsConcat
<1> DEFINE e == <<v>>
           a == s \o e
<1> HIDE DEF n
<1>5. /\ a \o <<>> = a /\ e \o <<>> = e /\ <<>> \o e = e /\ a \in Seq(S)
  BY <1>1, ConcatEmptySeq
<1>6. Splice(s, n, n, e) = a \o <<>>
  BY <1>2, <1>3 DEF Splice, n
<1>7. Splice(s, 0, 0, e) = (<<>> \o e) \o s
  <2>1. 0 + 1 = 1
    OBVIOUS
  <2> QED
    BY <1>2, <1>3, <2>1 DEF Splice, n
<1> QED
  BY <1>2, <1>4, <1>5, <1>6, <1>7 DEF n

(* Room is made at the front: the new values, and the i items they pass,   *)
(* go into the cells before beg.                                           *)
MadeFront(r, s, i, t) ==
    [Store(r, Wrap(r.beg - Len(t)), SubSeq(s, 1, i) \o t) EXCEPT !.beg = Wrap(@ - Len(t))]
MadeBack(r, s, i, t) ==
    [Store(r, Wrap(r.beg + i), t \o SubSeq(s, i + 1, Len(s))) EXCEPT !.end = Wrap(@ + Len(t))]

(* The ring then holds the items with t before the i-th, and begins        *)
(* earlier.                                                                *)
LEMMA MadeFrontIs ==
    ASSUME NEW b, NEW s, NEW c, Legal(b, s, c), NEW t \in Seq(RItems), NEW i \in 0..Len(s),
           Len(s) + Len(t) <= c, Len(s) + Len(t) < Width, c # 0
    PROVE  /\ MadeFront(RingOf(b, s, c), s, i, t) = RingOf(Wrap(b - Len(t)), Splice(s, i, i, t), c)
           /\ Legal(Wrap(b - Len(t)), Splice(s, i, i, t), c)
<1> DEFINE n == Len(s)
           m == Len(t)
           x == Wrap(b - m)
           e == Wrap(b + n)
           h == SubSeq(s, 1, i)
           u == h \o t
           w == Splice(s, 0, 0, Raws(m))
           v == Splice(s, i, i, t)
<1>1. /\ c \in Caps /\ c \in Nat /\ b \in Int /\ s \in Words /\ t \in Words /\ s \in Seq(RItems)
      /\ n \in Nat /\ m \in Nat /\ i \in Nat /\ i <= n /\ n + m <= c /\ n + m < Width
      /\ Width \in Nat \ {0} /\ b \in 0..Width - 1
  BY RingFields, RingSizes DEF Legal, Words
<1>2. Raws(m) \in Words /\ Len(Raws(m)) = m /\ \A k \in 1..m : Raws(m)[k] = Raw
  BY <1>1 DEF Raws, Words
<1>3. h \in Words /\ Len(h) = i /\ \A k \in 1..i : h[k] = s[k]
  <2>1. 1 \in 1..n + 1 /\ i \in 1 - 1..n /\ i - 1 + 1 = i
    BY <1>1
  <2>2. h \in Words /\ Len(h) = i - 1 + 1 /\ \A k \in 1..i - 1 + 1 : h[k] = s[1 + k - 1]
    BY <1>1, <2>1, PartIs DEF Words
  <2> QED
    BY <2>1, <2>2
<1>4. v \in Seq(RItems) /\ Len(v) = n + m /\ Spliced(v, s, i, i, t) /\ v \in Words
  <2>1. i \in i..n /\ i \in 0..n /\ n - (i - i) + m = n + m
    BY <1>1
  <2>2. v \in Seq(RItems) /\ Len(v) = n - (i - i) + m
    BY <1>1, <2>1, SpliceIs
  <2>3. Spliced(v, s, i, i, t)
    BY <1>1, <2>1, HeldSplice
  <2>4. v \in Words
    BY <2>2 DEF Words
  <2> QED
    BY <2>1, <2>2, <2>3, <2>4
<1>5. Spliced(w, s, 0, 0, Raws(m)) /\ w \in Words
  <2> DEFINE z == 0
  <2>1. z \in 0..n /\ z \in z..n /\ z = 0
    BY <1>1
  <2> HIDE DEF z
  <2>2. Spliced(Splice(s, z, z, Raws(m)), s, z, z, Raws(m))
    BY <1>1, <1>2, <2>1, HeldSplice
  <2>3. Splice(s, z, z, Raws(m)) \in Words
    BY <1>1, <1>2, <2>1, SpliceIs DEF Words
  <2> QED
    BY <2>1, <2>2, <2>3
<1> HIDE DEF n, m, x, e, h, w, v
<1>6. u \in Words /\ Len(u) = i + m /\ \A k \in 1..i + m : u[k] = IF k <= i THEN s[k] ELSE t[k - i]
  <2>1. u \in Words /\ Len(u) = i + m
        /\ \A k \in 1..i + m : u[k] = IF k <= i THEN h[k] ELSE t[k - i]
    BY ZenonT(40), <1>1, <1>3, ConcatProperties DEF Words, m
  <2> HIDE DEF u
  <2> QED
    BY <1>1, <1>3, <2>1
<1> HIDE DEF u
<1>7. Cells(c, b, s) = Cells(c, x, w)
  <2>1. ASSUME NEW o \in 0..c - 1
        PROVE  Held(w, o) = IF o >= m THEN Held(s, o - m) ELSE Held(s, o - m + c)
    <3>1. Held(w, o) = IF o < m THEN Raws(m)[o + 1] ELSE Held(s, o - m)
      <4>1. Held(w, o) = IF o < 0 THEN Held(s, o)
                         ELSE IF o < 0 + Len(Raws(m)) THEN Raws(m)[o - 0 + 1]
                         ELSE Held(s, o - Len(Raws(m)) + (0 - 0))
        BY <1>1, <1>5 DEF Spliced
      <4>2. o \in Nat /\ ~(o < 0) /\ o - 0 + 1 = o + 1 /\ o - m + (0 - 0) = o - m /\ 0 + m = m
        BY <1>1
      <4> QED
        BY <1>2, <4>1, <4>2
    <3>2. o < m => Held(w, o) = Raw /\ Held(s, o - m + c) = Raw
      <4> SUFFICES ASSUME o < m PROVE Held(w, o) = Raw /\ Held(s, o - m + c) = Raw
        OBVIOUS
      <4>1. o + 1 \in 1..m /\ ~(o - m + c < n)
        BY <1>1
      <4> QED
        BY <1>2, <3>1, <4>1 DEF Held, n
    <3>3. o < m \/ o >= m
      BY <1>1
    <3>4. o >= m => ~(o < m)
      BY <1>1
    <3> QED
      BY <3>1, <3>2, <3>3, <3>4
  <2>2. m \in 0..c
    BY <1>1
  <2>3. Cells(c, b, s) = Cells(c, Wrap(b - m), w)
    BY <1>1, <1>5, <2>1, <2>2, TurnedCells
  <2> QED
    BY <2>3 DEF x
<1>8. x \in 0..Width - 1 /\ x \in Int /\ Wrap(x + 0) = x
  <2>1. b - m \in Int
    BY <1>1
  <2>2. x \in 0..Width - 1
    BY <2>1, Wraps DEF x
  <2>3. x \in Int /\ x + 0 = x
    BY <1>1, <2>2
  <2> QED
    BY <2>2, <2>3, Wraps
<1>9. Store(Ring(Cells(c, x, w), b, e, c), x, u) = Ring(Cells(c, x, v), b, e, c)
  <2>1. ASSUME NEW o \in 0..c - 1
        PROVE  Held(v, o) = IF 0 <= o /\ o < 0 + Len(u) THEN u[o - 0 + 1] ELSE Held(w, o)
    <3>1. Held(v, o) = IF o < i THEN Held(s, o)
                       ELSE IF o < i + m THEN t[o - i + 1] ELSE Held(s, o - m)
      <4>1. Held(v, o) = IF o < i THEN Held(s, o)
                         ELSE IF o < i + Len(t) THEN t[o - i + 1]
                         ELSE Held(s, o - Len(t) + (i - i))
        BY <1>1, <1>4 DEF Spliced
      <4>2. o - m + (i - i) = o - m
        BY <1>1
      <4> QED
        BY <4>1, <4>2 DEF m
    <3>2. CASE o < i + m
      <4>1. o + 1 \in 1..i + m /\ (o + 1 <= i <=> o < i) /\ (o + 1) - i = o - i + 1
            /\ 0 <= o /\ o < 0 + Len(u) /\ o - 0 + 1 = o + 1
        BY <1>1, <1>6, <3>2
      <4>2. u[o + 1] = IF o < i THEN s[o + 1] ELSE t[o - i + 1]
        BY <1>6, <4>1
      <4>3. o < i => Held(s, o) = s[o + 1]
        BY <1>1 DEF Held, n
      <4> QED
        BY <3>1, <3>2, <4>1, <4>2, <4>3
    <3>3. CASE ~(o < i + m)
      <4>1. ~(o < i) /\ ~(o < 0 + Len(u)) /\ ~(o < m)
        BY <1>1, <1>6, <3>3
      <4>2. Held(w, o) = Held(s, o - m)
        <5>1. Held(w, o) = IF o < 0 THEN Held(s, o)
                           ELSE IF o < 0 + Len(Raws(m)) THEN Raws(m)[o - 0 + 1]
                           ELSE Held(s, o - Len(Raws(m)) + (0 - 0))
          BY <1>1, <1>5 DEF Spliced
        <5>2. o \in Nat /\ ~(o < 0) /\ o - m + (0 - 0) = o - m /\ ~(o < 0 + m)
          BY <1>1, <4>1
        <5> QED
          BY <1>2, <5>1, <5>2
      <4> QED
        BY <3>1, <3>3, <4>1, <4>2
    <3> QED
      BY <3>2, <3>3
  <2>2. 0 \in Nat /\ 0 + Len(u) <= c
    BY <1>1, <1>6
  <2>3. x = Wrap(x + 0)
    BY <1>8
  <2> DEFINE k == 0
  <2>4. /\ k \in Nat /\ k + Len(u) <= c /\ x = Wrap(x + k)
        /\ Overwritten(v, w, k, u, c)
    BY <2>1, <2>2, <2>3 DEF Overwritten
  <2> HIDE DEF k
  <2>5. c \in Caps /\ x \in Int /\ w \in Words /\ u \in Words /\ v \in Words
    BY <1>1, <1>4, <1>5, <1>6, <1>8
  <2> QED
    BY <2>4, <2>5, StoreCells
<1>10. e = Wrap(x + Len(v))
  <2>1. b - m \in Int /\ n + m \in Int /\ (b - m) + (n + m) = b + n
    BY <1>1
  <2> DEFINE y == b - m
             z == n + m
  <2>2. y \in Int /\ z \in Int /\ y + z = b + n
    BY <2>1
  <2> HIDE DEF y, z
  <2>3. Wrap(Wrap(y) + z) = Wrap(y + z)
    BY <2>2, Wraps
  <2> QED
    BY <1>4, <2>2, <2>3 DEF x, e, y, z
<1>11. MadeFront(RingOf(b, s, c), s, i, t) = RingOf(x, v, c)
  <2> DEFINE r == RingOf(b, s, c)
  <2>1. r = Ring(Cells(c, x, w), b, e, c) /\ r.beg = b
    BY <1>7, RingSet DEF RingOf, e, n
  <2> HIDE DEF r
  <2>2. Store(r, Wrap(r.beg - m), u) = Ring(Cells(c, x, v), b, e, c)
    BY <1>9, <2>1 DEF x
  <2>3. MadeFront(r, s, i, t) = [Ring(Cells(c, x, v), b, e, c) EXCEPT !.beg = Wrap(Ring(Cells(c, x, v), b, e, c).beg - m)]
    BY <2>2 DEF MadeFront, u, h, m
  <2>4. MadeFront(r, s, i, t) = Ring(Cells(c, x, v), x, e, c)
    BY <2>3, RingSet DEF x
  <2> QED
    BY <1>10, <2>4 DEF RingOf, r
<1>12. Legal(x, v, c)
  BY <1>1, <1>4, <1>8 DEF Legal
<1> QED
  BY <1>11, <1>12 DEF x, v, m

(* Room is made at the back.                                               *)
LEMMA MadeBackIs ==
    ASSUME NEW b, NEW s, NEW c, Legal(b, s, c), NEW t \in Seq(RItems), NEW i \in 0..Len(s),
           Len(s) + Len(t) <= c, Len(s) + Len(t) < Width, c # 0
    PROVE  /\ MadeBack(RingOf(b, s, c), s, i, t) = RingOf(b, Splice(s, i, i, t), c)
           /\ Legal(b, Splice(s, i, i, t), c)
<1> DEFINE n == Len(s)
           m == Len(t)
           e == Wrap(b + n)
           h == SubSeq(s, i + 1, n)
           u == t \o h
           v == Splice(s, i, i, t)
<1>1. /\ c \in Caps /\ c \in Nat /\ b \in Int /\ s \in Words /\ t \in Words /\ s \in Seq(RItems)
      /\ n \in Nat /\ m \in Nat /\ i \in Nat /\ i <= n /\ n + m <= c /\ n + m < Width
      /\ Width \in Nat \ {0} /\ b \in 0..Width - 1
  BY RingFields, RingSizes DEF Legal, Words
<1>3. h \in Words /\ Len(h) = n - i /\ \A k \in 1..n - i : h[k] = s[i + k]
  <2> DEFINE f == i + 1
  <2>1. f \in 1..n + 1 /\ n \in f - 1..n /\ n - f + 1 = n - i
    BY <1>1
  <2>2. SubSeq(s, f, n) \in Words /\ Len(SubSeq(s, f, n)) = n - f + 1
        /\ \A k \in 1..n - f + 1 : SubSeq(s, f, n)[k] = s[f + k - 1]
    <3> HIDE DEF f
    <3> QED
      BY <1>1, <2>1, PartIs DEF Words
  <2> HIDE DEF n
  <2>3. ASSUME NEW k \in 1..n - i PROVE h[k] = s[i + k]
    <3>1. k \in 1..n - f + 1 /\ f + k - 1 = i + k
      BY <1>1, <2>1
    <3> QED
      BY <2>2, <3>1
  <2> QED
    BY <2>1, <2>2, <2>3
<1>4. v \in Seq(RItems) /\ Len(v) = n + m /\ Spliced(v, s, i, i, t) /\ v \in Words
  <2>1. i \in i..n /\ i \in 0..n /\ n - (i - i) + m = n + m
    BY <1>1
  <2>2. v \in Seq(RItems) /\ Len(v) = n - (i - i) + m
    BY <1>1, <2>1, SpliceIs
  <2>3. Spliced(v, s, i, i, t)
    BY <1>1, <2>1, HeldSplice
  <2>4. v \in Words
    BY <2>2 DEF Words
  <2> QED
    BY <2>1, <2>2, <2>3, <2>4
<1> HIDE DEF n, m, e, h, v
<1>6. u \in Words /\ Len(u) = m + (n - i)
      /\ \A k \in 1..m + (n - i) : u[k] = IF k <= m THEN t[k] ELSE s[i + (k - m)]
  <2>1. h \in Words /\ t \in Words /\ Len(h) = n - i /\ Len(t) = m
    BY <1>1, <1>3 DEF m
  <2>2. u \in Words /\ Len(u) = Len(t) + Len(h)
        /\ \A k \in 1..Len(t) + Len(h) : u[k] = IF k <= Len(t) THEN t[k] ELSE h[k - Len(t)]
    BY <2>1, ConcatProperties DEF Words
  <2> HIDE DEF u
  <2>3. ASSUME NEW k \in 1..m + (n - i) PROVE u[k] = IF k <= m THEN t[k] ELSE s[i + (k - m)]
    <3>1. u[k] = IF k <= m THEN t[k] ELSE h[k - m]
      BY <2>1, <2>2
    <3>2. ~(k <= m) => k - m \in 1..n - i
      BY <1>1
    <3> QED
      BY <1>3, <3>1, <3>2
  <2> QED
    BY <2>1, <2>2, <2>3
<1> HIDE DEF u
<1>7. Overwritten(v, s, i, u, c)
  <2>1. ASSUME NEW o \in 0..c - 1
        PROVE  Held(v, o) = IF i <= o /\ o < i + Len(u) THEN u[o - i + 1] ELSE Held(s, o)
    <3>1. Held(v, o) = IF o < i THEN Held(s, o)
                       ELSE IF o < i + m THEN t[o - i + 1] ELSE Held(s, o - m)
      <4>1. Held(v, o) = IF o < i THEN Held(s, o)
                         ELSE IF o < i + Len(t) THEN t[o - i + 1]
                         ELSE Held(s, o - Len(t) + (i - i))
        BY <1>1, <1>4 DEF Spliced
      <4>2. o - m + (i - i) = o - m
        BY <1>1
      <4> QED
        BY <4>1, <4>2 DEF m
    <3>2. CASE o < i
      BY <1>1, <3>1, <3>2
    <3>3. CASE i <= o /\ o < i + Len(u)
      <4> DEFINE k == o - i + 1
      <4>1. k \in 1..m + (n - i) /\ (k <= m <=> o < i + m) /\ i + (k - m) = (o - m) + 1
            /\ (~(o < i + m) => o - m < n)
        BY <1>1, <1>6, <3>3
      <4>2. u[k] = IF k <= m THEN t[k] ELSE s[i + (k - m)]
        <5> HIDE DEF k
        <5> QED
          BY <1>6, <4>1
      <4>3. ~(o < i + m) => Held(s, o - m) = s[i + (k - m)]
        <5> HIDE DEF k
        <5> QED
          BY <1>1, <4>1 DEF Held, n
      <4>4. ~(o < i)
        BY <1>1, <3>3
      <4>5. Held(v, o) = u[k]
        <5>1. k = o - i + 1
          OBVIOUS
        <5> HIDE DEF k
        <5> QED
          BY <3>1, <4>1, <4>2, <4>3, <4>4, <5>1
      <4> QED
        BY <3>3, <4>5
    <3>4. CASE ~(o < i) /\ ~(i <= o /\ o < i + Len(u))
      <4>1. ~(o < i + m) /\ ~(o - m < n) /\ ~(o < n)
        BY <1>1, <1>6, <3>4
      <4>2. Held(s, o - m) = Raw /\ Held(s, o) = Raw
        BY <4>1 DEF Held, n
      <4> QED
        BY <3>1, <3>4, <4>1, <4>2
    <3> QED
      BY <3>2, <3>3, <3>4
  <2> QED
    BY <2>1 DEF Overwritten
<1>8. Store(Ring(Cells(c, b, s), b, e, c), Wrap(b + i), u) = Ring(Cells(c, b, v), b, e, c)
  <2>1. i + Len(u) <= c
    BY <1>1, <1>6
  <2>2. c \in Caps /\ b \in Int /\ s \in Words /\ u \in Words /\ v \in Words /\ i \in Nat
    BY <1>1, <1>4, <1>6
  <2> DEFINE at == Wrap(b + i)
  <2>3. at = Wrap(b + i)
    OBVIOUS
  <2> HIDE DEF at
  <2>4. Store(Ring(Cells(c, b, s), b, e, c), at, u) = Ring(Cells(c, b, v), b, e, c)
    BY <1>7, <2>1, <2>2, <2>3, StoreCells
  <2> QED
    BY <2>3, <2>4
<1>9. Wrap(e + m) = Wrap(b + Len(v))
  <2> DEFINE y == b + n
  <2>1. y \in Int /\ y + m = b + (n + m)
    BY <1>1
  <2> HIDE DEF y
  <2>2. Wrap(Wrap(y) + m) = Wrap(y + m)
    BY <1>1, <2>1, Wraps
  <2> QED
    BY <1>4, <2>1, <2>2 DEF e, y
<1>10. MadeBack(RingOf(b, s, c), s, i, t) = RingOf(b, v, c)
  <2> DEFINE r == RingOf(b, s, c)
  <2>1. r = Ring(Cells(c, b, s), b, e, c) /\ r.beg = b
    BY RingSet DEF RingOf, e, n
  <2> HIDE DEF r
  <2>2. Store(r, Wrap(r.beg + i), u) = Ring(Cells(c, b, v), b, e, c)
    BY <1>8, <2>1
  <2>3. MadeBack(r, s, i, t) = [Ring(Cells(c, b, v), b, e, c) EXCEPT !.end = Wrap(Ring(Cells(c, b, v), b, e, c).end + m)]
    BY <2>2 DEF MadeBack, u, h, m, n
  <2>4. MadeBack(r, s, i, t) = Ring(Cells(c, b, v), b, Wrap(e + m), c)
    BY <2>3, RingSet
  <2> QED
    BY <1>9, <2>4 DEF RingOf, r
<1>12. Legal(b, v, c)
  BY <1>1, <1>4 DEF Legal
<1> QED
  BY <1>10, <1>12 DEF v

(* The raw memory that a destruction leaves.                               *)
LEMMA RawsIs ==
    ASSUME NEW n \in Nat
    PROVE  Raws(n) \in Words /\ Len(Raws(n)) = n /\ \A k \in 1..n : Raws(n)[k] = Raw
BY DEF Raws, Words

(* What is o cells behind the first of a part.                             *)
LEMMA HeldPart ==
    ASSUME NEW w \in Words, NEW i \in 1..Len(w) + 1, NEW j \in i - 1..Len(w), NEW o \in Nat
    PROVE  Held(SubSeq(w, i, j), o) = IF o < j - i + 1 THEN w[i + o] ELSE Raw
<1> DEFINE y == SubSeq(w, i, j)
           n == j - i + 1
<1>1. Len(w) \in Nat /\ i \in Nat /\ j \in Nat /\ n \in Nat
  BY DEF Words
<1>2. Len(y) = n /\ \A k \in 1..n : y[k] = w[i + k - 1]
  BY PartIs DEF Words
<1> HIDE DEF y, n
<1>3. CASE o < n
  <2>1. o + 1 \in 1..n /\ i + (o + 1) - 1 = i + o
    BY <1>1, <1>3
  <2>2. y[o + 1] = w[i + o]
    BY <1>2, <2>1
  <2> QED
    BY <1>2, <1>3, <2>2 DEF Held, y, n
<1>4. CASE ~(o < n)
  BY <1>2, <1>4 DEF Held, y, n
<1> QED
  BY <1>3, <1>4

(* The first d cells are destroyed: the others begin d further on.         *)
LEMMA LeftFront ==
    ASSUME NEW c \in Caps, NEW b \in 0..Width - 1, NEW w \in Words, Len(w) <= c, NEW e,
           NEW d \in 0..Len(w)
    PROVE  DestroyIndex(Ring(Cells(c, b, w), b, e, c), b, d)
             = Ring(Cells(c, Wrap(b + d), SubSeq(w, d + 1, Len(w))), b, e, c)
<1> DEFINE n == Len(w)
           a == Raws(d)
           f == d + 1
           y == SubSeq(w, f, n)
           k == 0
           z == Splice(w, k, d, a)
<1>1. /\ c \in Nat /\ n \in Nat /\ d \in Nat /\ d <= n /\ n <= c /\ Width \in Nat /\ b \in Int
      /\ d \in 0..c /\ a \in Words /\ Len(a) = d /\ (\A i \in 1..d : a[i] = Raw)
      /\ k \in 0..n /\ d \in k..n /\ k \in Nat /\ k = 0
  <2>1. c \in Nat /\ n \in Nat /\ d \in Nat /\ d <= n /\ n <= c /\ Width \in Nat
    BY RingSizes DEF Words
  <2> QED
    BY <2>1, RawsIs
<1>2. b = Wrap(b + k)
  <2>1. b + k = b
    BY <1>1
  <2> QED
    BY <1>1, <2>1, Wraps
<1> HIDE DEF k
<1>3. Spliced(z, w, k, d, a) /\ z \in Words
  <2>1. Spliced(z, w, k, d, a)
    BY <1>1, HeldSplice
  <2>2. z \in Words
    BY <1>1, SpliceIs DEF Words
  <2> QED
    BY <2>1, <2>2
<1>4. y \in Words
  <2>1. f \in 1..n + 1 /\ n \in f - 1..n
    BY <1>1
  <2> HIDE DEF f
  <2> QED
    BY <2>1, PartIs DEF Words
<1> HIDE DEF a, z, y, n
<1>5. \A o \in Nat : Held(z, o) = IF o < d THEN Raw ELSE Held(w, o)
  <2> SUFFICES ASSUME NEW o \in Nat PROVE Held(z, o) = IF o < d THEN Raw ELSE Held(w, o)
    OBVIOUS
  <2>1. Held(z, o) = IF o < k THEN Held(w, o)
                     ELSE IF o < k + Len(a) THEN a[o - k + 1] ELSE Held(w, o - Len(a) + (d - k))
    BY <1>3 DEF Spliced
  <2>2. ~(o < k) /\ k + Len(a) = d /\ o - Len(a) + (d - k) = o
        /\ (o < d => o - k + 1 \in 1..d)
    BY <1>1
  <2> QED
    BY <1>1, <2>1, <2>2
<1>6. \A o \in Nat : Held(y, o) = IF o + d < n THEN Held(w, o + d) ELSE Raw
  <2> SUFFICES ASSUME NEW o \in Nat PROVE Held(y, o) = IF o + d < n THEN Held(w, o + d) ELSE Raw
    OBVIOUS
  <2>1. f \in 1..Len(w) + 1 /\ n \in f - 1..Len(w) /\ f = d + 1
    BY <1>1 DEF n
  <2> HIDE DEF f
  <2>2. Held(y, o) = IF o < n - f + 1 THEN w[f + o] ELSE Raw
    BY <2>1, HeldPart DEF y
  <2>3. (o < n - f + 1 <=> o + d < n) /\ f + o = (o + d) + 1
    BY <1>1, <2>1
  <2>4. o + d < n => Held(w, o + d) = w[(o + d) + 1]
    BY DEF Held, n
  <2> QED
    BY <2>2, <2>3, <2>4
<1>7. Overwritten(z, w, k, a, c)
  <2>1. ASSUME NEW o \in 0..c - 1
        PROVE  Held(z, o) = IF k <= o /\ o < k + Len(a) THEN a[o - k + 1] ELSE Held(w, o)
    <3>1. o \in Nat /\ k <= o /\ k + Len(a) = d /\ (o < d => o - k + 1 \in 1..d)
      BY <1>1
    <3> QED
      BY <1>1, <1>5, <3>1
  <2> QED
    BY <2>1 DEF Overwritten
<1>8. Store(Ring(Cells(c, b, w), b, e, c), b, a) = Ring(Cells(c, b, z), b, e, c)
  <2>1. k + Len(a) <= c
    BY <1>1
  <2> QED
    BY <1>1, <1>2, <1>3, <1>7, <2>1, StoreCells
<1>9. Cells(c, b, z) = Cells(c, Wrap(b + d), y)
  <2>1. \A o \in 0..c - 1 :
           Held(y, o) = IF o + d < c THEN Held(z, o + d) ELSE Held(z, o + d - c)
    <3> SUFFICES ASSUME NEW o \in 0..c - 1
                 PROVE Held(y, o) = IF o + d < c THEN Held(z, o + d) ELSE Held(z, o + d - c)
      OBVIOUS
    <3>1. o \in Nat /\ o + d \in Nat /\ ~(o + d < d)
      BY <1>1
    <3>2. CASE o + d < c
      <4>1. Held(z, o + d) = Held(w, o + d)
        BY <1>5, <3>1
      <4>2. ~(o + d < n) => Held(w, o + d) = Raw
        BY DEF Held, n
      <4> QED
        BY <1>6, <3>1, <3>2, <4>1, <4>2
    <3>3. CASE ~(o + d < c)
      <4>1. o + d - c \in Nat /\ o + d - c < d /\ ~(o + d < n)
        BY <1>1, <3>1, <3>3
      <4> QED
        BY <1>5, <1>6, <3>1, <3>3, <4>1
    <3> QED
      BY <3>2, <3>3
  <2> QED
    BY <1>1, <1>3, <1>4, <2>1, TurnedCells
<1> QED
  BY <1>8, <1>9 DEF DestroyIndex, a, y, n

(* The cells from the k-th on are destroyed.                               *)
LEMMA LeftBack ==
    ASSUME NEW c \in Caps, NEW b \in 0..Width - 1, NEW w \in Words, Len(w) <= c, NEW e,
           NEW k \in 0..Len(w)
    PROVE  DestroyIndex(Ring(Cells(c, b, w), b, e, c), Wrap(b + k), Len(w) - k)
             = Ring(Cells(c, b, SubSeq(w, 1, k)), b, e, c)
<1> DEFINE n == Len(w)
           d == n - k
           a == Raws(d)
           f == 1
           y == SubSeq(w, f, k)
           at == Wrap(b + k)
<1>1. /\ c \in Nat /\ n \in Nat /\ d \in Nat /\ k \in Nat /\ k <= n /\ n <= c /\ b \in Int /\ k + d = n
      /\ a \in Words /\ Len(a) = d /\ (\A i \in 1..d : a[i] = Raw) /\ at = Wrap(b + k)
      /\ f \in 1..n + 1 /\ k \in f - 1..n /\ f = 1
  <2>1. c \in Nat /\ n \in Nat /\ d \in Nat /\ k \in Nat /\ n <= c /\ Width \in Nat
    BY RingSizes DEF Words
  <2>2. a \in Words /\ Len(a) = d /\ (\A i \in 1..d : a[i] = Raw)
    <3> HIDE DEF d
    <3> QED
      BY <2>1, RawsIs
  <2> HIDE DEF a
  <2> QED
    BY <2>1, <2>2
<1> HIDE DEF f, a, d, at
<1>2. y \in Words
  BY <1>1, PartIs DEF Words
<1>3. \A o \in Nat : Held(y, o) = IF o < k THEN w[o + 1] ELSE Raw
  <2> SUFFICES ASSUME NEW o \in Nat PROVE Held(y, o) = IF o < k THEN w[o + 1] ELSE Raw
    OBVIOUS
  <2>1. Held(y, o) = IF o < k - f + 1 THEN w[f + o] ELSE Raw
    BY <1>1, HeldPart
  <2>2. k - f + 1 = k /\ f + o = o + 1
    BY <1>1
  <2> QED
    BY <2>1, <2>2
<1> HIDE DEF y
<1>4. Overwritten(y, w, k, a, c)
  <2>1. ASSUME NEW o \in 0..c - 1
        PROVE  Held(y, o) = IF k <= o /\ o < k + Len(a) THEN a[o - k + 1] ELSE Held(w, o)
    <3>1. o \in Nat
      BY <1>1
    <3>2. CASE o < k
      <4>1. o < n /\ ~(k <= o)
        BY <1>1, <3>2
      <4> QED
        BY <1>3, <3>1, <3>2, <4>1 DEF Held
    <3>3. CASE ~(o < k)
      <4>1. k <= o /\ (o < k + Len(a) <=> o < n) /\ (o < n => o - k + 1 \in 1..d)
        BY <1>1, <3>3
      <4>2. o < n => a[o - k + 1] = Raw
        BY <1>1, <4>1
      <4>3. ~(o < n) => Held(w, o) = Raw
        BY DEF Held
      <4> QED
        BY <1>3, <3>1, <3>3, <4>1, <4>2, <4>3
    <3> QED
      BY <3>2, <3>3
  <2> QED
    BY <2>1 DEF Overwritten
<1>5. k + Len(a) <= c
  BY <1>1
<1>6. Store(Ring(Cells(c, b, w), b, e, c), at, a) = Ring(Cells(c, b, y), b, e, c)
  BY <1>1, <1>2, <1>4, <1>5, StoreCells
<1> QED
  BY <1>6 DEF DestroyIndex, a, d, y, f, at

\* Rings hold no more than the bounds and the longest call allow.
Most == MaxItems + MaxArgs

(* may_realloc(1): the same items, and a cell for one more.                *)
LEMMA RoomForOne ==
    ASSUME NEW b, NEW s, NEW c, Legal(b, s, c), Len(s) < Most
    PROVE  \E a, k : /\ Legal(a, s, k) /\ Len(s) + 1 <= k
                     /\ MayRealloc(RingOf(b, s, c), 1) = RingOf(a, s, k)
<1> DEFINE r == RingOf(b, s, c)
           n == Len(s) + 1
<1>1. RSize(r) = Len(s) /\ r.cap = c /\ Len(s) \in Nat /\ c \in Nat
  BY RingFields
<1>2. n \in 0..MaxItems + MaxArgs
  BY <1>1, RingSizes DEF Most
<1>3. CASE n > c
  <2> HIDE DEF n
  <2>1. PICK a, k : Legal(a, s, k) /\ n <= k /\ Reserve(r, n) = RingOf(a, s, k)
    BY <1>2, ReallocIs
  <2> HIDE DEF r
  <2>2. MayRealloc(r, 1) = Reserve(r, n)
    BY <1>1, <1>3 DEF MayRealloc, n
  <2> QED
    BY <2>1, <2>2 DEF r, n
<1>4. CASE ~(n > c)
  <2> HIDE DEF r
  <2>1. MayRealloc(r, 1) = r
    BY <1>1, <1>4 DEF MayRealloc
  <2> QED
    BY <1>1, <1>4, <2>1 DEF r
<1> QED
  BY <1>3, <1>4

(* push_back(), emplace_back().                                            *)
LEMMA PushBackIs ==
    ASSUME NEW b, NEW s, NEW c, Legal(b, s, c), Len(s) < Most, NEW v \in RItems
    PROVE  Rings(PushBack(RingOf(b, s, c), v), Append(s, v))
<1>1. PICK a, k : /\ Legal(a, s, k) /\ Len(s) + 1 <= k
                  /\ MayRealloc(RingOf(b, s, c), 1) = RingOf(a, s, k)
  BY RoomForOne
<1> DEFINE A == RingOf(a, s, k)
           n == Len(s)
           t == <<v>>
           u == Splice(s, n, n, t)
<1>2. /\ A.beg = a /\ A.end = Wrap(a + n) /\ n \in Nat /\ n + 1 <= k /\ k \in Nat
      /\ s \in Seq(RItems)
  BY <1>1, RingFields DEF Legal
<1>3. t \in Seq(RItems) /\ Len(t) = 1
  OBVIOUS
<1>4. Append(s, v) = u /\ t \o SubSeq(s, n + 1, n) = t
  BY <1>2, SpliceEnds
<1>5. MadeBack(A, s, n, t) = RingOf(a, u, k) /\ Legal(a, u, k)
  <2>1. n \in 0..n /\ n + Len(t) <= k /\ n + Len(t) < Width /\ k # 0
    BY <1>2, <1>3, RingSizes DEF Most
  <2> HIDE DEF t
  <2> QED
    BY <1>1, <1>3, <2>1, MadeBackIs
<1>6. PushBack(RingOf(b, s, c), v) = MadeBack(A, s, n, t)
  <2> HIDE DEF A, t, n
  <2>1. PushBack(RingOf(b, s, c), v) = [Store(A, A.end, t) EXCEPT !.end = Wrap(@ + 1)]
    BY <1>1 DEF PushBack, A, t
  <2>2. MadeBack(A, s, n, t) = [Store(A, Wrap(A.beg + n), t) EXCEPT !.end = Wrap(@ + 1)]
    BY <1>3, <1>4 DEF MadeBack, n
  <2> QED
    BY <1>2, <2>1, <2>2
<1> QED
  BY <1>4, <1>5, <1>6 DEF Rings, Legal

(* push_front(), emplace_front().                                          *)
LEMMA PushFrontIs ==
    ASSUME NEW b, NEW s, NEW c, Legal(b, s, c), Len(s) < Most, NEW v \in RItems
    PROVE  Rings(PushFront(RingOf(b, s, c), v), <<v>> \o s)
<1>1. PICK a, k : /\ Legal(a, s, k) /\ Len(s) + 1 <= k
                  /\ MayRealloc(RingOf(b, s, c), 1) = RingOf(a, s, k)
  BY RoomForOne
<1> DEFINE A == RingOf(a, s, k)
           n == Len(s)
           i == 0
           t == <<v>>
           u == Splice(s, i, i, t)
           x == Wrap(a - Len(t))
<1>2. n \in Nat /\ n + 1 <= k /\ k \in Nat /\ s \in Seq(RItems)
  BY <1>1, RingFields DEF Legal
<1>3. t \in Seq(RItems) /\ Len(t) = 1
  OBVIOUS
<1>4. <<v>> \o s = u /\ SubSeq(s, 1, i) \o t = t
  BY <1>2, SpliceEnds
<1>5. MadeFront(A, s, i, t) = RingOf(x, u, k) /\ Legal(x, u, k)
  <2>1. i \in 0..n /\ n + Len(t) <= k /\ n + Len(t) < Width /\ k # 0
    BY <1>2, <1>3, RingSizes DEF Most
  <2> HIDE DEF t, i
  <2> QED
    BY <1>1, <1>3, <2>1, MadeFrontIs
<1>6. PushFront(RingOf(b, s, c), v) = MadeFront(A, s, i, t)
  <2> HIDE DEF A, t, i
  <2>1. PushFront(RingOf(b, s, c), v) = [Store(A, Wrap(A.beg - 1), t) EXCEPT !.beg = Wrap(@ - 1)]
    BY <1>1 DEF PushFront, A, t
  <2>2. MadeFront(A, s, i, t) = [Store(A, Wrap(A.beg - 1), t) EXCEPT !.beg = Wrap(@ - 1)]
    BY <1>3, <1>4 DEF MadeFront
  <2> QED
    BY <2>1, <2>2
<1> HIDE DEF x, u, A
<1> QED
  BY <1>4, <1>5, <1>6 DEF Rings, Legal

(* pop_back().                                                             *)
LEMMA PopBackIs ==
    ASSUME NEW b, NEW s, NEW c, Legal(b, s, c)
    PROVE  Rings(PopBack(RingOf(b, s, c)), SubSeq(s, 1, Len(s) - 1))
<1> DEFINE r == RingOf(b, s, c)
           n == Len(s)
           k == n - 1
           e == Wrap(b + n)
           y == SubSeq(s, 1, k)
<1>1. /\ RSize(r) = n /\ n \in Nat /\ r.beg = b /\ r.end = e /\ r.cap = c /\ r = Ring(Cells(c, b, s), b, e, c)
      /\ c \in Nat /\ (c # 0 => c \in Caps) /\ s \in Words /\ s \in Seq(RItems)
      /\ n <= c /\ n < Width /\ b \in 0..Width - 1 /\ b \in Int /\ c \in Caps \cup {0}
      /\ Width \in Nat
  <2>1. n <= c /\ n < Width /\ b \in 0..Width - 1 /\ c \in Caps \cup {0} /\ s \in Seq(RItems)
    BY DEF Legal
  <2>2. r = Ring(Cells(c, b, s), b, e, c)
    BY DEF RingOf
  <2> QED
    BY <2>1, <2>2, RingFields, RingSizes
<1> HIDE DEF r, e
<1>2. CASE n = 0
  <2>1. PopBack(r) = r
    BY <1>1, <1>2 DEF PopBack
  <2>2. s = <<>> /\ y = <<>>
    BY <1>1, <1>2, EmptySeq, SubSeqEmpty
  <2> QED
    BY <1>1, <2>1, <2>2 DEF Rings, r
<1>3. CASE n # 0
  <2>1. c \in Caps /\ k \in Nat /\ k \in 0..n /\ n - k = 1 /\ b + k = (b + n) - 1
    BY <1>1, <1>3
  <2>2. Wrap(e - 1) = Wrap(b + k)
    <3> DEFINE z == b + n
               d == 1
    <3>1. z \in Int /\ d \in Int /\ b + k = z - d
      BY <1>1, <2>1
    <3> HIDE DEF z, d, k
    <3>2. Wrap(Wrap(z) - d) = Wrap(z - d)
      BY <3>1, Wraps
    <3> QED
      BY <3>1, <3>2 DEF e, z, d
  <2>3. y \in Seq(RItems) /\ Len(y) = k
    <3>1. 1 \in 1..n + 1 /\ k \in 1 - 1..n /\ k - 1 + 1 = k
      BY <1>1, <2>1
    <3> HIDE DEF k
    <3>2. y \in Seq(RItems) /\ Len(y) = k - 1 + 1
      BY <1>1, <3>1, PartIs
    <3> QED
      BY <3>1, <3>2
  <2> HIDE DEF k, y
  <2>4. DestroyIndex(r, Wrap(e - 1), 1) = Ring(Cells(c, b, y), b, e, c)
    <3>1. DestroyIndex(Ring(Cells(c, b, s), b, e, c), Wrap(b + k), n - k) = Ring(Cells(c, b, y), b, e, c)
      BY <1>1, <2>1, LeftBack DEF y
    <3> QED
      BY <1>1, <2>1, <2>2, <3>1
  <2>5. PopBack(r) = [Ring(Cells(c, b, y), b, e, c) EXCEPT !.end = Wrap(Ring(Cells(c, b, y), b, e, c).end - 1)]
    BY <1>1, <1>3, <2>4 DEF PopBack
  <2>6. PopBack(r) = RingOf(b, y, c)
    BY <2>2, <2>3, <2>5, RingSet DEF RingOf
  <2>7. Legal(b, y, c)
    BY <1>1, <2>1, <2>3 DEF Legal
  <2> QED
    BY <1>1, <2>6, <2>7 DEF Rings, r, y, k
<1> QED
  BY <1>2, <1>3

(* pop_front().                                                            *)
LEMMA PopFrontIs ==
    ASSUME NEW b, NEW s, NEW c, Legal(b, s, c)
    PROVE  Rings(PopFront(RingOf(b, s, c)), SubSeq(s, 2, Len(s)))
<1> DEFINE r == RingOf(b, s, c)
           n == Len(s)
           e == Wrap(b + n)
           d == 1
           f == d + 1
           y == SubSeq(s, f, n)
           x == Wrap(b + d)
<1>1. /\ RSize(r) = n /\ n \in Nat /\ r.beg = b /\ r.end = e /\ r.cap = c /\ r = Ring(Cells(c, b, s), b, e, c)
      /\ c \in Nat /\ (c # 0 => c \in Caps) /\ s \in Words /\ s \in Seq(RItems)
      /\ n <= c /\ n < Width /\ b \in 0..Width - 1 /\ b \in Int /\ c \in Caps \cup {0}
      /\ Width \in Nat
  <2>1. n <= c /\ n < Width /\ b \in 0..Width - 1 /\ c \in Caps \cup {0} /\ s \in Seq(RItems)
    BY DEF Legal
  <2>2. r = Ring(Cells(c, b, s), b, e, c)
    BY DEF RingOf
  <2> QED
    BY <2>1, <2>2, RingFields, RingSizes
<1>0. y = SubSeq(s, 2, Len(s))
  OBVIOUS
<1> HIDE DEF r, e
<1>2. CASE n = 0
  <2>1. PopFront(r) = r
    BY <1>1, <1>2 DEF PopFront
  <2>2. s = <<>> /\ y = <<>>
    BY <1>1, <1>2, EmptySeq, SubSeqEmpty
  <2> QED
    BY <1>0, <1>1, <2>1, <2>2 DEF Rings, r
<1>3. CASE n # 0
  <2>1. c \in Caps /\ d \in 0..n /\ f \in 1..n + 1 /\ n \in f - 1..n /\ n - f + 1 = n - 1 /\ d = 1 /\ d \in Int
    BY <1>1, <1>3
  <2>2. x \in 0..Width - 1
    BY <1>1, <2>1, Wraps
  <2> HIDE DEF d
  <2>3. y \in Seq(RItems) /\ Len(y) = n - 1
    <3> HIDE DEF f
    <3> QED
      BY <1>1, <2>1, PartIs
  <2>4. DestroyIndex(r, b, d) = Ring(Cells(c, x, y), b, e, c)
    <3>1. DestroyIndex(Ring(Cells(c, b, s), b, e, c), b, d) = Ring(Cells(c, x, y), b, e, c)
      BY ZenonT(40), <1>1, <2>1, LeftFront
    <3> QED
      BY <1>1, <3>1
  <2> HIDE DEF y
  <2>5. e = Wrap(x + Len(y))
    <3> DEFINE z == b + d
               j == n - 1
    <3>1. z \in Int /\ j \in Int /\ z + j = b + n
      BY <1>1, <2>1
    <3> HIDE DEF z, j
    <3>2. Wrap(Wrap(z) + j) = Wrap(z + j)
      BY <3>1, Wraps
    <3> QED
      BY <2>3, <3>1, <3>2 DEF e, z, j
  <2>6. PopFront(r) = [Ring(Cells(c, x, y), b, e, c) EXCEPT !.beg = Wrap(Ring(Cells(c, x, y), b, e, c).beg + 1)]
    BY <1>1, <1>3, <2>1, <2>4 DEF PopFront
  <2>7. PopFront(r) = RingOf(x, y, c)
    <3>1. PopFront(r) = Ring(Cells(c, x, y), x, e, c)
      BY <2>1, <2>6, RingSet
    <3> QED
      BY <2>5, <3>1 DEF RingOf
  <2> HIDE DEF x
  <2>8. Legal(x, y, c)
    BY <1>1, <2>2, <2>3 DEF Legal
  <2>9. Rings(PopFront(r), y)
    BY <1>1, <2>2, <2>7, <2>8 DEF Rings
  <2> QED
    BY <1>0, <2>9 DEF r
<1> QED
  BY <1>2, <1>3

(* What is known of a ring that is not empty.                              *)
LEMMA RingParts ==
    ASSUME NEW b, NEW s, NEW c, Legal(b, s, c)
    PROVE  LET n == Len(s)
               r == RingOf(b, s, c)
               e == Wrap(b + n)
           IN  /\ r = Ring(Cells(c, b, s), b, e, c) /\ r.beg = b /\ r.end = e /\ r.cap = c
               /\ RSize(r) = n /\ Items(r) = s /\ n \in Nat /\ n <= c /\ n < Width
               /\ b \in 0..Width - 1 /\ b \in Int /\ Width \in Nat /\ c \in Nat
               /\ c \in Caps \cup {0} /\ (n > 0 => c \in Caps)
               /\ s \in Words /\ s \in Seq(RItems)
<1> DEFINE n == Len(s)
           r == RingOf(b, s, c)
           e == Wrap(b + n)
<1>1. n <= c /\ n < Width /\ b \in 0..Width - 1 /\ c \in Caps \cup {0} /\ s \in Seq(RItems)
  BY DEF Legal
<1>2. r = Ring(Cells(c, b, s), b, e, c)
  BY DEF RingOf
<1>3. Items(r) = s
  BY ItemsOf
<1>4. /\ r.beg = b /\ r.end = e /\ r.cap = c /\ RSize(r) = n /\ n \in Nat /\ b \in Int
      /\ c \in Nat /\ (c # 0 => c \in Caps) /\ s \in Words /\ Width \in Nat
  BY RingFields, RingSizes
<1>5. n > 0 => c \in Caps
  BY <1>1, <1>4
<1> QED
  BY <1>1, <1>2, <1>3, <1>4, <1>5

(* A sequence up to its i-th member.                                       *)
LEMMA PrefixIs ==
    ASSUME NEW S, NEW s \in Seq(S), NEW i \in 0..Len(s)
    PROVE  SubSeq(s, 1, i) \in Seq(S) /\ Len(SubSeq(s, 1, i)) = i
           /\ \A k \in 1..i : SubSeq(s, 1, i)[k] = s[k]
<1> DEFINE y == SubSeq(s, 1, i)
<1>1. 1 \in 1..Len(s) + 1 /\ i \in 1 - 1..Len(s) /\ i - 1 + 1 = i /\ i \in Nat
  OBVIOUS
<1>2. y \in Seq(S) /\ Len(y) = i - 1 + 1 /\ \A k \in 1..i - 1 + 1 : y[k] = s[1 + k - 1]
  BY <1>1, PartIs
<1> HIDE DEF y
<1>3. ASSUME NEW k \in 1..i PROVE y[k] = s[k]
  <2>1. k \in 1..i - 1 + 1 /\ 1 + k - 1 = k
    BY <1>1
  <2> QED
    BY <1>2, <2>1
<1> QED
  BY <1>1, <1>2, <1>3 DEF y

(* A sequence after its j-th member.                                       *)
LEMMA SuffixIs ==
    ASSUME NEW S, NEW s \in Seq(S), NEW j \in 0..Len(s)
    PROVE  SubSeq(s, j + 1, Len(s)) \in Seq(S) /\ Len(SubSeq(s, j + 1, Len(s))) = Len(s) - j
           /\ \A k \in 1..Len(s) - j : SubSeq(s, j + 1, Len(s))[k] = s[j + k]
<1> DEFINE n == Len(s)
           f == j + 1
           y == SubSeq(s, f, n)
<1>1. f \in 1..n + 1 /\ n \in f - 1..n /\ n - f + 1 = n - j /\ n \in Nat /\ j \in Nat /\ f = j + 1
  OBVIOUS
<1> HIDE DEF f
<1>2. y \in Seq(S) /\ Len(y) = n - f + 1 /\ \A k \in 1..n - f + 1 : y[k] = s[f + k - 1]
  BY <1>1, PartIs
<1> HIDE DEF y, n
<1>3. ASSUME NEW k \in 1..n - j PROVE y[k] = s[j + k]
  <2>1. k \in 1..n - f + 1 /\ f + k - 1 = j + k
    BY <1>1
  <2> QED
    BY <1>2, <2>1
<1> QED
  BY <1>1, <1>2, <1>3 DEF y, n, f

(* A sequence without its members i+1 to j.                                *)
LEMMA ErasedIs ==
    ASSUME NEW S, NEW s \in Seq(S), NEW i \in 0..Len(s), NEW j \in i..Len(s)
    PROVE  LET y == Splice(s, i, j, <<>>)
           IN  /\ y \in Seq(S) /\ Len(y) = Len(s) - (j - i)
               /\ \A k \in 1..Len(y) : y[k] = IF k <= i THEN s[k] ELSE s[k + (j - i)]
<1> DEFINE z == <<>>
           y == Splice(s, i, j, z)
           n == Len(s)
<1>1. z \in Seq(S) /\ Len(z) = 0 /\ n \in Nat /\ i \in Nat /\ j \in Nat
  BY EmptySeq
<1> HIDE DEF z
<1>2. ASSUME NEW t \in Seq(S)
      PROVE  LET u == Splice(s, i, j, t)
             IN  /\ u \in Seq(S) /\ Len(u) = Len(s) - (j - i) + Len(t)
                 /\ \A k \in 1..Len(u) :
                        u[k] = IF k <= i THEN s[k]
                               ELSE IF k <= i + Len(t) THEN t[k - i] ELSE s[k - Len(t) + (j - i)]
  BY SMTT(30), SpliceIs
<1>5. y \in Seq(S) /\ Len(y) = n - (j - i) + Len(z)
      /\ \A k \in 1..Len(y) : y[k] = IF k <= i THEN s[k] ELSE IF k <= i + Len(z) THEN z[k - i]
                                     ELSE s[k - Len(z) + (j - i)]
  BY <1>1, <1>2
<1> HIDE DEF y, n
<1>3. ASSUME NEW k \in 1..Len(y) PROVE y[k] = IF k <= i THEN s[k] ELSE s[k + (j - i)]
  <2>1. (k <= i + Len(z) <=> k <= i) /\ k - Len(z) + (j - i) = k + (j - i)
    BY <1>1, <1>5
  <2> QED
    BY <1>5, <2>1
<1>4. Len(y) = n - (j - i)
  BY <1>1, <1>5
<1> QED
  BY <1>5, <1>3, <1>4 DEF y, n, z

(* Nothing taken out and nothing put in.                                   *)
LEMMA NothingSpliced ==
    ASSUME NEW S, NEW s \in Seq(S), NEW i \in 0..Len(s)
    PROVE  Splice(s, i, i, <<>>) = s
<1> DEFINE y == Splice(s, i, i, <<>>)
           n == Len(s)
<1>1. n \in Nat /\ i \in Nat /\ i \in i..n
  OBVIOUS
<1>2. y \in Seq(S) /\ Len(y) = n - (i - i)
      /\ \A k \in 1..Len(y) : y[k] = IF k <= i THEN s[k] ELSE s[k + (i - i)]
  BY <1>1, ErasedIs
<1> HIDE DEF y
<1>3. Len(y) = n
  BY <1>1, <1>2
<1>4. ASSUME NEW k \in 1..n PROVE y[k] = s[k]
  <2>1. k + (i - i) = k
    BY <1>1
  <2> QED
    BY <1>2, <1>3, <2>1
<1> QED
  BY <1>2, <1>3, <1>4, SeqEqual DEF y

(* The items i+1..j are erased, and those before them close the gap.       *)
LEMMA CloseFrontIs ==
    ASSUME NEW b, NEW s, NEW c, Legal(b, s, c), NEW i \in 0..Len(s), NEW j \in i + 1..Len(s)
    PROVE  LET x == Wrap(b + (j - i))
               y == Splice(s, i, j, <<>>)
           IN  CloseFront(RingOf(b, s, c), i, j) = RingOf(x, y, c) /\ Legal(x, y, c)
<1> DEFINE r == RingOf(b, s, c)
           n == Len(s)
           d == j - i
           e == Wrap(b + n)
           x == Wrap(b + d)
           z == <<>>
           y == Splice(s, i, j, z)
           h == SubSeq(s, 1, i)
           w == [k \in 1..n |-> IF d < k /\ k <= j THEN s[k - d] ELSE s[k]]
           u == SubSeq(w, d + 1, n)
<1>1. /\ r = Ring(Cells(c, b, s), b, e, c) /\ r.beg = b /\ Items(r) = s
      /\ n \in Nat /\ n <= c /\ n < Width /\ b \in 0..Width - 1 /\ b \in Int /\ Width \in Nat
      /\ c \in Nat /\ c \in Caps /\ s \in Words /\ s \in Seq(RItems)
      /\ i \in Nat /\ j \in Nat /\ i < j /\ j <= n /\ d \in Nat /\ d <= n /\ d + i = j
      /\ z \in Seq(RItems) /\ Len(z) = 0 /\ x = Wrap(b + d) /\ n = Len(s)
  <2>1. /\ r = Ring(Cells(c, b, s), b, e, c) /\ r.beg = b /\ Items(r) = s
        /\ n \in Nat /\ n <= c /\ n < Width /\ b \in 0..Width - 1 /\ b \in Int /\ Width \in Nat
        /\ c \in Nat /\ (n > 0 => c \in Caps) /\ s \in Words /\ s \in Seq(RItems)
    BY RingParts
  <2>2. i \in Nat /\ j \in Nat /\ i < j /\ j <= n /\ d \in Nat /\ d <= n /\ d + i = j /\ n > 0
    BY <2>1
  <2> QED
    BY <2>1, <2>2, EmptySeq
<1> HIDE DEF r, n, e, x, z
<1>2. h \in Words /\ Len(h) = i /\ \A k \in 1..i : h[k] = s[k]
  <2>1. s \in Words /\ i \in 0..Len(s)
    BY <1>1
  <2> QED
    BY <2>1, PrefixIs DEF Words
<1>3. w \in Seq(RItems) /\ w \in Words /\ Len(w) = n
      /\ \A k \in 1..n : w[k] = IF d < k /\ k <= j THEN s[k - d] ELSE s[k]
  <2>1. \A k \in 1..n : s[k] \in RItems /\ (d < k /\ k <= j => s[k - d] \in RItems)
    BY <1>1 DEF n
  <2>2. w \in [1..n -> RItems]
    BY <2>1
  <2>3. w \in Seq(RItems) /\ Len(w) = n
    BY <1>1, <2>2
  <2>4. \A k \in 1..n : w[k] = IF d < k /\ k <= j THEN s[k - d] ELSE s[k]
    OBVIOUS
  <2> HIDE DEF w
  <2>5. w \in Words
    BY <2>3 DEF Words
  <2> QED
    BY <2>3, <2>4, <2>5
<1> HIDE DEF d, h, w
<1>4. Overwritten(w, s, d, h, c)
  <2>1. ASSUME NEW o \in 0..c - 1
        PROVE  Held(w, o) = IF d <= o /\ o < d + Len(h) THEN h[o - d + 1] ELSE Held(s, o)
    <3> DEFINE k == o + 1
    <3>1. o \in Nat /\ (o < n => k \in 1..n) /\ (o < j <=> k <= j) /\ (d <= o <=> d < k)
          /\ d + Len(h) = j /\ k - d = o - d + 1 /\ (d <= o /\ o < j => k - d \in 1..i /\ o < n)
      BY <1>1, <1>2
    <3>2. Held(w, o) = IF o < n THEN w[k] ELSE Raw
      BY <1>3 DEF Held
    <3>3. Held(s, o) = IF o < n THEN s[k] ELSE Raw
      BY DEF Held, n
    <3>4. d <= o /\ o < j => h[o - d + 1] = s[k - d]
      BY <1>2, <3>1
    <3> HIDE DEF k
    <3>5. o < n => w[k] = IF d < k /\ k <= j THEN s[k - d] ELSE s[k]
      BY <1>3, <3>1
    <3> QED
      BY <3>1, <3>2, <3>3, <3>4, <3>5
  <2> QED
    BY <2>1 DEF Overwritten
<1>5. Store(r, x, h) = Ring(Cells(c, b, w), b, e, c)
  <2>1. d + Len(h) <= c
    BY <1>1, <1>2
  <2>2. Store(Ring(Cells(c, b, s), b, e, c), x, h) = Ring(Cells(c, b, w), b, e, c)
    <3>1. c \in Caps /\ b \in Int /\ s \in Words /\ h \in Words /\ w \in Words /\ d \in Nat
      BY <1>1, <1>2, <1>3
    <3>2. x = Wrap(b + d)
      BY <1>1
    <3> QED
      BY <1>4, <2>1, <3>1, <3>2, StoreCells
  <2> QED
    BY <1>1, <2>2
<1>6. DestroyIndex(Ring(Cells(c, b, w), b, e, c), b, d) = Ring(Cells(c, x, u), b, e, c)
  <2>1. Len(w) <= c /\ d \in 0..Len(w)
    BY <1>1, <1>3
  <2>2. DestroyIndex(Ring(Cells(c, b, w), b, e, c), b, d)
          = Ring(Cells(c, Wrap(b + d), SubSeq(w, d + 1, Len(w))), b, e, c)
    <3>1. c \in Caps /\ b \in 0..Width - 1 /\ w \in Words
      BY <1>1, <1>3
    <3> QED
      BY <2>1, <3>1, LeftFront
  <2> QED
    BY <1>1, <1>3, <2>2
<1>7. y \in Seq(RItems) /\ Len(y) = n - d
      /\ \A k \in 1..n - d : y[k] = IF k <= i THEN s[k] ELSE s[k + d]
  <2>1. i \in 0..Len(s) /\ j \in i..Len(s) /\ s \in Seq(RItems)
    BY <1>1
  <2>2. y \in Seq(RItems) /\ Len(y) = Len(s) - (j - i)
        /\ \A k \in 1..Len(y) : y[k] = IF k <= i THEN s[k] ELSE s[k + (j - i)]
    BY <2>1, ErasedIs DEF z
  <2> HIDE DEF y
  <2>3. Len(y) = n - d
    BY <1>1, <2>2 DEF d
  <2> QED
    BY <2>2, <2>3 DEF d
<1>8. u = y
  <2> DEFINE f == d + 1
  <2>1. f \in 1..n + 1 /\ n \in f - 1..n /\ n - f + 1 = n - d
    BY <1>1
  <2>2. u \in Seq(RItems) /\ Len(u) = n - f + 1 /\ \A k \in 1..n - f + 1 : u[k] = w[f + k - 1]
    <3> HIDE DEF f
    <3>1. SubSeq(w, f, n) \in Seq(RItems) /\ Len(SubSeq(w, f, n)) = n - f + 1
          /\ \A k \in 1..n - f + 1 : SubSeq(w, f, n)[k] = w[f + k - 1]
      BY <1>3, <2>1, PartIs
    <3> QED
      BY <3>1 DEF f
  <2>3. ASSUME NEW k \in 1..n - d PROVE u[k] = y[k]
    <3>1. f + k - 1 = k + d /\ k + d \in 1..n /\ d < k + d /\ (k + d <= j <=> k <= i) /\ (k + d) - d = k
      BY <1>1
    <3> HIDE DEF u, y, f
    <3>2. u[k] = w[k + d]
      BY <2>1, <2>2, <3>1
    <3>3. w[k + d] = IF k <= i THEN s[k] ELSE s[k + d]
      BY <1>3, <3>1
    <3> QED
      BY <1>7, <3>2, <3>3
  <2> HIDE DEF u, y, f
  <2>4. Len(u) = Len(y) /\ \A k \in 1..Len(u) : u[k] = y[k]
    BY <1>7, <2>1, <2>2, <2>3
  <2> QED
    BY <1>7, <2>2, <2>4, SeqEqual
<1> HIDE DEF u, y
<1>9. e = Wrap(x + Len(y))
  <2> DEFINE k == b + d
             l == n - d
  <2>1. k \in Int /\ l \in Int /\ k + l = b + n
    BY <1>1
  <2> HIDE DEF k, l
  <2>2. Wrap(Wrap(k) + l) = Wrap(k + l)
    BY <2>1, Wraps
  <2> QED
    BY <1>7, <2>1, <2>2 DEF e, x, k, l
<1>10. CloseFront(r, i, j) = RingOf(x, y, c)
  <2> DEFINE q == Ring(Cells(c, x, y), b, e, c)
  <2>1. r.beg + j - i = b + d
    BY <1>1 DEF d
  <2>2. DestroyIndex(Store(r, Wrap(r.beg + j - i), SubSeq(Items(r), 1, i)), r.beg, j - i) = q
    BY <1>1, <1>5, <1>6, <1>8, <2>1 DEF x, h, d
  <2>3. q.beg = b
    BY RingSet
  <2> HIDE DEF q
  <2>4. CloseFront(r, i, j) = [q EXCEPT !.beg = Wrap(q.beg + j - i)]
    BY <2>2 DEF CloseFront
  <2>5. Wrap(q.beg + j - i) = x
    BY <1>1, <2>1, <2>3 DEF x
  <2>6. CloseFront(r, i, j) = Ring(Cells(c, x, y), x, e, c)
    BY <2>4, <2>5, RingSet DEF q
  <2> QED
    BY <1>9, <2>6 DEF RingOf
<1>11. Legal(x, y, c)
  <2>1. x \in 0..Width - 1
    <3>1. b + d \in Int
      BY <1>1
    <3> QED
      BY <3>1, Wraps DEF x
  <2> QED
    BY <1>1, <1>7, <2>1 DEF Legal
<1> QED
  BY <1>10, <1>11 DEF r, x, y, z, d

(* The same by the items behind the gap.                                   *)
LEMMA CloseBackIs ==
    ASSUME NEW b, NEW s, NEW c, Legal(b, s, c), NEW i \in 0..Len(s), NEW j \in i + 1..Len(s)
    PROVE  LET y == Splice(s, i, j, <<>>)
           IN  CloseBack(RingOf(b, s, c), i, j) = RingOf(b, y, c) /\ Legal(b, y, c)
<1> DEFINE r == RingOf(b, s, c)
           n == Len(s)
           d == j - i
           m == n - d
           e == Wrap(b + n)
           x == Wrap(b + i)
           z == <<>>
           y == Splice(s, i, j, z)
           h == SubSeq(s, j + 1, n)
           w == [k \in 1..n |-> IF i < k /\ k <= m THEN s[k + d] ELSE s[k]]
           u == SubSeq(w, 1, m)
           stop == Wrap(b + m)
<1>1. /\ r = Ring(Cells(c, b, s), b, e, c) /\ r.beg = b /\ Items(r) = s /\ RSize(r) = n
      /\ n \in Nat /\ n <= c /\ n < Width /\ b \in 0..Width - 1 /\ b \in Int /\ Width \in Nat
      /\ c \in Nat /\ c \in Caps /\ s \in Words /\ s \in Seq(RItems)
      /\ i \in Nat /\ j \in Nat /\ i < j /\ j <= n /\ d \in Nat /\ d <= n /\ d + i = j
      /\ m \in Nat /\ i <= m /\ m <= n /\ m + d = n /\ m = i + (n - j) /\ n - m = d
      /\ z \in Seq(RItems) /\ Len(z) = 0 /\ x = Wrap(b + i) /\ n = Len(s) /\ stop = Wrap(b + m)
  <2>1. /\ r = Ring(Cells(c, b, s), b, e, c) /\ r.beg = b /\ Items(r) = s /\ RSize(r) = n
        /\ n \in Nat /\ n <= c /\ n < Width /\ b \in 0..Width - 1 /\ b \in Int /\ Width \in Nat
        /\ c \in Nat /\ (n > 0 => c \in Caps) /\ s \in Words /\ s \in Seq(RItems)
    BY RingParts
  <2>2. i \in Nat /\ j \in Nat /\ i < j /\ j <= n /\ d \in Nat /\ d <= n /\ d + i = j /\ n > 0
        /\ m \in Nat /\ i <= m /\ m <= n /\ m + d = n /\ m = i + (n - j) /\ n - m = d
    BY <2>1
  <2> QED
    BY <2>1, <2>2, EmptySeq
<1> HIDE DEF r, n, e, x, z
<1>2. h \in Words /\ Len(h) = n - j /\ \A k \in 1..n - j : h[k] = s[j + k]
  <2>1. s \in Words /\ j \in 0..Len(s)
    BY <1>1
  <2> QED
    BY <2>1, SuffixIs DEF Words, n
<1>3. w \in Seq(RItems) /\ w \in Words /\ Len(w) = n
      /\ \A k \in 1..n : w[k] = IF i < k /\ k <= m THEN s[k + d] ELSE s[k]
  <2> HIDE DEF d, m
  <2>1. \A k \in 1..n : s[k] \in RItems /\ (i < k /\ k <= m => s[k + d] \in RItems)
    <3> SUFFICES ASSUME NEW k \in 1..n
                 PROVE  s[k] \in RItems /\ (i < k /\ k <= m => s[k + d] \in RItems)
      OBVIOUS
    <3>1. i < k /\ k <= m => k + d \in 1..n
      BY <1>1
    <3> QED
      BY <1>1, <3>1 DEF n
  <2>2. w \in [1..n -> RItems]
    BY <2>1
  <2>3. w \in Seq(RItems) /\ Len(w) = n
    BY <1>1, <2>2
  <2>4. \A k \in 1..n : w[k] = IF i < k /\ k <= m THEN s[k + d] ELSE s[k]
    OBVIOUS
  <2> HIDE DEF w
  <2>5. w \in Words
    BY <2>3 DEF Words
  <2> QED
    BY <2>3, <2>4, <2>5
<1> HIDE DEF d, m, h, w
<1>4. Overwritten(w, s, i, h, c)
  <2>1. ASSUME NEW o \in 0..c - 1
        PROVE  Held(w, o) = IF i <= o /\ o < i + Len(h) THEN h[o - i + 1] ELSE Held(s, o)
    <3> DEFINE k == o + 1
    <3>1. o \in Nat /\ (o < n => k \in 1..n) /\ (o < m <=> k <= m) /\ (i <= o <=> i < k)
          /\ i + Len(h) = m
          /\ (i <= o /\ o < m => o - i + 1 \in 1..n - j /\ o < n /\ j + (o - i + 1) = k + d)
      BY SMTT(30), <1>1, <1>2
    <3>2. Held(w, o) = IF o < n THEN w[k] ELSE Raw
      BY <1>3 DEF Held
    <3>3. Held(s, o) = IF o < n THEN s[k] ELSE Raw
      BY DEF Held, n
    <3>4. i <= o /\ o < m => h[o - i + 1] = s[k + d]
      <4> HIDE DEF k
      <4> QED
        BY <1>2, <3>1
    <3> HIDE DEF k
    <3>5. o < n => w[k] = IF i < k /\ k <= m THEN s[k + d] ELSE s[k]
      BY <1>3, <3>1
    <3> QED
      BY <3>1, <3>2, <3>3, <3>4, <3>5
  <2> QED
    BY <2>1 DEF Overwritten
<1>5. Store(r, x, h) = Ring(Cells(c, b, w), b, e, c)
  <2>1. i + Len(h) <= c
    BY <1>1, <1>2
  <2>2. Store(Ring(Cells(c, b, s), b, e, c), x, h) = Ring(Cells(c, b, w), b, e, c)
    <3>1. c \in Caps /\ b \in Int /\ s \in Words /\ h \in Words /\ w \in Words /\ i \in Nat
      BY <1>1, <1>2, <1>3
    <3>2. x = Wrap(b + i)
      BY <1>1
    <3> QED
      BY <1>4, <2>1, <3>1, <3>2, StoreCells
  <2> QED
    BY <1>1, <2>2
<1>6. DestroyIndex(Ring(Cells(c, b, w), b, e, c), stop, d) = Ring(Cells(c, b, u), b, e, c)
  <2>1. Len(w) <= c /\ m \in 0..Len(w) /\ Len(w) - m = d
    BY <1>1, <1>3
  <2>2. DestroyIndex(Ring(Cells(c, b, w), b, e, c), stop, Len(w) - m) = Ring(Cells(c, b, u), b, e, c)
    BY <1>1, <1>3, <2>1, LeftBack
  <2> QED
    BY <2>1, <2>2
<1>7. y \in Seq(RItems) /\ Len(y) = m
      /\ \A k \in 1..m : y[k] = IF k <= i THEN s[k] ELSE s[k + d]
  <2>1. i \in 0..Len(s) /\ j \in i..Len(s) /\ s \in Seq(RItems)
    BY <1>1
  <2>2. y \in Seq(RItems) /\ Len(y) = Len(s) - (j - i)
        /\ \A k \in 1..Len(y) : y[k] = IF k <= i THEN s[k] ELSE s[k + (j - i)]
    BY <2>1, ErasedIs DEF z
  <2> HIDE DEF y
  <2>3. Len(y) = m
    BY <1>1, <2>2 DEF d, m
  <2> QED
    BY <2>2, <2>3 DEF d
<1>8. u = y
  <2>1. w \in Seq(RItems) /\ m \in 0..Len(w)
    BY <1>1, <1>3
  <2>2. u \in Seq(RItems) /\ Len(u) = m /\ \A k \in 1..m : u[k] = w[k]
    BY <2>1, PrefixIs
  <2> HIDE DEF u, y
  <2>3. ASSUME NEW k \in 1..m PROVE u[k] = y[k]
    <3>1. k \in 1..n /\ (i < k <=> ~(k <= i)) /\ k <= m
      BY <1>1
    <3>2. w[k] = IF k <= i THEN s[k] ELSE s[k + d]
      BY <1>3, <3>1
    <3> QED
      BY <1>7, <2>2, <3>2
  <2>4. Len(u) = Len(y) /\ \A k \in 1..Len(u) : u[k] = y[k]
    BY <1>7, <2>2, <2>3
  <2> QED
    BY <1>7, <2>2, <2>4, SeqEqual
<1> HIDE DEF u, y
<1>10. CloseBack(r, i, j) = RingOf(b, y, c)
  <2> DEFINE q == Ring(Cells(c, b, y), b, e, c)
  <2>1. r.beg + i + Len(h) = b + m /\ r.beg + i = b + i
    BY <1>1, <1>2
  <2>2. DestroyIndex(Store(r, Wrap(r.beg + i), h), Wrap(r.beg + i + Len(h)), j - i) = q
    BY <1>1, <1>5, <1>6, <1>8, <2>1 DEF x, d
  <2> HIDE DEF q
  <2>3. h = SubSeq(Items(r), j + 1, RSize(r))
    BY <1>1 DEF h
  <2>4. CloseBack(r, i, j) = [q EXCEPT !.end = Wrap(r.beg + i + Len(h))]
    BY <2>2, <2>3 DEF CloseBack
  <2>5. CloseBack(r, i, j) = Ring(Cells(c, b, y), b, stop, c)
    BY <2>1, <2>4, RingSet DEF q
  <2> QED
    BY <1>7, <2>5 DEF RingOf
<1>11. Legal(b, y, c)
  BY <1>1, <1>7 DEF Legal
<1> QED
  BY <1>10, <1>11 DEF r, y, z

(* A ring without items is the same wherever it stands.                    *)
LEMMA EmptyRing ==
    ASSUME NEW c \in Caps \cup {0}, NEW b \in 0..Width - 1, NEW w \in Seq(RItems), Len(w) = 0
    PROVE  /\ Cells(c, b, w) = [x \in 0..c - 1 |-> Raw]
           /\ Legal(b, w, c) /\ RingOf(b, w, c) = Ring([x \in 0..c - 1 |-> Raw], b, b, c)
<1>1. Width \in Nat \ {0} /\ c \in Nat /\ b \in Int /\ b + Len(w) = b
  BY RingSizes
<1>2. ASSUME NEW x \in 0..c - 1 PROVE Held(w, (x - b) % c) = Raw
  <2> DEFINE z == x - b
             o == z % c
  <2>1. z \in Int /\ c \in Nat \ {0}
    BY <1>1
  <2> HIDE DEF z
  <2>2. o \in 0..c - 1
    BY <2>1, RemainderIs
  <2> HIDE DEF o
  <2>3. ~(o < Len(w))
    BY <1>1, <2>2
  <2>4. Held(w, o) = Raw
    BY <2>3 DEF Held
  <2> QED
    BY <2>4 DEF o, z
<1>3. Cells(c, b, w) = [x \in 0..c - 1 |-> Raw]
  BY <1>2 DEF Cells
<1>4. Wrap(b) = b
  BY <1>1, Wraps
<1>5. Legal(b, w, c)
  BY <1>1 DEF Legal
<1>6. Wrap(b + Len(w)) = b
  BY <1>1, <1>4
<1> QED
  BY <1>3, <1>5, <1>6 DEF RingOf

(* clear() and the destructor: every object is destroyed, the cells stay.  *)
LEMMA DestroyIs ==
    ASSUME NEW b, NEW s, NEW c, Legal(b, s, c)
    PROVE  Destroy(RingOf(b, s, c)) = RingOf(0, <<>>, c) /\ Legal(0, <<>>, c)
<1> DEFINE n == Len(s)
           r == RingOf(b, s, c)
           e == Wrap(b + n)
           d == [x \in 0..c - 1 |-> Raw]
           z == 0
           u == <<>>
<1>1. /\ r = Ring(Cells(c, b, s), b, e, c) /\ r.beg = b
      /\ RSize(r) = n /\ n \in Nat /\ n <= c /\ n < Width
      /\ b \in 0..Width - 1 /\ b \in Int /\ Width \in Nat /\ c \in Nat
      /\ c \in Caps \cup {0} /\ (n > 0 => c \in Caps)
      /\ s \in Words /\ s \in Seq(RItems)
  BY RingParts
<1>2. z \in 0..Width - 1 /\ u \in Seq(RItems) /\ Len(u) = 0
  BY <1>1, EmptySeq
<1>3. RingOf(z, u, c) = Ring(d, z, z, c) /\ Legal(z, u, c)
  <2> HIDE DEF z, u
  <2> QED
    BY <1>1, <1>2, EmptyRing
<1>4. DestroyIndex(r, b, n) = Ring(d, b, e, c)
  <2>1. CASE c \in Caps
    <3> DEFINE k == 0
               y == SubSeq(s, 1, k)
    <3>1. k \in 0..n /\ b + k = b /\ n - k = n /\ n <= c
      BY <1>1
    <3>2. y \in Seq(RItems) /\ Len(y) = 0
      <4>1. k = 0
        OBVIOUS
      <4> HIDE DEF k
      <4> QED
        BY <1>1, <3>1, <4>1, PrefixIs
    <3> HIDE DEF k
    <3>3. DestroyIndex(Ring(Cells(c, b, s), b, e, c), Wrap(b + k), n - k) = Ring(Cells(c, b, y), b, e, c)
      BY <1>1, <2>1, <3>1, LeftBack
    <3>4. Wrap(b + k) = b
      BY <1>1, <3>1, Wraps
    <3> HIDE DEF y
    <3>5. Cells(c, b, y) = d
      BY ZenonT(40), <1>1, <3>2, EmptyRing
    <3> QED
      BY <1>1, <3>1, <3>3, <3>4, <3>5
  <2>2. CASE c \notin Caps
    <3>1. c = 0 /\ 0..c - 1 = {}
      BY <1>1, <2>2
    <3> DEFINE f == Cells(c, b, s)
    <3>2. DOMAIN f = {} /\ DOMAIN d = {}
      BY <3>1 DEF Cells
    <3> DEFINE a == Raws(n)
               g == [x \in DOMAIN f |->
                        LET k == (x - b) % c IN IF k < Len(a) THEN a[k + 1] ELSE f[x]]
    <3>3. g = d
      BY <3>1, <3>2
    <3> HIDE DEF f, a
    <3>4. Store(Ring(f, b, e, c), b, a) = Ring(g, b, e, c)
      BY DEF Store, Ring
    <3> QED
      BY <1>1, <3>3, <3>4 DEF DestroyIndex, a, f
  <2> QED
    BY <2>1, <2>2
<1>5. Destroy(r) = Ring(d, 0, 0, c)
  <2> HIDE DEF r, e, d, n
  <2>1. Destroy(r) = [Ring(d, b, e, c) EXCEPT !.beg = 0, !.end = 0]
    BY <1>1, <1>4 DEF Destroy
  <2> QED
    BY <2>1 DEF Ring
<1> QED
  BY <1>3, <1>5

(* A ring that owns no memory.                                             *)
LEMMA NullRingIs == NullRing = RingOf(0, <<>>, 0) /\ Legal(0, <<>>, 0)
<1> DEFINE z == 0
           u == <<>>
           c == 0
           d == [x \in 0..c - 1 |-> Raw]
<1>1. z \in 0..Width - 1 /\ u \in Seq(RItems) /\ Len(u) = 0 /\ c \in Caps \cup {0}
  BY RingSizes, EmptySeq
<1>2. RingOf(z, u, c) = Ring(d, z, z, c) /\ Legal(z, u, c)
  <2> HIDE DEF z, u, c
  <2> QED
    BY <1>1, EmptyRing
<1>3. d = <<>>
  <2>1. 0..c - 1 = {}
    OBVIOUS
  <2> QED
    BY <2>1
<1> QED
  BY <1>2, <1>3 DEF NullRing, Ring

(* The copy constructor.                                                   *)
LEMMA CopyOfIs ==
    ASSUME NEW b, NEW s, NEW c, Legal(b, s, c), Len(s) <= Most
    PROVE  Rings(CopyOf(RingOf(b, s, c)), s)
<1> DEFINE n == Len(s)
           r == RingOf(b, s, c)
           k == SizePolicy(n)
<1>1. Items(r) = s /\ RSize(r) = n /\ n \in Nat /\ n < Width /\ s \in Seq(RItems) /\ Width \in Nat
  BY RingParts
<1>2. n \in 0..MaxItems + MaxArgs
  BY <1>1, RingSizes DEF Most
<1> HIDE DEF r, n
<1>3. k \in Caps /\ n <= k
  BY <1>2, SizePolicyIs
<1> HIDE DEF k
<1>4. CopyOf(r) = Allocated(s, k)
  BY <1>1 DEF CopyOf, k
<1>5. Allocated(s, k) = RingOf(0, s, k) /\ Legal(0, s, k)
  BY <1>1, <1>3, AllocatedIs DEF n
<1> QED
  BY <1>4, <1>5 DEF Rings, Legal, r

(* assign() and the constructors: the items go into cells that are all     *)
(* raw.                                                                    *)
LEMMA FilledIs ==
    ASSUME NEW c \in Caps, NEW t \in Seq(RItems), Len(t) <= c, Len(t) < Width
    PROVE  /\ [Store(RingOf(0, <<>>, c), 0, t) EXCEPT !.end = Len(t)] = RingOf(0, t, c)
           /\ Legal(0, t, c)
<1> DEFINE z == 0
           u == <<>>
           m == Len(t)
<1>1. z \in 0..Width - 1 /\ u \in Seq(RItems) /\ Len(u) = 0 /\ c \in Caps /\ m \in Nat /\ c \in Nat
      /\ z \in Nat /\ z + m = m /\ z = 0 /\ z + z = z /\ z \in Int
  BY RingSizes, EmptySeq
<1>2. t \in Words /\ u \in Words
  BY <1>1 DEF Words
<1> HIDE DEF z, u, m
<1>3. Wrap(z + z) = z
  BY <1>1, Wraps
<1>4. Overwritten(t, u, z, t, c)
  <2>1. ASSUME NEW o \in 0..c - 1
        PROVE  Held(t, o) = IF z <= o /\ o < z + Len(t) THEN t[o - z + 1] ELSE Held(u, o)
    <3>1. z <= o /\ z + Len(t) = Len(t) /\ o - z + 1 = o + 1 /\ ~(o < Len(u))
      BY <1>1 DEF m
    <3> QED
      BY <3>1 DEF Held
  <2> QED
    BY <2>1 DEF Overwritten
<1>5. ASSUME NEW e PROVE Store(Ring(Cells(c, z, u), z, e, c), z, t) = Ring(Cells(c, z, t), z, e, c)
  <2>1. z + Len(t) <= c
    BY <1>1 DEF m
  <2>2. c \in Caps /\ z \in Int /\ z \in Nat /\ z = Wrap(z + z)
    BY <1>1, <1>3
  <2> QED
    BY <1>2, <1>4, <2>1, <2>2, StoreCells
<1>6. Store(RingOf(z, u, c), z, t) = Ring(Cells(c, z, t), z, Wrap(z + Len(u)), c)
  BY <1>5 DEF RingOf
<1>7. Wrap(z + m) = m
  <2>1. m \in 0..Width - 1
    BY <1>1, RingSizes DEF m
  <2> QED
    BY <1>1, <2>1, Wraps
<1>8. [Store(RingOf(z, u, c), z, t) EXCEPT !.end = m] = RingOf(z, t, c)
  BY <1>6, <1>7, RingSet DEF RingOf, m
<1>9. Legal(z, t, c)
  BY <1>1 DEF Legal, m
<1> QED
  BY <1>8, <1>9 DEF z, u, m

(* assign().                                                               *)
LEMMA AssignIs ==
    ASSUME NEW b, NEW s, NEW c, Legal(b, s, c), NEW t \in Seq(RItems), Len(t) <= Most
    PROVE  Rings(Assign(RingOf(b, s, c), t), t)
<1> DEFINE r == RingOf(b, s, c)
           z == 0
           u == <<>>
           m == Len(t)
<1>1. Destroy(r) = RingOf(z, u, c) /\ Legal(z, u, c) /\ z = 0 /\ u = <<>>
  BY DestroyIs
<1>2. m \in 0..MaxItems + MaxArgs /\ m < Width /\ m \in Nat
  BY RingSizes DEF Most
<1> HIDE DEF r, z, u, m
<1>3. PICK a, k : /\ Legal(a, u, k) /\ m <= k /\ Reserve(RingOf(z, u, c), m) = RingOf(a, u, k)
                  /\ a = z \/ a = 0
  BY <1>1, <1>2, ReallocIs
<1>4. Reserve(Destroy(r), m) = RingOf(z, u, k) /\ Legal(z, u, k)
  BY <1>1, <1>3
<1>5. CASE t = <<>>
  <2>1. Assign(r, t) = RingOf(z, u, k)
    BY <1>4, <1>5 DEF Assign, m
  <2> QED
    BY <1>1, <1>4, <1>5, <2>1 DEF Rings, Legal, r
<1>6. CASE t # <<>>
  <2>1. m > 0
    BY <1>2, <1>6, EmptySeq DEF m
  <2>2. k \in Caps
    BY <1>2, <1>3, <2>1 DEF Legal
  <2>3. Assign(r, t) = [Store(RingOf(z, u, k), 0, t) EXCEPT !.end = m]
    BY <1>4, <1>6 DEF Assign, m
  <2>4. Assign(r, t) = RingOf(0, t, k) /\ Legal(0, t, k)
    BY <1>1, <1>2, <1>3, <2>2, <2>3, FilledIs DEF m
  <2> QED
    BY <2>4 DEF Rings, Legal, r
<1> QED
  BY <1>5, <1>6

(* The size and the range constructors.                                    *)
LEMMA ConstructedIs ==
    ASSUME NEW t \in Seq(RItems), Len(t) <= Most
    PROVE  Rings(Constructed(t), t)
<1> DEFINE m == Len(t)
           k == SizePolicy(m)
           u == <<>>
           r == Realloc(NullRing, m)
<1>1. m \in 0..MaxItems + MaxArgs /\ m < Width /\ m \in Nat
  BY RingSizes DEF Most
<1>2. u \in Seq(RItems) /\ Len(u) = 0 /\ u = <<>>
  BY EmptySeq
<1>3. Items(NullRing) = u
  <2> DEFINE z == 0
             c == 0
  <2>1. NullRing = RingOf(z, u, c) /\ Legal(z, u, c)
    BY NullRingIs
  <2> HIDE DEF z, c, u
  <2> QED
    BY <2>1, ItemsOf
<1> HIDE DEF m, u
<1>4. k \in Caps /\ m <= k
  BY <1>1, SizePolicyIs
<1> HIDE DEF k
<1>5. r = Allocated(u, k)
  BY <1>3 DEF Realloc, k
<1>6. Allocated(u, k) = RingOf(0, u, k)
  <2>1. k \in Nat /\ Width \in Nat \ {0}
    BY <1>4, RingSizes
  <2>2. Len(u) <= k /\ Len(u) < Width
    BY <1>2, <2>1
  <2> QED
    BY <1>2, <1>4, <2>2, AllocatedIs
<1> HIDE DEF r
<1>7. Constructed(t) = [Store(r, 0, t) EXCEPT !.end = m]
  BY DEF Constructed, r, m
<1>8. Constructed(t) = RingOf(0, t, k) /\ Legal(0, t, k)
  BY <1>1, <1>2, <1>4, <1>5, <1>6, <1>7, FilledIs DEF m
<1> QED
  BY <1>8 DEF Rings, Legal

\* An operation that returns the ring of the items t and an iterator at the
\* i-th of them.
Turns(o, t, i) ==
    \E b, c : Legal(b, t, c) /\ o.ring = RingOf(b, t, c) /\ o.it = Wrap(b + i)

(* erase(first, last).                                                     *)
LEMMA EraseRangeIs ==
    ASSUME NEW b, NEW s, NEW c, Legal(b, s, c), NEW i \in 0..Len(s), NEW j \in i..Len(s)
    PROVE  Turns(EraseRange(RingOf(b, s, c), i, j), Splice(s, i, j, <<>>), i)
<1> DEFINE r == RingOf(b, s, c)
           n == Len(s)
           y == Splice(s, i, j, <<>>)
           x == Wrap(b + (j - i))
           o == EraseRange(r, i, j)
<1>1. /\ r.beg = b /\ RSize(r) = n /\ n \in Nat /\ b \in 0..Width - 1 /\ b \in Int /\ Width \in Nat
      /\ s \in Seq(RItems) /\ i \in Nat /\ j \in Nat /\ i <= j /\ j <= n
  <2>1. /\ r.beg = b /\ RSize(r) = n /\ n \in Nat /\ b \in 0..Width - 1 /\ b \in Int /\ Width \in Nat
        /\ s \in Seq(RItems)
    BY RingParts
  <2> QED
    BY <2>1
<1> HIDE DEF r, o
<1>2. CASE i = j
  <2>1. y = s
    BY <1>1, <1>2, NothingSpliced
  <2>2. o.ring = r /\ o.it = Wrap(b + i)
    BY <1>1, <1>2 DEF EraseRange, o
  <2> QED
    BY <2>1, <2>2 DEF Turns, r, o
<1>3. CASE i # j
  <2>1. j \in i + 1..n
    BY <1>1, <1>3
  <2>2. CASE i < n - j
    <3>1. CloseFront(r, i, j) = RingOf(x, y, c) /\ Legal(x, y, c)
      BY <2>1, CloseFrontIs DEF r
    <3>2. o.ring = CloseFront(r, i, j) /\ o.it = Wrap(b + j)
      BY <1>1, <1>3, <2>2 DEF EraseRange, o
    <3>3. Wrap(b + j) = Wrap(x + i)
      <4> DEFINE k == b + (j - i)
      <4>1. k \in Int /\ k + i = b + j /\ i \in Int
        BY <1>1
      <4> HIDE DEF k
      <4>2. Wrap(Wrap(k) + i) = Wrap(k + i)
        BY <4>1, Wraps
      <4> QED
        BY <4>1, <4>2 DEF k
    <3> HIDE DEF x, y
    <3> QED
      BY <3>1, <3>2, <3>3 DEF Turns, o, r, y
  <2>3. CASE ~(i < n - j)
    <3>1. CloseBack(r, i, j) = RingOf(b, y, c) /\ Legal(b, y, c)
      BY <2>1, CloseBackIs DEF r
    <3>2. o.ring = CloseBack(r, i, j) /\ o.it = Wrap(b + i)
      BY <1>1, <1>3, <2>3 DEF EraseRange, o
    <3> HIDE DEF x, y
    <3> QED
      BY <3>1, <3>2 DEF Turns, o, r, y
  <2> QED
    BY <2>2, <2>3
<1> QED
  BY <1>2, <1>3

(* erase(where): in the front half the iterator stands one before.         *)
LEMMA EraseAtIs ==
    ASSUME NEW b, NEW s, NEW c, Legal(b, s, c), NEW i \in 0..Len(s) - 1
    PROVE  Turns(EraseAt(RingOf(b, s, c), i), Splice(s, i, i + 1, <<>>),
                 IF 2 * i < Len(s) THEN i - 1 ELSE i)
<1> DEFINE r == RingOf(b, s, c)
           n == Len(s)
           j == i + 1
           y == Splice(s, i, j, <<>>)
           x == Wrap(b + (j - i))
           o == EraseAt(r, i)
           at == IF 2 * i < n THEN i - 1 ELSE i
<1>1. /\ r.beg = b /\ RSize(r) = n /\ n \in Nat /\ b \in 0..Width - 1 /\ b \in Int /\ Width \in Nat
      /\ s \in Seq(RItems) /\ i \in Nat /\ i \in 0..n /\ j \in i + 1..n /\ j = i + 1
  <2>1. /\ r.beg = b /\ RSize(r) = n /\ n \in Nat /\ b \in 0..Width - 1 /\ b \in Int /\ Width \in Nat
        /\ s \in Seq(RItems)
    BY RingParts
  <2> QED
    BY <2>1
<1>2. o.it = Wrap(b + i) /\ o.ring = IF i < n - i THEN CloseFront(r, i, j) ELSE CloseBack(r, i, j)
  <2> HIDE DEF r, n
  <2> QED
    BY <1>1 DEF EraseAt
<1>3. i < n - i <=> 2 * i < n
  BY <1>1
<1> HIDE DEF r, o, j, n
<1>4. CASE 2 * i < n
  <2>1. CloseFront(r, i, j) = RingOf(x, y, c) /\ Legal(x, y, c)
    BY <1>1, CloseFrontIs DEF r, n
  <2>2. Wrap(b + i) = Wrap(x + (i - 1))
    <3> DEFINE k == b + (j - i)
               l == i - 1
    <3>1. k \in Int /\ l \in Int /\ k + l = b + i
      BY <1>1
    <3> HIDE DEF k, l
    <3>2. Wrap(Wrap(k) + l) = Wrap(k + l)
      BY <3>1, Wraps
    <3> QED
      BY <3>1, <3>2 DEF k, l
  <2>3. at = i - 1
    BY <1>4
  <2> HIDE DEF x, y, at
  <2>4. Turns(o, y, at)
    BY <1>2, <1>3, <1>4, <2>1, <2>2, <2>3 DEF Turns
  <2> QED
    BY <2>4 DEF o, y, at, r, j, n
<1>5. CASE ~(2 * i < n)
  <2>1. CloseBack(r, i, j) = RingOf(b, y, c) /\ Legal(b, y, c)
    BY <1>1, CloseBackIs DEF r, n
  <2>2. at = i
    BY <1>5
  <2> HIDE DEF x, y, at
  <2>3. Turns(o, y, at)
    BY <1>2, <1>3, <1>5, <2>1, <2>2 DEF Turns
  <2> QED
    BY <2>3 DEF o, y, at, r, j, n
<1> QED
  BY <1>4, <1>5

(* insert() of the values t.                                               *)
LEMMA InsertNIs ==
    ASSUME NEW b, NEW s, NEW c, Legal(b, s, c), NEW i \in 0..Len(s), NEW t \in Seq(RItems),
           Len(s) + Len(t) <= Most
    PROVE  Turns(InsertN(RingOf(b, s, c), i, t), Splice(s, i, i, t), i)
<1> DEFINE r == RingOf(b, s, c)
           n == Len(s)
           m == Len(t)
           l == n + m
           y == Splice(s, i, i, t)
           o == InsertN(r, i, t)
<1>1. /\ r.beg = b /\ RSize(r) = n /\ n \in Nat /\ m \in Nat /\ i \in Nat /\ l \in 0..MaxItems + MaxArgs
      /\ l < Width /\ s \in Seq(RItems) /\ i <= n /\ l = n + m /\ n = Len(s) /\ b \in Int
  <2>1. /\ r.beg = b /\ RSize(r) = n /\ n \in Nat /\ s \in Seq(RItems) /\ b \in Int
    BY RingParts
  <2>2. m \in Nat /\ i \in Nat /\ l \in 0..MaxItems + MaxArgs /\ l < Width /\ i <= n
    BY <2>1, RingSizes DEF Most
  <2> QED
    BY <2>1, <2>2
<1> HIDE DEF r, o, l
<1>2. CASE m = 0
  <2>1. y = s
    BY <1>1, <1>2, EmptySeq, NothingSpliced
  <2>2. o.ring = r /\ o.it = Wrap(b + i)
    BY <1>1, <1>2 DEF InsertN, o
  <2> QED
    BY <2>1, <2>2 DEF Turns, r, o
<1>3. CASE m # 0
  <2>1. PICK a, k : Legal(a, s, k) /\ l <= k /\ Reserve(r, l) = RingOf(a, s, k)
    BY <1>1, ReallocIs DEF r
  <2> DEFINE A == RingOf(a, s, k)
             x == Wrap(a - m)
  <2>2. A.beg = a /\ RSize(A) = n /\ Items(A) = s /\ k \in Nat /\ a \in Int
    BY <2>1, RingParts
  <2>3. n + m <= k /\ n + m < Width /\ k # 0
    BY <1>1, <1>3, <2>1, <2>2
  <2> HIDE DEF A
  <2>4. o = IF i < n - i
            THEN [ring |-> MadeFront(A, s, i, t), it |-> Wrap(Wrap(a + i) - m)]
            ELSE [ring |-> MadeBack(A, s, i, t), it |-> Wrap(a + i)]
    <3>1. Reserve(r, RSize(r) + Len(t)) = A
      BY <1>1, <2>1 DEF A
    <3> QED
      BY <1>1, <1>3, <2>2, <3>1 DEF InsertN, o, MadeFront, MadeBack
  <2>5. CASE i < n - i
    <3>1. MadeFront(A, s, i, t) = RingOf(x, y, k) /\ Legal(x, y, k)
      BY <2>1, <2>3, MadeFrontIs DEF A
    <3>2. Wrap(Wrap(a + i) - m) = Wrap(x + i)
      <4> DEFINE p == a + i
                 q == a - m
      <4>1. p \in Int /\ q \in Int /\ p - m = q + i /\ m \in Int /\ i \in Int
        BY <1>1, <2>2
      <4> HIDE DEF p, q, m
      <4>2. Wrap(Wrap(p) - m) = Wrap(p - m) /\ Wrap(Wrap(q) + i) = Wrap(q + i)
        BY <4>1, Wraps
      <4> QED
        BY <4>1, <4>2 DEF p, q
    <3>3. o.ring = MadeFront(A, s, i, t) /\ o.it = Wrap(Wrap(a + i) - m)
      BY <2>4, <2>5
    <3> HIDE DEF x, y
    <3>4. Turns(o, y, i)
      BY <3>1, <3>2, <3>3 DEF Turns
    <3> QED
      BY <3>4 DEF o, r, y
  <2>6. CASE ~(i < n - i)
    <3>1. MadeBack(A, s, i, t) = RingOf(a, y, k) /\ Legal(a, y, k)
      BY <2>1, <2>3, MadeBackIs DEF A
    <3>2. o.ring = MadeBack(A, s, i, t) /\ o.it = Wrap(a + i)
      BY <2>4, <2>6
    <3> HIDE DEF x, y
    <3>3. Turns(o, y, i)
      BY <3>1, <3>2 DEF Turns
    <3> QED
      BY <3>3 DEF o, r, y
  <2> QED
    BY <2>5, <2>6
<1> QED
  BY <1>2, <1>3

(* A counter and its offset around a ring of m.                            *)
LEMMA AroundTheRing ==
    ASSUME NEW m \in Nat \ {0}, NEW b \in Int
    PROVE  /\ \A k \in 0..m - 1 : (((b + k) % m) - b) % m = k
           /\ \A x \in 0..m - 1 : (b + ((x - b) % m)) % m = x
<1>0. m % m = 0
  <2>1. (1 * m + 0) % m = 0 /\ 1 * m + 0 = m
    BY RemainderOf
  <2> QED
    BY <2>1
<1>1. ASSUME NEW k \in 0..m - 1 PROVE (((b + k) % m) - b) % m = k
  <2> DEFINE y == b + k
             z == 0 - b
             x == y % m
  <2>1. y \in Int /\ z \in Int /\ z + y = k
    OBVIOUS
  <2> HIDE DEF y
  <2>2. x \in 0..m - 1
    BY <2>1, RemainderIs
  <2>3. x - b = z + x
    BY <2>2
  <2> HIDE DEF z
  <2>4. (z + (y % m)) % m = (z + y) % m
    BY ZenonT(40), <1>0, <2>1, ReducedSum
  <2>5. k % m = k
    BY RemainderSmall
  <2>6. (x - b) % m = k
    BY <2>1, <2>3, <2>4, <2>5
  <2> QED
    BY <2>6 DEF x, y
<1>2. ASSUME NEW x \in 0..m - 1 PROVE (b + ((x - b) % m)) % m = x
  <2> DEFINE y == x - b
  <2>1. y \in Int /\ b + y = x
    OBVIOUS
  <2> HIDE DEF y
  <2>2. (b + (y % m)) % m = (b + y) % m
    BY <1>0, <2>1, ReducedSum
  <2>3. x % m = x
    BY RemainderSmall
  <2>4. (b + (y % m)) % m = x
    BY <2>1, <2>2, <2>3
  <2> QED
    BY <2>4 DEF y
<1> QED
  BY <1>1, <1>2

(* The cells that hold an object are those that the counters from beg to   *)
(* end reach.                                                              *)
LEMMA LiveCells ==
    ASSUME NEW b, NEW s, NEW c, Legal(b, s, c), NEW x \in 0..c - 1
    PROVE  LET r == RingOf(b, s, c)
           IN  (r.data[x] # Raw) <=> x \in {Mask(r, Wrap(r.beg + k)) : k \in 0..RSize(r) - 1}
<1> DEFINE r == RingOf(b, s, c)
           n == Len(s)
           y == x - b
           o == y % c
<1>1. /\ r.beg = b /\ r.cap = c /\ RSize(r) = n /\ n \in Nat /\ n <= c /\ b \in Int /\ c \in Nat
      /\ c \in Caps \cup {0} /\ s \in Seq(RItems) /\ r.data = Cells(c, b, s)
  BY RingParts, RingFields
<1>2. c \in Caps /\ c \in Nat \ {0} /\ y \in Int /\ x \in Int
  BY <1>1
<1> HIDE DEF r, n
<1>3. (b + o) % c = x
  BY <1>1, <1>2, AroundTheRing
<1> HIDE DEF y
<1>4. o \in 0..c - 1
  BY <1>2, RemainderIs
<1>5. r.data[x] = Held(s, o)
  BY <1>1 DEF Cells, y
<1> HIDE DEF o
<1>6. ASSUME NEW k \in 0..n - 1
      PROVE  Mask(r, Wrap(r.beg + k)) = (b + k) % c /\ ((((b + k) % c) - b) % c = k)
  <2> DEFINE z == b + k
  <2>1. z \in Int /\ k \in 0..c - 1 /\ c # 0
    BY <1>1, <1>2
  <2>2. ((z % c) - b) % c = k
    BY <1>1, <1>2, <2>1, AroundTheRing
  <2>3. r.beg + k = z
    BY <1>1
  <2> HIDE DEF z
  <2>4. Wrap(z) % c = z % c
    BY <1>2, <2>1, Masks
  <2>5. Mask(r, Wrap(r.beg + k)) = z % c
    BY <1>1, <2>1, <2>3, <2>4 DEF Mask
  <2> QED
    BY <2>2, <2>5 DEF z
<1>7. ASSUME o < n PROVE r.data[x] # Raw /\ \E k \in 0..n - 1 : x = Mask(r, Wrap(r.beg + k))
  <2>1. o \in 0..n - 1 /\ o + 1 \in 1..n
    BY <1>1, <1>2, <1>4, <1>7
  <2>2. s[o + 1] \in RItems
    BY <1>1, <2>1 DEF n
  <2>3. r.data[x] = s[o + 1]
    BY <1>5, <1>7 DEF Held, n
  <2>4. r.data[x] # Raw
    BY <2>2, <2>3, RingSizes
  <2>5. x = Mask(r, Wrap(r.beg + o))
    BY <1>3, <1>6, <2>1
  <2> QED
    BY <2>1, <2>4, <2>5
<1>8. ASSUME ~(o < n) PROVE r.data[x] = Raw /\ ~\E k \in 0..n - 1 : x = Mask(r, Wrap(r.beg + k))
  <2>1. r.data[x] = Raw
    BY <1>5, <1>8 DEF Held, n
  <2>2. ASSUME NEW k \in 0..n - 1, x = Mask(r, Wrap(r.beg + k)) PROVE FALSE
    <3>1. (x - b) % c = k
      BY <1>6, <2>2
    <3>2. o = k
      BY <3>1 DEF o, y
    <3> QED
      BY <1>1, <1>8, <3>2
  <2> QED
    BY <2>1, <2>2
<1> QED
  BY <1>1, <1>7, <1>8 DEF r

(* The positions that the range guards let pass.                           *)
LEMMA InRange ==
    ASSUME NEW b, NEW s, NEW c, Legal(b, s, c), NEW x \in 0..Width - 1
    PROVE  LET r == RingOf(b, s, c)
           IN  OutOfRange(r, x, r.end) <=> x \notin {Wrap(r.beg + i) : i \in 0..RSize(r)}
<1> DEFINE r == RingOf(b, s, c)
           n == Len(s)
           o == Wrap(x - b)
<1>1. /\ r.beg = b /\ RSize(r) = n /\ n \in Nat /\ n < Width /\ b \in Int /\ Width \in Nat \ {0}
  BY RingParts, RingSizes
<1> HIDE DEF r, n
<1>2. \A k \in 0..Width - 1 : Wrap(Wrap(b + k) - b) = k
  BY <1>1, AroundTheRing DEF Wrap
<1>3. Wrap(b + o) = x
  BY <1>1, AroundTheRing DEF Wrap
<1>4. o \in 0..Width - 1
  <2> DEFINE y == x - b
  <2>1. y \in Int
    BY <1>1
  <2> HIDE DEF y
  <2>2. Wrap(y) \in 0..Width - 1
    BY <2>1, Wraps
  <2> QED
    BY <2>2 DEF y
<1>5. Before(r, x, r.beg) = FALSE
  <2>1. Wrap(b - b) = 0
    <3> DEFINE z == 0
    <3>1. b - b = z /\ z \in Int /\ z \in 0..Width - 1
      BY <1>1
    <3> HIDE DEF z
    <3>2. Wrap(z) = z
      BY <3>1, Wraps
    <3> QED
      BY <3>1, <3>2 DEF z
  <2> HIDE DEF o
  <2>2. Wrap(x - r.beg) = o /\ ~(o < 0)
    BY <1>1, <1>4 DEF o
  <2> QED
    BY <1>1, <2>1, <2>2 DEF Before
<1>6. Before(r, r.end, x) <=> n < o
  <2>1. Wrap(r.end - r.beg) = n
    BY <1>1 DEF RSize
  <2>2. Wrap(x - r.beg) = o
    BY <1>1
  <2> QED
    BY <2>1, <2>2 DEF Before
<1> HIDE DEF o
<1>7. ASSUME NEW i \in 0..n, x = Wrap(b + i) PROVE ~(n < o)
  <2>1. Wrap(x - b) = i
    BY <1>1, <1>2, <1>7
  <2>2. o = i
    BY <2>1 DEF o
  <2> QED
    BY <1>1, <2>2
<1>8. ~(n < o) => \E i \in 0..n : x = Wrap(b + i)
  <2> SUFFICES ASSUME ~(n < o) PROVE \E i \in 0..n : x = Wrap(b + i)
    OBVIOUS
  <2>1. o \in 0..n
    BY <1>1, <1>4
  <2> QED
    BY <1>3, <2>1
<1>9. OutOfRange(r, x, r.end) <=> n < o
  BY <1>5, <1>6 DEF OutOfRange
<1> QED
  BY <1>1, <1>7, <1>8, <1>9 DEF r

\* The inductive invariant: every ring stands somewhere and holds some items.
Stands(r)  == \E b, s, c : Legal(b, s, c) /\ Len(s) <= MaxItems /\ r = RingOf(b, s, c)
RingsStand == rq = [q \in RQueues |-> rq[q]] /\ \A q \in RQueues : Stands(rq[q])

(* A step that replaces one ring by one that stands.                       *)
LEMMA RingsBecome ==
    ASSUME RingsStand, NEW q \in RQueues, NEW r, Stands(r), Becomes(q, r)
    PROVE  RingsStand'
<1>1. rq' = [p \in RQueues |-> IF p = q THEN r ELSE rq[p]]
  BY DEF Becomes, RingsStand
<1>2. \A p \in RQueues : rq'[p] = IF p = q THEN r ELSE rq[p]
  BY <1>1
<1>3. \A p \in RQueues : Stands(rq'[p])
  BY <1>2 DEF RingsStand
<1> QED
  BY <1>1, <1>2, <1>3 DEF RingsStand

(* Rings that hold few enough items stand.                                 *)
LEMMA StandsIf ==
    ASSUME NEW r, NEW s, Rings(r, s), Len(s) <= MaxItems
    PROVE  Stands(r)
BY DEF Rings, Stands

(* And so do those that an erase or an insert returns.                     *)
LEMMA TurnsStand ==
    ASSUME NEW o, NEW t, NEW i, Turns(o, t, i), Len(t) <= MaxItems
    PROVE  Stands(o.ring)
BY DEF Turns, Stands

(* The arguments are short sequences of items.                             *)
LEMMA ArgumentsAre ==
    ASSUME NEW t \in Arguments
    PROVE  t \in Seq(RItems) /\ Len(t) \in Nat /\ Len(t) <= MaxArgs
<1>1. PICK n \in 0..MaxArgs : t \in [1..n -> RItems]
  BY DEF Arguments
<1>2. n \in Nat /\ MaxArgs \in Nat /\ n <= MaxArgs
  BY RingSizes
<1>3. t \in Seq(RItems) /\ Len(t) = n
  BY <1>1, <1>2
<1> QED
  BY <1>2, <1>3

(* Every operation leaves rings that stand.                                *)
LEMMA RingStepsStand == RingsStand /\ [RueueNext]_rq => RingsStand'
<1> SUFFICES ASSUME RingsStand, [RueueNext]_rq PROVE RingsStand'
  OBVIOUS
<1>1. CASE UNCHANGED rq
  BY <1>1 DEF RingsStand, Stands
<1>2. ASSUME NEW q \in RQueues, NEW r, Becomes(q, r), Stands(r) PROVE RingsStand'
  BY <1>2, RingsBecome
<1>3. ASSUME NEW q \in RQueues,
             \/ RPush(q) \/ RPop(q) \/ RErase(q) \/ RInsert(q)
             \/ RAssign(q) \/ RClear(q) \/ RReserve(q)
      PROVE  RingsStand'
  <2> DEFINE R == rq[q]
  <2>1. PICK b, s, c : Legal(b, s, c) /\ Len(s) <= MaxItems /\ R = RingOf(b, s, c)
    BY DEF RingsStand, Stands
  <2> DEFINE n == Len(s)
  <2>2. RSize(R) = n /\ n \in Nat /\ s \in Seq(RItems) /\ n <= MaxItems
    BY <2>1, RingParts
  <2>3. MaxItems \in Nat /\ MaxArgs \in Nat /\ MaxArgs > 0
    BY RingSizes
  <2> HIDE DEF R
  <2>4. CASE RPush(q)
    <3>1. PICK v \in RItems : Becomes(q, PushBack(R, v)) \/ Becomes(q, PushFront(R, v))
      BY <2>4 DEF RPush, R
    <3>2. n < MaxItems /\ n < Most
      BY <2>2, <2>3, <2>4 DEF RPush, R, Most
    <3>3. Stands(PushBack(R, v))
      <4>1. Rings(PushBack(R, v), Append(s, v))
        BY <2>1, <3>2, PushBackIs
      <4>2. Len(Append(s, v)) <= MaxItems
        BY <2>2, <2>3, <3>2
      <4> QED
        BY <4>1, <4>2, StandsIf
    <3>4. Stands(PushFront(R, v))
      <4>1. Rings(PushFront(R, v), <<v>> \o s)
        BY <2>1, <3>2, PushFrontIs
      <4>2. Len(<<v>> \o s) <= MaxItems
        BY <2>2, <2>3, <3>2
      <4> QED
        BY <4>1, <4>2, StandsIf
    <3> QED
      BY <1>2, <3>1, <3>3, <3>4
  <2>5. CASE RPop(q)
    <3>1. Becomes(q, PopBack(R)) \/ Becomes(q, PopFront(R))
      BY <2>5 DEF RPop, R
    <3>2. Stands(PopBack(R))
      <4>1. Rings(PopBack(R), SubSeq(s, 1, n - 1))
        BY <2>1, PopBackIs
      <4>2. Len(SubSeq(s, 1, n - 1)) <= MaxItems
        BY <2>2, <2>3
      <4> QED
        BY <4>1, <4>2, StandsIf
    <3>3. Stands(PopFront(R))
      <4>1. Rings(PopFront(R), SubSeq(s, 2, n))
        BY <2>1, PopFrontIs
      <4>2. Len(SubSeq(s, 2, n)) <= MaxItems
        BY <2>2, <2>3
      <4> QED
        BY <4>1, <4>2, StandsIf
    <3> QED
      BY <1>2, <3>1, <3>2, <3>3
  <2>6. CASE RErase(q)
    <3>1. CASE \E i \in 0..n - 1 : Becomes(q, EraseAt(R, i).ring)
      <4>1. PICK i \in 0..n - 1 : Becomes(q, EraseAt(R, i).ring)
        BY <3>1
      <4> DEFINE y == Splice(s, i, i + 1, <<>>)
                 at == IF 2 * i < n THEN i - 1 ELSE i
      <4>2. Turns(EraseAt(R, i), y, at)
        BY <2>1, EraseAtIs
      <4>3. Len(y) = n - ((i + 1) - i)
        <5>1. i \in 0..n /\ i + 1 \in i..n
          BY <2>2
        <5> HIDE DEF n
        <5> QED
          BY <2>2, <5>1, ErasedIs DEF n
      <4> HIDE DEF y, at
      <4>4. Len(y) <= MaxItems
        BY <2>2, <2>3, <4>3
      <4> QED
        BY <1>2, <4>1, <4>2, <4>4, TurnsStand
    <3>2. CASE \E i \in 0..n : \E j \in i..n : Becomes(q, EraseRange(R, i, j).ring)
      <4>0. PICK i \in 0..n : \E j \in i..n : Becomes(q, EraseRange(R, i, j).ring)
        BY <3>2
      <4>1. PICK j \in i..n : Becomes(q, EraseRange(R, i, j).ring)
        BY <4>0
      <4> DEFINE y == Splice(s, i, j, <<>>)
      <4>2. Turns(EraseRange(R, i, j), y, i)
        BY <2>1, EraseRangeIs
      <4>3. Len(y) = n - (j - i)
        BY <2>2, ErasedIs
      <4> HIDE DEF y
      <4>4. Len(y) <= MaxItems
        BY <2>2, <2>3, <4>3
      <4> QED
        BY <1>2, <4>1, <4>2, <4>4, TurnsStand
    <3>3. \/ \E i \in 0..n - 1 : Becomes(q, EraseAt(R, i).ring)
          \/ \E i \in 0..n : \E j \in i..n : Becomes(q, EraseRange(R, i, j).ring)
      <4>1. PICK i \in 0..n : \/ i < n /\ Becomes(q, EraseAt(R, i).ring)
                             \/ \E j \in i..n : Becomes(q, EraseRange(R, i, j).ring)
        BY <2>2, <2>6 DEF RErase, R, Offsets
      <4>2. i < n => i \in 0..n - 1
        BY <2>2
      <4> QED
        BY <4>1, <4>2
    <3> QED
      BY <3>1, <3>2, <3>3
  <2>7. CASE RInsert(q)
    <3>1. PICK i \in 0..n, t \in Arguments :
             n + Len(t) <= MaxItems /\ Becomes(q, InsertN(R, i, t).ring)
      BY <2>2, <2>7 DEF RInsert, R, Offsets
    <3> DEFINE y == Splice(s, i, i, t)
    <3>2. t \in Seq(RItems) /\ Len(t) \in Nat
      BY ArgumentsAre
    <3>3. Turns(InsertN(R, i, t), y, i)
      <4>1. n + Len(t) <= Most
        BY <2>2, <2>3, <3>1, <3>2 DEF Most
      <4> QED
        BY <2>1, <3>2, <4>1, InsertNIs
    <3>4. Len(y) = n - (i - i) + Len(t)
      <4>1. i \in i..n
        BY <2>2
      <4> QED
        BY <2>2, <3>2, <4>1, SpliceIs
    <3> HIDE DEF y
    <3>5. Len(y) <= MaxItems
      BY <2>2, <2>3, <3>1, <3>2, <3>4
    <3> QED
      BY <1>2, <3>1, <3>3, <3>5, TurnsStand
  <2>8. CASE RAssign(q)
    <3>1. PICK t \in Arguments :
             Len(t) <= MaxItems /\ (Becomes(q, Assign(R, t)) \/ Becomes(q, Constructed(t)))
      BY <2>8 DEF RAssign, R
    <3>2. t \in Seq(RItems) /\ Len(t) <= Most
      BY <2>3, <3>1, ArgumentsAre DEF Most
    <3>3. Rings(Assign(R, t), t) /\ Rings(Constructed(t), t)
      BY <2>1, <3>2, AssignIs, ConstructedIs
    <3> QED
      BY <1>2, <3>1, <3>3, StandsIf
  <2>9. CASE RClear(q)
    <3>1. Destroy(R) = RingOf(0, <<>>, c) /\ Legal(0, <<>>, c)
      BY <2>1, DestroyIs
    <3>2. Len(<<>>) <= MaxItems
      BY <2>3, EmptySeq
    <3> QED
      BY <1>2, <2>9, <3>1, <3>2 DEF RClear, R, Stands
  <2>10. CASE RReserve(q)
    <3>1. PICK m \in 0..MaxItems : Becomes(q, Reserve(R, m))
      BY <2>10 DEF RReserve, R
    <3>2. m \in 0..MaxItems + MaxArgs
      BY <2>3
    <3>3. PICK a, k : Legal(a, s, k) /\ Reserve(R, m) = RingOf(a, s, k)
      BY <2>1, <3>2, ReallocIs
    <3> QED
      BY <1>2, <2>2, <3>1, <3>3 DEF Stands
  <2> QED
    BY <1>3, <2>4, <2>5, <2>6, <2>7, <2>8, <2>9, <2>10
<1>4. ASSUME NEW q \in RQueues, NEW p \in RQueues, RCopy(q, p) \/ RMove(q, p) \/ RSwap(q, p)
      PROVE  RingsStand'
  <2>1. CASE RCopy(q, p)
    <3> DEFINE R == rq[p]
    <3>1. PICK b, s, c : Legal(b, s, c) /\ Len(s) <= MaxItems /\ R = RingOf(b, s, c)
      BY DEF RingsStand, Stands
    <3> HIDE DEF R
    <3>2. Len(s) <= Most
      <4>1. Len(s) \in Nat
        BY <3>1, RingParts
      <4> QED
        BY <3>1, <4>1, RingSizes DEF Most
    <3>3. Rings(CopyOf(R), s)
      BY <3>1, <3>2, CopyOfIs
    <3> QED
      BY <1>2, <2>1, <3>1, <3>3, StandsIf DEF RCopy, R
  <2>2. CASE RMove(q, p)
    <3>1. Stands(NullRing)
      <4>1. Len(<<>>) <= MaxItems
        BY RingSizes, EmptySeq
      <4> QED
        BY <4>1, NullRingIs DEF Stands
    <3>2. rq' = [x \in RQueues |-> IF x = p THEN NullRing ELSE IF x = q THEN rq[p] ELSE rq[x]]
      BY <2>2 DEF RMove, RingsStand
    <3>3. \A x \in RQueues : rq'[x] \in {NullRing, rq[p], rq[x]}
      BY <3>2
    <3>4. \A x \in RQueues : Stands(rq'[x])
      BY <3>1, <3>3 DEF RingsStand
    <3>5. rq' = [x \in RQueues |-> rq'[x]]
      BY <3>2
    <3> QED
      BY <3>4, <3>5 DEF RingsStand
  <2>3. CASE RSwap(q, p)
    <3>1. rq' = [x \in RQueues |-> IF x = p THEN rq[q] ELSE IF x = q THEN rq[p] ELSE rq[x]]
      BY <2>3 DEF RSwap, RingsStand
    <3>2. \A x \in RQueues : rq'[x] \in {rq[q], rq[p], rq[x]}
      BY <3>1
    <3>3. \A x \in RQueues : Stands(rq'[x])
      BY <3>2 DEF RingsStand
    <3>4. rq' = [x \in RQueues |-> rq'[x]]
      BY <3>1
    <3> QED
      BY <3>3, <3>4 DEF RingsStand
  <2> QED
    BY <1>4, <2>1, <2>2, <2>3
<1> QED
  BY <1>1, <1>3, <1>4 DEF RueueNext

(* Every queue is a null ring at first.                                    *)
LEMMA RingsStandFirst == RueueInit => RingsStand
<1> SUFFICES ASSUME RueueInit PROVE RingsStand
  OBVIOUS
<1>1. Stands(NullRing)
  <2>1. Len(<<>>) <= MaxItems
    BY RingSizes, EmptySeq
  <2> QED
    BY <2>1, NullRingIs DEF Stands
<1> QED
  BY <1>1 DEF RueueInit, RingsStand

(* Wherever the rings stand, the cells are constructed as they should be.  *)
LEMMA StandingCells == RingsStand => CellsConstructed
<1> SUFFICES ASSUME RingsStand PROVE CellsConstructed
  OBVIOUS
<1> SUFFICES ASSUME NEW q \in RQueues
             PROVE  LET r == rq[q]
                        live == {Mask(r, Wrap(r.beg + k)) : k \in 0..RSize(r) - 1}
                    IN  /\ RSize(r) <= r.cap
                        /\ \A x \in 0..r.cap - 1 : (r.data[x] # Raw) <=> x \in live
  BY DEF CellsConstructed
<1> DEFINE R == rq[q]
<1>1. PICK b, s, c : Legal(b, s, c) /\ R = RingOf(b, s, c)
  BY DEF RingsStand, Stands
<1> HIDE DEF R
<1>2. RSize(R) <= R.cap /\ R.cap = c
  BY <1>1, RingParts
<1>3. \A x \in 0..c - 1 :
         (R.data[x] # Raw) <=> x \in {Mask(R, Wrap(R.beg + k)) : k \in 0..RSize(R) - 1}
  BY <1>1, LiveCells
<1> QED
  BY <1>2, <1>3 DEF R

\* What OperationsMatchDeque says of the ring r.
MatchesDeque(r) ==
    LET s == Items(r)
        n == Len(s)
    IN  /\ Items(PopBack(r))  = SubSeq(s, 1, n - 1)
        /\ Items(PopFront(r)) = SubSeq(s, 2, n)
        /\ Items(CopyOf(r)) = s /\ Items(Destroy(r)) = <<>>
        /\ \A v \in RItems : /\ Items(PushBack(r, v))  = Append(s, v)
                             /\ Items(PushFront(r, v)) = <<v>> \o s
        /\ \A t \in Arguments :
              /\ Items(Assign(r, t)) = t
              /\ \A i \in 0..n : Items(InsertN(r, i, t).ring) = Splice(s, i, i, t)
        /\ \A i \in 0..n, j \in 0..n :
              i <= j => Items(EraseRange(r, i, j).ring) = Splice(s, i, j, <<>>)
        /\ \A i \in 0..n - 1 : Items(EraseAt(r, i).ring) = Splice(s, i, i + 1, <<>>)

(* The items of a ring are those it holds.                                 *)
LEMMA ItemsIf ==
    ASSUME NEW r, NEW s, Rings(r, s)
    PROVE  Items(r) = s
BY ItemsOf DEF Rings

(* So are those of the ring that an erase or an insert returns.            *)
LEMMA ItemsTurned ==
    ASSUME NEW o, NEW t, NEW i, Turns(o, t, i)
    PROVE  Items(o.ring) = t /\ o.it = Wrap(o.ring.beg + i)
<1>1. PICK b, c : Legal(b, t, c) /\ o.ring = RingOf(b, t, c) /\ o.it = Wrap(b + i)
  BY DEF Turns
<1>2. o.ring.beg = b
  BY <1>1, RingParts
<1> QED
  BY <1>1, <1>2, ItemsOf

(* Every operation, on any ring and any legal argument, is the one of a    *)
(* double-ended queue.                                                     *)
LEMMA StandingOperations ==
    ASSUME NEW r, Stands(r)
    PROVE  MatchesDeque(r)
<1>1. PICK b, s, c : Legal(b, s, c) /\ Len(s) <= MaxItems /\ r = RingOf(b, s, c)
  BY DEF Stands
<1> DEFINE n == Len(s)
<1>2. Items(r) = s /\ n \in Nat /\ s \in Seq(RItems) /\ n <= MaxItems
  BY <1>1, RingParts
<1>3. MaxItems \in Nat /\ MaxArgs \in Nat /\ MaxArgs > 0
  BY RingSizes
<1>4. n < Most /\ n <= Most
  BY <1>2, <1>3 DEF Most
<1>5. Items(PopBack(r)) = SubSeq(s, 1, n - 1) /\ Items(PopFront(r)) = SubSeq(s, 2, n)
  BY <1>1, PopBackIs, PopFrontIs, ItemsIf
<1>6. Items(CopyOf(r)) = s
  BY <1>1, <1>4, CopyOfIs, ItemsIf
<1>7. Items(Destroy(r)) = <<>>
  BY <1>1, DestroyIs, ItemsOf
<1>8. ASSUME NEW v \in RItems
      PROVE  Items(PushBack(r, v)) = Append(s, v) /\ Items(PushFront(r, v)) = <<v>> \o s
  BY <1>1, <1>4, PushBackIs, PushFrontIs, ItemsIf
<1>9. ASSUME NEW t \in Arguments PROVE Items(Assign(r, t)) = t
  <2>1. t \in Seq(RItems) /\ Len(t) <= Most
    BY <1>3, ArgumentsAre DEF Most
  <2> QED
    BY <1>1, <2>1, AssignIs, ItemsIf
<1>10. ASSUME NEW t \in Arguments, NEW i \in 0..n
       PROVE  Items(InsertN(r, i, t).ring) = Splice(s, i, i, t)
  <2>1. t \in Seq(RItems) /\ n + Len(t) <= Most
    BY <1>2, <1>3, ArgumentsAre DEF Most
  <2>2. Turns(InsertN(r, i, t), Splice(s, i, i, t), i)
    BY <1>1, <2>1, InsertNIs
  <2> QED
    BY <2>2, ItemsTurned
<1>11. ASSUME NEW i \in 0..n, NEW j \in 0..n, i <= j
       PROVE  Items(EraseRange(r, i, j).ring) = Splice(s, i, j, <<>>)
  <2>1. j \in i..n
    BY <1>2, <1>11
  <2>2. Turns(EraseRange(r, i, j), Splice(s, i, j, <<>>), i)
    BY <1>1, <2>1, EraseRangeIs
  <2> QED
    BY <2>2, ItemsTurned
<1>12. ASSUME NEW i \in 0..n - 1
       PROVE  Items(EraseAt(r, i).ring) = Splice(s, i, i + 1, <<>>)
  <2> DEFINE at == IF 2 * i < n THEN i - 1 ELSE i
  <2>1. Turns(EraseAt(r, i), Splice(s, i, i + 1, <<>>), at)
    BY <1>1, EraseAtIs
  <2> HIDE DEF at
  <2> QED
    BY <2>1, ItemsTurned
<1> HIDE DEF n
<1> QED
  BY <1>2, <1>5, <1>6, <1>7, <1>8, <1>9, <1>10, <1>11, <1>12 DEF MatchesDeque, n

(* So every operation matches on every reachable ring.                     *)
LEMMA OperationsMatch == RingsStand => OperationsMatchDeque
<1> SUFFICES ASSUME RingsStand PROVE \A q \in RQueues : MatchesDeque(rq[q])
  BY DEF OperationsMatchDeque, MatchesDeque
<1> QED
  BY StandingOperations DEF RingsStand

(* And the iterators stand where the property says.                        *)
LEMMA StandingIterators == RingsStand => IteratorsMatchDeque
<1> SUFFICES ASSUME RingsStand, NEW q \in RQueues
             PROVE  LET r == rq[q]
                        n == RSize(r)
                        StandsAt(o, i) == o.it = Wrap(o.ring.beg + i)
                    IN  /\ \A i \in 0..n, t \in Arguments : StandsAt(InsertN(r, i, t), i)
                        /\ \A i \in 0..n, j \in 0..n : i <= j => StandsAt(EraseRange(r, i, j), i)
                        /\ \A i \in 0..n - 1 : StandsAt(EraseAt(r, i), IF 2 * i < n THEN i - 1 ELSE i)
                        /\ \A x \in 0..Width - 1 :
                              OutOfRange(r, x, r.end) <=> x \notin {Wrap(r.beg + i) : i \in 0..n}
  BY DEF IteratorsMatchDeque
<1> DEFINE r == rq[q]
           n == RSize(r)
           StandsAt(o, i) == o.it = Wrap(o.ring.beg + i)
<1>1. PICK b, s, c : Legal(b, s, c) /\ Len(s) <= MaxItems /\ r = RingOf(b, s, c)
  BY DEF RingsStand, Stands
<1> HIDE DEF r
<1>2. n = Len(s) /\ n \in Nat /\ s \in Seq(RItems) /\ n <= MaxItems
  BY <1>1, RingParts
<1>3. MaxItems \in Nat /\ MaxArgs \in Nat
  BY RingSizes
<1> HIDE DEF n
<1>4. ASSUME NEW i \in 0..n, NEW t \in Arguments PROVE StandsAt(InsertN(r, i, t), i)
  <2>1. t \in Seq(RItems) /\ Len(s) + Len(t) <= Most
    BY <1>2, <1>3, ArgumentsAre DEF Most
  <2>2. Turns(InsertN(r, i, t), Splice(s, i, i, t), i)
    BY <1>1, <1>2, <2>1, InsertNIs
  <2> QED
    BY <2>2, ItemsTurned
<1>5. ASSUME NEW i \in 0..n, NEW j \in 0..n, i <= j PROVE StandsAt(EraseRange(r, i, j), i)
  <2>1. j \in i..n
    BY <1>2, <1>5
  <2>2. Turns(EraseRange(r, i, j), Splice(s, i, j, <<>>), i)
    BY <1>1, <1>2, <2>1, EraseRangeIs
  <2> QED
    BY <2>2, ItemsTurned
<1>6. ASSUME NEW i \in 0..n - 1 PROVE StandsAt(EraseAt(r, i), IF 2 * i < n THEN i - 1 ELSE i)
  <2> DEFINE at == IF 2 * i < n THEN i - 1 ELSE i
  <2>1. Turns(EraseAt(r, i), Splice(s, i, i + 1, <<>>), at)
    BY <1>1, <1>2, EraseAtIs
  <2> HIDE DEF at
  <2>2. StandsAt(EraseAt(r, i), at)
    BY <2>1, ItemsTurned
  <2> QED
    BY <2>2 DEF at
<1>7. ASSUME NEW x \in 0..Width - 1
      PROVE  OutOfRange(r, x, r.end) <=> x \notin {Wrap(r.beg + i) : i \in 0..RSize(r)}
  BY <1>1, InRange
<1> QED
  BY <1>4, <1>5, <1>6, <1>7 DEF r, n

(* The ring queue is a double-ended queue (RueueIsADeque): no cell leaks   *)
(* an object or hands out raw memory, and every operation with every legal *)
(* argument does to the items, and returns as iterator, what the property  *)
(* says, wherever the counters stand.                                      *)
THEOREM RueueServesBothEnds == RueueSpec => []RueueIsADeque
<1>1. RueueInit => RingsStand
  BY RingsStandFirst
<1>2. RingsStand /\ [RueueNext]_rq => RingsStand'
  BY RingStepsStand
<1>3. RingsStand => RueueIsADeque
  BY StandingCells, OperationsMatch, StandingIterators DEF RueueIsADeque
<1> QED
  BY <1>1, <1>2, <1>3, PTL DEF RueueSpec
=============================================================================
