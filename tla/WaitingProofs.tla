--------------------------- MODULE WaitingProofs ----------------------------
(***************************************************************************)
(* The safety of the two structures in which fibers wait for each other.   *)
(*                                                                         *)
(* shared_mutex, for every finite set of fibers.                           *)
(*                                                                         *)
(* The pipe, for every buffer size and every set of items, whether or not  *)
(* an exception shows in the future of a promise<>.                        *)
(***************************************************************************)
EXTENDS Pipe, SharedMutex, FiniteSetTheorems, SequenceTheorems, TLAPS

(* The inductive invariant.  Mutual exclusion needs the counters to be     *)
(* exact; the counters stay exact across a wake-up because the queue holds *)
(* distinct fibers, none of them inside.                                   *)
IInv ==
  /\ TypeOK
  /\ QueueConsistent
  /\ HoldersCounted
  /\ MutualExclusion
  /\ FrontIsBlocked

(* The fibers of the first g waiters.                                      *)
Woken(g) == {waiters[i].fiber : i \in 1..g}

(* The first g waiters are g different fibers.                             *)
LEMMA WokenCardinality ==
  ASSUME TypeOK, QueueConsistent, NEW g \in 0..Len(waiters)
  PROVE  /\ IsFiniteSet(Woken(g))
         /\ Cardinality(Woken(g)) = g
<1> DEFINE F == [i \in 1..g |-> waiters[i].fiber]
<1>1. Len(waiters) \in Nat /\ g \in Nat /\ 1..g \subseteq 1..Len(waiters)
  BY DEF TypeOK
<1>2. \A i, j \in 1..g : F[i] = F[j] => i = j
  BY <1>1 DEF QueueConsistent
<1>3. F \in Bijection(1..g, Woken(g))
  BY <1>2, Zenon DEF Bijection, Injection, Surjection, IsInjective, Woken
<1>4. ExistsBijection(1..g, Woken(g))
  BY <1>3 DEF ExistsBijection
<1>5. QED
  BY <1>1, <1>4, FS_NatBijection, FS_CountingElements

(* SubSeq drops the granted waiters and keeps the others in order.         *)
LEMMA RestOfQueue ==
  ASSUME TypeOK, NEW g \in 0..Len(waiters),
         waiters' = SubSeq(waiters, g + 1, Len(waiters))
  PROVE  /\ waiters' \in Seq([fiber : Fibers, for_write : BOOLEAN])
         /\ Len(waiters') = Len(waiters) - g
         /\ \A i \in 1..Len(waiters') : /\ i + g \in 1..Len(waiters)
                                        /\ waiters'[i] = waiters[i + g]
<1> DEFINE W == [fiber : Fibers, for_write : BOOLEAN]
<1>1. waiters \in Seq(W) /\ Len(waiters) \in Nat /\ g \in Nat /\ g <= Len(waiters)
  BY DEF TypeOK
<1>2. \A i \in g + 1..Len(waiters) : waiters[i] \in W
  <2>1. waiters \in [1..Len(waiters) -> W]
    BY <1>1, LenProperties
  <2>2. QED
    BY <1>1, <2>1
<1>3. /\ waiters' \in Seq(W)
      /\ Len(waiters') = IF g + 1 <= Len(waiters) THEN Len(waiters) - (g + 1) + 1 ELSE 0
      /\ \A i \in 1..Len(waiters) - (g + 1) + 1 : waiters'[i] = waiters[g + 1 + i - 1]
  BY <1>1, <1>2, SubSeqProperties
<1>4. Len(waiters') = Len(waiters) - g
  BY <1>1, <1>3
<1>5. QED
  BY <1>1, <1>3, <1>4

(* What a wake-up does to the queue and to the holders.                    *)
LEMMA GrantEffect ==
  ASSUME IInv, NEW f \in Fibers, Holding(f), NEW g \in 0..Len(waiters),
         Grant(f, g), UNCHANGED write
  PROVE  /\ waiters' \in Seq([fiber : Fibers, for_write : BOOLEAN])
         /\ pc' \in [Fibers -> Places]
         /\ QueueConsistent'
         /\ Woken(g) \subseteq Fibers
         /\ \A h \in Woken(g) : ~Holding(h)
         /\ \A h \in Fibers : Holding(h)' <=> (h # f /\ Holding(h)) \/ h \in Woken(g)
<1>1. TypeOK /\ QueueConsistent
  BY DEF IInv
<1>2. /\ waiters' \in Seq([fiber : Fibers, for_write : BOOLEAN])
      /\ Len(waiters') = Len(waiters) - g
      /\ \A i \in 1..Len(waiters') : /\ i + g \in 1..Len(waiters)
                                     /\ waiters'[i] = waiters[i + g]
  BY <1>1, RestOfQueue DEF Grant
<1>3. Len(waiters) \in Nat /\ g \in Nat /\ g <= Len(waiters)
  BY <1>1 DEF TypeOK
<1>4. \A i \in 1..Len(waiters) : waiters[i].fiber \in Fibers
  <2>1. waiters \in [1..Len(waiters) -> [fiber : Fibers, for_write : BOOLEAN]]
    BY <1>1, LenProperties DEF TypeOK
  <2>2. QED
    BY <2>1
<1>5. /\ Woken(g) \subseteq Fibers
      /\ \A h \in Woken(g) : pc[h] = "waiting"
  BY <1>1, <1>3, <1>4 DEF Woken, QueueConsistent
<1>6. pc' = [h \in Fibers |-> IF h \in Woken(g) THEN "granted"
                              ELSE IF h = f THEN "outside" ELSE pc[h]]
  BY DEF Grant, Woken
<1>7. pc' \in [Fibers -> Places]
  BY <1>1, <1>6 DEF TypeOK, Places
<1>8. \A h \in Fibers : Holding(h)' <=> (h # f /\ Holding(h)) \/ h \in Woken(g)
  BY <1>6 DEF Holding
<1>9. QueueConsistent'
  <2>1. ASSUME NEW i \in 1..Len(waiters')
        PROVE  /\ pc'[waiters'[i].fiber] = "waiting"
               /\ waiters'[i].for_write = write'[waiters'[i].fiber]
    <3>1. i + g \in 1..Len(waiters) /\ waiters'[i] = waiters[i + g]
      BY <1>2
    <3>2. waiters[i + g].fiber \notin Woken(g)
      <4>1. \A j \in 1..g : waiters[j].fiber # waiters[i + g].fiber
        BY <1>1, <1>2, <1>3, <3>1 DEF QueueConsistent
      <4>2. QED
        BY <4>1 DEF Woken
    <3>3. waiters[i + g].fiber # f
      BY <1>1, <3>1 DEF QueueConsistent, Holding
    <3>4. QED
      BY <1>1, <1>4, <1>6, <3>1, <3>2, <3>3 DEF QueueConsistent
  <2>2. ASSUME NEW i \in 1..Len(waiters'), NEW j \in 1..Len(waiters'),
               waiters'[i].fiber = waiters'[j].fiber
        PROVE  i = j
    <3>1. i + g = j + g
      BY <1>1, <1>2, <2>2 DEF QueueConsistent
    <3>2. QED
      BY <1>2, <1>3, <3>1
  <2>3. ASSUME NEW h \in Fibers, pc'[h] = "waiting"
        PROVE  \E i \in 1..Len(waiters') : waiters'[i].fiber = h
    <3>1. h \notin Woken(g) /\ pc[h] = "waiting"
      BY <1>6, <2>3
    <3>2. PICK k \in 1..Len(waiters) : waiters[k].fiber = h
      BY <1>1, <3>1 DEF QueueConsistent
    <3>3. k \notin 1..g
      BY <3>1, <3>2 DEF Woken
    <3>4. k - g \in 1..Len(waiters') /\ (k - g) + g = k
      BY <1>2, <1>3, <3>3
    <3>5. QED
      BY <1>2, <3>2, <3>4
  <2>4. QED
    BY <2>1, <2>2, <2>3 DEF QueueConsistent
<1>10. QED
  BY <1>2, <1>5, <1>7, <1>8, <1>9 DEF Holding

(* A wake-up keeps the invariant: r counts the readers that stay, and no   *)
(* exclusive holder stays.                                                 *)
LEMMA WakeKeepsInvariant ==
  ASSUME IInv, NEW f \in Fibers, Holding(f), NEW r,
         r = Cardinality(SharedHolders \ {f}),
         ExclusiveHolders \subseteq {f},
         Wake(f, r), UNCHANGED write
  PROVE  IInv'
<1> DEFINE Stay == SharedHolders \ {f}
<1>1. TypeOK /\ QueueConsistent /\ Len(waiters) \in Nat
  BY DEF IInv, TypeOK
<1>2. IsFiniteSet(Stay) /\ r \in Nat
  <2>1. Stay \in SUBSET Fibers
    BY DEF SharedHolders
  <2>2. QED
    BY <2>1, FibersAssumption, FS_Subset, FS_CardinalityType
<1>3. PICK n \in 0..Len(waiters) :
        /\ LeadingShared(n)
        /\ \/ /\ n < Len(waiters) /\ r + n = 0
              /\ Grant(f, 1) /\ readers' = r /\ writer' = TRUE
           \/ /\ n = Len(waiters) \/ r + n > 0
              /\ Grant(f, n) /\ readers' = r + n /\ writer' = FALSE
  BY DEF Wake
<1>4. CASE /\ n < Len(waiters) /\ r + n = 0
           /\ Grant(f, 1) /\ readers' = r /\ writer' = TRUE
  <2>1. n = 0 /\ r = 0 /\ 1 \in 0..Len(waiters) /\ 1 \in 1..Len(waiters)
    BY <1>1, <1>2, <1>4
  <2>2. Stay = {}
    BY <1>2, <2>1, FS_EmptySet
  <2>3. waiters[1].for_write
    BY <1>3, <1>4, <2>1 DEF LeadingShared
  <2> DEFINE w == waiters[1].fiber
  <2>4. w \in Fibers /\ write[w] /\ Woken(1) = {w}
    <3>1. Woken(1) = {w}
      BY DEF Woken
    <3>2. w \in Fibers
      BY <1>4, <2>1, <3>1, GrantEffect
    <3>3. QED
      BY <1>1, <2>1, <2>3, <3>1, <3>2 DEF QueueConsistent
  <2>5. /\ waiters' \in Seq([fiber : Fibers, for_write : BOOLEAN])
        /\ pc' \in [Fibers -> Places]
        /\ QueueConsistent'
        /\ \A h \in Fibers : Holding(h)' <=> (h # f /\ Holding(h)) \/ h = w
    BY <1>4, <2>1, <2>4, GrantEffect
  <2>6. \A h \in Fibers : Holding(h) => h = f
    BY <2>2 DEF SharedHolders, ExclusiveHolders
  <2>7. \A h \in Fibers : Holding(h)' <=> h = w
    BY <2>5, <2>6
  <2>8. SharedHolders' = {} /\ ExclusiveHolders' = {w}
    BY <2>4, <2>7 DEF SharedHolders, ExclusiveHolders
  <2>9. HoldersCounted'
    BY <1>4, <2>1, <2>8, FS_EmptySet DEF HoldersCounted
  <2>10. MutualExclusion'
    BY <2>7, <2>8 DEF MutualExclusion
  <2>11. TypeOK' /\ FrontIsBlocked'
    BY <1>1, <1>2, <1>4, <2>5 DEF TypeOK, FrontIsBlocked
  <2>12. QED
    BY <2>5, <2>9, <2>10, <2>11 DEF IInv
<1>5. CASE /\ n = Len(waiters) \/ r + n > 0
           /\ Grant(f, n) /\ readers' = r + n /\ writer' = FALSE
  <2>1. /\ waiters' \in Seq([fiber : Fibers, for_write : BOOLEAN])
        /\ pc' \in [Fibers -> Places]
        /\ QueueConsistent'
        /\ Woken(n) \subseteq Fibers
        /\ \A h \in Woken(n) : ~Holding(h)
        /\ \A h \in Fibers : Holding(h)' <=> (h # f /\ Holding(h)) \/ h \in Woken(n)
    BY <1>5, GrantEffect
  <2>2. \A h \in Woken(n) : ~write[h]
    <3>1. \A i \in 1..n : i \in 1..Len(waiters) /\ ~waiters[i].for_write
      BY <1>1, <1>3 DEF LeadingShared
    <3>2. QED
      BY <1>1, <3>1 DEF Woken, QueueConsistent
  <2>3. SharedHolders' = Stay \union Woken(n)
    BY <2>1, <2>2 DEF SharedHolders
  <2>4. ExclusiveHolders' = {}
    BY <2>1, <2>2 DEF ExclusiveHolders
  <2>5. IsFiniteSet(Woken(n)) /\ Cardinality(Woken(n)) = n
    BY <1>1, WokenCardinality
  <2>6. Stay \cap Woken(n) = {}
    BY <2>1 DEF SharedHolders
  <2>7. Cardinality(SharedHolders') = r + n
    <3>1. Cardinality(Stay \cap Woken(n)) = 0
      BY <2>6, FS_EmptySet
    <3>2. Cardinality(Stay \union Woken(n))
            = Cardinality(Stay) + Cardinality(Woken(n)) - Cardinality(Stay \cap Woken(n))
      BY <1>2, <2>5, FS_Union
    <3>3. QED
      BY <1>2, <2>3, <2>5, <3>1, <3>2
  <2>8. HoldersCounted' /\ MutualExclusion'
    BY <1>5, <2>4, <2>7 DEF HoldersCounted, MutualExclusion
  <2>9. TypeOK'
    <3>1. readers' \in Nat
      BY <1>1, <1>2, <1>5
    <3>2. writer' \in BOOLEAN
      BY <1>5, Zenon
    <3>3. write' \in [Fibers -> BOOLEAN]
      BY <1>1 DEF TypeOK
    <3>4. QED
      BY <2>1, <3>1, <3>2, <3>3 DEF TypeOK
  <2>10. FrontIsBlocked'
    <3>1. /\ Len(waiters') = Len(waiters) - n
          /\ \A i \in 1..Len(waiters') : waiters'[i] = waiters[i + n]
      BY <1>1, <1>5, RestOfQueue DEF Grant
    <3>2. CASE n = Len(waiters)
      BY <2>1, <3>1, <3>2, EmptySeq DEF FrontIsBlocked
    <3>3. CASE n < Len(waiters)
      <4>1. waiters'[1] = waiters[n + 1] /\ waiters[n + 1].for_write
        BY <1>1, <1>3, <3>1, <3>3 DEF LeadingShared
      <4>2. readers' > 0
        BY <1>1, <1>5, <3>3
      <4>3. QED
        BY <4>1, <4>2 DEF FrontIsBlocked
    <3>4. QED
      BY <1>1, <3>2, <3>3
  <2>11. QED
    BY <2>1, <2>8, <2>9, <2>10 DEF IInv
<1>6. QED
  BY <1>3, <1>4, <1>5

(* A fiber that does not hold the mutex queues.                            *)
LEMMA EnqueueKeepsInvariant ==
  ASSUME IInv, NEW f \in Fibers, pc[f] = "outside", NEW forWrite \in BOOLEAN,
         write' = [write EXCEPT ![f] = forWrite],
         waiters = <<>> => writer \/ (forWrite /\ readers > 0),
         Enqueue(f, forWrite)
  PROVE  IInv'
<1> DEFINE W == [fiber : Fibers, for_write : BOOLEAN]
           e == [fiber |-> f, for_write |-> forWrite]
<1>1. TypeOK /\ QueueConsistent /\ waiters \in Seq(W) /\ Len(waiters) \in Nat
  BY DEF IInv, TypeOK
<1>2. waiters \in [1..Len(waiters) -> W]
  BY <1>1, LenProperties
<1>3. /\ waiters' \in Seq(W) /\ waiters' # <<>>
      /\ Len(waiters') = Len(waiters) + 1
      /\ \A i \in 1..Len(waiters) : waiters'[i] = waiters[i]
      /\ waiters'[Len(waiters) + 1] = e
  BY <1>1, AppendProperties DEF Enqueue
<1>4. /\ pc' = [pc EXCEPT ![f] = "waiting"]
      /\ UNCHANGED <<readers, writer>>
  BY DEF Enqueue
<1>5. \A h \in Fibers : Holding(h)' <=> Holding(h)
  BY <1>1, <1>4 DEF Holding, TypeOK
<1>6. TypeOK'
  BY <1>1, <1>3, <1>4 DEF TypeOK, Places
<1>7. SharedHolders' = SharedHolders /\ ExclusiveHolders' = ExclusiveHolders
  BY <1>1, <1>5 DEF SharedHolders, ExclusiveHolders, Holding, TypeOK
<1>8. HoldersCounted' /\ MutualExclusion'
  BY <1>4, <1>5, <1>7 DEF IInv, HoldersCounted, MutualExclusion, ExclusiveHolders
<1>9. QueueConsistent'
  <2>1. \A i \in 1..Len(waiters) : /\ waiters[i].fiber \in Fibers
                                  /\ waiters[i].fiber # f
    BY <1>1, <1>2 DEF QueueConsistent
  <2>2. ASSUME NEW i \in 1..Len(waiters')
        PROVE  /\ pc'[waiters'[i].fiber] = "waiting"
               /\ waiters'[i].for_write = write'[waiters'[i].fiber]
    <3>1. CASE i \in 1..Len(waiters)
      BY <1>1, <1>3, <1>4, <2>1, <3>1 DEF QueueConsistent, TypeOK
    <3>2. CASE i = Len(waiters) + 1
      BY <1>1, <1>3, <1>4, <3>2 DEF TypeOK
    <3>3. QED
      BY <1>1, <1>3, <3>1, <3>2
  <2>3. ASSUME NEW i \in 1..Len(waiters'), NEW j \in 1..Len(waiters'),
               waiters'[i].fiber = waiters'[j].fiber
        PROVE  i = j
    <3>1. \A k \in 1..Len(waiters') :
            k \in 1..Len(waiters) \/ (k = Len(waiters) + 1 /\ waiters'[k].fiber = f)
      BY <1>1, <1>3
    <3>2. QED
      BY <1>1, <1>3, <2>1, <2>3, <3>1 DEF QueueConsistent
  <2>4. ASSUME NEW h \in Fibers, pc'[h] = "waiting"
        PROVE  \E i \in 1..Len(waiters') : waiters'[i].fiber = h
    <3>1. CASE h = f
      <4>1. Len(waiters) + 1 \in 1..Len(waiters')
        BY <1>1, <1>3
      <4>2. QED
        BY <1>3, <3>1, <4>1
    <3>2. CASE h # f
      <4>1. PICK i \in 1..Len(waiters) : waiters[i].fiber = h
        BY <1>1, <1>4, <2>4, <3>2 DEF QueueConsistent, TypeOK
      <4>2. i \in 1..Len(waiters')
        BY <1>1, <1>3
      <4>3. QED
        BY <1>3, <4>1, <4>2
    <3>3. QED
      BY <3>1, <3>2
  <2>5. QED
    BY <2>2, <2>3, <2>4 DEF QueueConsistent
<1>10. FrontIsBlocked'
  <2>1. CASE waiters = <<>>
    <3>1. waiters'[1] = e
      BY <1>3, <2>1, EmptySeq
    <3>2. QED
      BY <1>4, <2>1, <3>1 DEF FrontIsBlocked
  <2>2. CASE waiters # <<>>
    <3>1. 1 \in 1..Len(waiters)
      BY <1>1, <2>2, EmptySeq
    <3>2. QED
      BY <1>3, <1>4, <2>2, <3>1 DEF IInv, FrontIsBlocked
  <2>3. QED
    BY <2>1, <2>2
<1>11. QED
  BY <1>6, <1>8, <1>9, <1>10 DEF IInv

(* A lock that is granted on the spot.                                     *)
LEMMA GrantAtOnceKeepsInvariant ==
  ASSUME IInv, NEW f \in Fibers, pc[f] = "outside", waiters = <<>>,
         NEW forWrite \in BOOLEAN,
         write' = [write EXCEPT ![f] = forWrite],
         pc' = [pc EXCEPT ![f] = "granted"], UNCHANGED waiters,
         ~writer,
         IF forWrite THEN readers = 0 /\ writer' = TRUE /\ UNCHANGED readers
                     ELSE readers' = readers + 1 /\ UNCHANGED writer
  PROVE  IInv'
<1>1. TypeOK /\ HoldersCounted /\ readers \in Nat
  BY DEF IInv, TypeOK
<1>2. \A h \in Fibers : /\ Holding(h)' <=> Holding(h) \/ h = f
                        /\ h # f => write'[h] = write[h]
  BY <1>1 DEF Holding, TypeOK
<1>3. ~Holding(f) /\ write'[f] = forWrite
  BY <1>1 DEF Holding, TypeOK
<1>4. ExclusiveHolders = {}
  BY <1>1 DEF HoldersCounted
<1>5. IsFiniteSet(SharedHolders) /\ f \notin SharedHolders
  <2>1. SharedHolders \in SUBSET Fibers
    BY DEF SharedHolders
  <2>2. QED
    BY <1>3, <2>1, FibersAssumption, FS_Subset DEF SharedHolders
<1>6. TypeOK'
  <2>1. readers' \in Nat
    BY <1>1
  <2>2. writer' \in BOOLEAN
    BY <1>1, Zenon DEF TypeOK
  <2>3. pc' \in [Fibers -> Places] /\ write' \in [Fibers -> BOOLEAN]
    BY <1>1 DEF TypeOK, Places
  <2>4. QED
    BY <1>1, <2>1, <2>2, <2>3 DEF TypeOK
<1>7. QueueConsistent' /\ FrontIsBlocked'
  BY EmptySeq DEF IInv, QueueConsistent, FrontIsBlocked
<1>8. HoldersCounted' /\ MutualExclusion'
  <2>1. CASE forWrite
    <3>1. SharedHolders = {}
      BY <1>1, <1>5, <2>1, FS_EmptySet DEF HoldersCounted
    <3>2. \A h \in Fibers : ~Holding(h)
      BY <1>4, <3>1 DEF SharedHolders, ExclusiveHolders
    <3>3. SharedHolders' = {} /\ ExclusiveHolders' = {f}
      BY <1>2, <1>3, <2>1, <3>2 DEF SharedHolders, ExclusiveHolders
    <3>4. QED
      BY <1>2, <2>1, <3>2, <3>3, FS_EmptySet DEF HoldersCounted, MutualExclusion
  <2>2. CASE ~forWrite
    <3>1. SharedHolders' = SharedHolders \union {f} /\ ExclusiveHolders' = {}
      BY <1>2, <1>3, <1>4, <2>2 DEF SharedHolders, ExclusiveHolders
    <3>2. Cardinality(SharedHolders') = readers + 1
      BY <1>1, <1>5, <3>1, FS_AddElement DEF HoldersCounted
    <3>3. QED
      BY <2>2, <3>1, <3>2 DEF HoldersCounted, MutualExclusion
  <2>3. QED
    BY <2>1, <2>2
<1>9. QED
  BY <1>6, <1>7, <1>8 DEF IInv

(* A continuation that runs changes nothing that the mutex keeps.          *)
LEMMA EnterKeepsInvariant ==
  ASSUME IInv, NEW f \in Fibers, Enter(f)
  PROVE  IInv'
<1>1. TypeOK
  BY DEF IInv
<1>2. /\ pc[f] = "granted" /\ pc' = [pc EXCEPT ![f] = "inside"]
      /\ UNCHANGED <<readers, writer, waiters, write>>
  BY DEF Enter
<1>3. \A h \in Fibers : /\ Holding(h)' <=> Holding(h)
                        /\ pc'[h] = "waiting" <=> pc[h] = "waiting"
  BY <1>1, <1>2 DEF Holding, TypeOK
<1>4. SharedHolders' = SharedHolders /\ ExclusiveHolders' = ExclusiveHolders
  BY <1>2, <1>3 DEF SharedHolders, ExclusiveHolders
<1>5. TypeOK'
  BY <1>1, <1>2 DEF TypeOK, Places
<1>6. HoldersCounted' /\ MutualExclusion' /\ FrontIsBlocked'
  BY <1>2, <1>3, <1>4
  DEF IInv, HoldersCounted, MutualExclusion, FrontIsBlocked, ExclusiveHolders
<1>7. QueueConsistent'
  <2>1. \A i \in 1..Len(waiters) : waiters[i].fiber \in Fibers
    <3>1. waiters \in [1..Len(waiters) -> [fiber : Fibers, for_write : BOOLEAN]]
      BY <1>1, LenProperties DEF TypeOK
    <3>2. QED
      BY <3>1
  <2>2. QED
    BY <1>2, <1>3, <2>1 DEF IInv, QueueConsistent
<1>8. QED
  BY <1>5, <1>6, <1>7 DEF IInv

(* At first nobody is in and nobody waits.                                 *)
LEMMA InitInvariant == Init => IInv
<1> SUFFICES ASSUME Init PROVE IInv
  OBVIOUS
<1>1. SharedHolders = {} /\ ExclusiveHolders = {}
  BY DEF Init, SharedHolders, ExclusiveHolders, Holding
<1>2. TypeOK /\ QueueConsistent /\ FrontIsBlocked
  <2>1. Len(waiters) = 0 /\ waiters \in Seq([fiber : Fibers, for_write : BOOLEAN])
    BY EmptySeq DEF Init
  <2>2. TypeOK
    BY <2>1 DEF Init, TypeOK, Places
  <2>3. QueueConsistent /\ FrontIsBlocked
    BY <2>1 DEF Init, QueueConsistent, FrontIsBlocked
  <2>4. QED
    BY <2>2, <2>3
<1>3. HoldersCounted /\ MutualExclusion
  BY <1>1, FS_EmptySet DEF Init, HoldersCounted, MutualExclusion
<1>4. QED
  BY <1>2, <1>3 DEF IInv

(* Every step keeps the invariant.                                         *)
LEMMA StepInvariant == IInv /\ [Next]_vars => IInv'
<1> SUFFICES ASSUME IInv, [Next]_vars PROVE IInv'
  OBVIOUS
<1>1. ASSUME NEW f \in Fibers, LockShared(f) PROVE IInv'
  <2>1. CASE ~writer /\ waiters = <<>>
    BY <1>1, <2>1, GrantAtOnceKeepsInvariant DEF LockShared, Enqueue
  <2>2. CASE writer \/ waiters # <<>>
    BY <1>1, <2>2, EnqueueKeepsInvariant DEF LockShared
  <2>3. QED
    BY <2>1, <2>2
<1>2. ASSUME NEW f \in Fibers, Lock(f) PROVE IInv'
  <2>1. readers \in Nat /\ pc[f] = "outside" /\ write' = [write EXCEPT ![f] = TRUE]
    BY <1>2 DEF IInv, TypeOK, Lock
  <2>2. CASE readers = 0 /\ ~writer
    <3>1. waiters = <<>>
      BY <2>2 DEF IInv, FrontIsBlocked
    <3>2. ~(readers > 0 \/ writer)
      BY <2>2
    <3>3. /\ pc' = [pc EXCEPT ![f] = "granted"] /\ UNCHANGED waiters
          /\ writer' = TRUE /\ UNCHANGED readers
      BY <1>2, <3>2, Zenon DEF Lock
    <3>4. QED
      BY <2>1, <2>2, <3>1, <3>3, GrantAtOnceKeepsInvariant
  <2>3. CASE readers > 0 \/ writer
    <3>1. ~(readers = 0 /\ ~writer)
      BY <2>1, <2>3
    <3>2. Enqueue(f, TRUE)
      BY <1>2, <3>1, Zenon DEF Lock
    <3>3. QED
      BY <2>1, <2>3, <3>2, EnqueueKeepsInvariant
  <2>4. QED
    BY <2>1, <2>2, <2>3
<1>3. ASSUME NEW f \in Fibers, Enter(f) PROVE IInv'
  BY <1>3, EnterKeepsInvariant
<1>4. ASSUME NEW f \in Fibers, UnlockShared(f) PROVE IInv'
  <2>1. Holding(f) /\ f \in SharedHolders
    BY <1>4 DEF UnlockShared, Holding, SharedHolders
  <2>2. ExclusiveHolders \subseteq {f}
    BY <2>1 DEF IInv, MutualExclusion
  <2>3. IsFiniteSet(SharedHolders)
    <3>1. SharedHolders \in SUBSET Fibers
      BY DEF SharedHolders
    <3>2. QED
      BY <3>1, FibersAssumption, FS_Subset
  <2>4. readers - 1 = Cardinality(SharedHolders \ {f})
    BY <2>1, <2>3, FS_RemoveElement DEF IInv, HoldersCounted
  <2>5. QED
    BY <1>4, <2>1, <2>2, <2>4, WakeKeepsInvariant DEF UnlockShared
<1>5. ASSUME NEW f \in Fibers, Unlock(f) PROVE IInv'
  <2>1. Holding(f) /\ f \in ExclusiveHolders
    BY <1>5 DEF Unlock, Holding, ExclusiveHolders
  <2>2. ExclusiveHolders \subseteq {f} /\ SharedHolders = {}
    BY <2>1 DEF IInv, MutualExclusion, SharedHolders, ExclusiveHolders
  <2>3. SharedHolders \ {f} = SharedHolders
    BY <2>2
  <2>4. readers = Cardinality(SharedHolders \ {f})
    BY <2>3 DEF IInv, HoldersCounted
  <2>5. QED
    BY <1>5, <2>1, <2>2, <2>4, WakeKeepsInvariant DEF Unlock
<1>6. CASE UNCHANGED vars
  BY <1>6 DEF vars, IInv, TypeOK, QueueConsistent, HoldersCounted, MutualExclusion,
              FrontIsBlocked, SharedHolders, ExclusiveHolders, Holding
<1>7. QED
  BY <1>1, <1>2, <1>3, <1>4, <1>5, <1>6 DEF Next

(* The types hold in every reachable state of shared_mutex.                *)
THEOREM MutexTypeCorrect == Spec => []TypeOK
<1>1. IInv => TypeOK
  BY DEF IInv
<1>2. QED
  BY <1>1, InitInvariant, StepInvariant, PTL DEF Spec

(* For any finite set of fibers: a fiber granted exclusive access to the   *)
(* shared_mutex is alone, until its unlock() returns.                      *)
THEOREM Exclusion == Spec => []MutualExclusion
<1>1. IInv => MutualExclusion
  BY DEF IInv
<1>2. QED
  BY <1>1, InitInvariant, StepInvariant, PTL DEF Spec

(* _readers and _writer always say exactly who is in.                      *)
THEOREM CountersExact == Spec => []HoldersCounted
<1>1. IInv => HoldersCounted
  BY DEF IInv
<1>2. QED
  BY <1>1, InitInvariant, StepInvariant, PTL DEF Spec

(* The queue holds each waiting fiber exactly once: no wake-up is lost.    *)
THEOREM QueueExact == Spec => []QueueConsistent
<1>1. IInv => QueueConsistent
  BY DEF IInv
<1>2. QED
  BY <1>1, InitInvariant, StepInvariant, PTL DEF Spec

(* No fiber is left queued on a mutex that its front waiter could take.    *)
THEOREM NoIdleWaiters == Spec => []FrontIsBlocked
<1>1. IInv => FrontIsBlocked
  BY DEF IInv
<1>2. QED
  BY <1>1, InitInvariant, StepInvariant, PTL DEF Spec

\* What NoOvertaking says of one step.
PassesNobody ==
  \A f \in Fibers :
     (pc'[f] = "granted" /\ pc[f] # "granted") =>
        \A i \in 1..Len(waiters) :
           (\A j \in 1..i : waiters[j].fiber # f) => pc'[waiters[i].fiber] # "waiting"

(* A wake-up grants the first waiters: whoever it lets in, those who were  *)
(* queued before him are let in too.                                       *)
LEMMA WakePassesNobody ==
  ASSUME IInv, NEW f \in Fibers, NEW r, Wake(f, r) PROVE PassesNobody
<1>0. Len(waiters) \in Nat
  BY DEF IInv, TypeOK
<1>1. PICK g \in 0..Len(waiters) : Grant(f, g)
  <2>1. PICK n \in 0..Len(waiters) : (n < Len(waiters) /\ Grant(f, 1)) \/ Grant(f, n)
    BY DEF Wake
  <2>2. n < Len(waiters) => 1 \in 0..Len(waiters)
    BY <1>0
  <2>3. QED
    BY <2>1, <2>2
<1>2. \A h \in Fibers : pc'[h] = IF \E k \in 1..g : waiters[k].fiber = h THEN "granted"
                                 ELSE IF h = f THEN "outside" ELSE pc[h]
  BY <1>1 DEF Grant
<1>3. SUFFICES ASSUME NEW h \in Fibers, pc'[h] = "granted", pc[h] # "granted",
                      NEW i \in 1..Len(waiters), \A j \in 1..i : waiters[j].fiber # h
               PROVE  pc'[waiters[i].fiber] # "waiting"
  BY DEF PassesNobody
<1>4. PICK k \in 1..g : waiters[k].fiber = h
  BY <1>2, <1>3
<1>5. k \notin 1..i
  BY <1>3, <1>4
<1>6. i \in 1..g
  BY <1>0, <1>5
<1>7. waiters[i].fiber \in Fibers
  <2>1. waiters \in [1..Len(waiters) -> [fiber : Fibers, for_write : BOOLEAN]]
    BY LenProperties DEF IInv, TypeOK
  <2>2. \A x \in 1..Len(waiters) : waiters[x].fiber \in Fibers
    BY <2>1
  <2>3. QED
    BY <1>3, <2>2
<1>8. QED
  BY <1>2, <1>6, <1>7

(* A lock() or lock_shared() that is granted at once finds nobody queued.  *)
LEMMA GrantAtOncePassesNobody ==
  ASSUME IInv, NEW f \in Fibers, LockShared(f) \/ Lock(f) PROVE PassesNobody
<1>1. CASE waiters = <<>>
  BY <1>1 DEF PassesNobody
<1>2. CASE waiters # <<>>
  <2>1. pc' = [pc EXCEPT ![f] = "waiting"]
    <3>1. CASE LockShared(f)
      BY <1>2, <3>1 DEF LockShared, Enqueue
    <3>2. CASE Lock(f)
      <4>1. ~(readers = 0 /\ ~writer)
        BY <1>2 DEF IInv, FrontIsBlocked, TypeOK
      <4>2. Enqueue(f, TRUE)
        BY <3>2, <4>1, Zenon DEF Lock
      <4>3. QED
        BY <4>2 DEF Enqueue
    <3>3. QED
      BY <3>1, <3>2
  <2>2. \A h \in Fibers : pc'[h] = "granted" => pc[h] = "granted"
    BY <2>1 DEF IInv, TypeOK
  <2>3. QED
    BY <2>2 DEF PassesNobody
<1>3. QED
  BY <1>1, <1>2

(* The queue is fair: no step grants the lock to a fiber and leaves one    *)
(* waiting that was queued before it.                                      *)
THEOREM NobodyOvertakes == Spec => NoOvertaking
<1>1. IInv /\ [Next]_vars => PassesNobody
  <2> SUFFICES ASSUME IInv, [Next]_vars PROVE PassesNobody
    OBVIOUS
  <2>1. ASSUME NEW f \in Fibers, LockShared(f) \/ Lock(f) PROVE PassesNobody
    BY <2>1, GrantAtOncePassesNobody
  <2>2. ASSUME NEW f \in Fibers, UnlockShared(f) \/ Unlock(f) PROVE PassesNobody
    BY <2>2, WakePassesNobody DEF UnlockShared, Unlock
  <2>3. ASSUME NEW f \in Fibers, Enter(f) PROVE PassesNobody
    BY <2>3 DEF Enter, PassesNobody, IInv, TypeOK
  <2>4. CASE UNCHANGED vars
    BY <2>4 DEF vars, PassesNobody
  <2>5. QED
    BY <2>1, <2>2, <2>3, <2>4 DEF Next
<1>2. QED
  BY <1>1, InitInvariant, StepInvariant, PTL DEF Spec, NoOvertaking, PassesNobody

-----------------------------------------------------------------------------
(* The refinement: the abstract lock sees what every step grants.          *)
LEMMA HoldIsCompatible ==
  ASSUME IInv
  PROVE  Abstract!Compatible(Hold)
<1> SUFFICES ASSUME NEW f \in Fibers, NEW g \in Fibers,
                    Hold[f] = "exclusive", g # f
             PROVE  Hold[g] = "none"
  BY DEF Abstract!Compatible
<1>1. f \in ExclusiveHolders
  BY DEF Hold, AccessOf, ExclusiveHolders
<1>2. ~Holding(g)
  BY <1>1 DEF IInv, MutualExclusion
<1>3. QED
  BY <1>2 DEF Hold

(* A call that queues is a request.                                        *)
LEMMA EnqueueIsRequest ==
  ASSUME IInv, NEW f \in Fibers, pc[f] = "outside", NEW forWrite \in BOOLEAN,
         write' = [write EXCEPT ![f] = forWrite], pc' = [pc EXCEPT ![f] = "waiting"]
  PROVE  Abstract!Request(f, IF forWrite THEN "exclusive" ELSE "shared")
  BY DEF Abstract!Request, Want, Hold, Holding, AccessOf, IInv, TypeOK

(* A call that is granted at once takes the lock.                          *)
LEMMA GrantAtOnceIsTake ==
  ASSUME IInv, IInv', NEW f \in Fibers, pc[f] = "outside", NEW forWrite \in BOOLEAN,
         write' = [write EXCEPT ![f] = forWrite], pc' = [pc EXCEPT ![f] = "granted"]
  PROVE  Abstract!Take(f, IF forWrite THEN "exclusive" ELSE "shared")
<1>1. Abstract!Compatible(Hold)'
  BY HoldIsCompatible, PTL
<1>2. QED
  BY <1>1 DEF Abstract!Take, Abstract!Compatible, Want, Hold, Holding, AccessOf, IInv, TypeOK
(* An unlock with the waiters it grants is one release.                    *)
LEMMA GrantIsRelease ==
  ASSUME IInv, IInv', NEW f \in Fibers, Holding(f), NEW g \in 0..Len(waiters),
         Grant(f, g), UNCHANGED write
  PROVE  Abstract!Release(f, Woken(g))
<1>1. Abstract!Compatible(Hold)'
  BY HoldIsCompatible, PTL
<1>2. /\ pc' = [h \in Fibers |-> IF h \in Woken(g) THEN "granted"
                                ELSE IF h = f THEN "outside" ELSE pc[h]]
      /\ \A h \in Woken(g) : h \in Fibers /\ pc[h] = "waiting"
  <2>1. waiters \in [1..Len(waiters) -> [fiber : Fibers, for_write : BOOLEAN]]
    BY LenProperties DEF IInv, TypeOK
  <2>2. 1..g \subseteq 1..Len(waiters)
    BY DEF IInv, TypeOK
  <2>3. \A h \in Woken(g) : h \in Fibers /\ pc[h] = "waiting"
    BY <2>1, <2>2 DEF Woken, IInv, QueueConsistent
  <2>4. QED
    BY <2>3 DEF Grant, Woken
<1>3. Hold[f] # "none" /\ \A h \in Woken(g) : Want[h] # "none"
  BY <1>2 DEF Hold, Want, AccessOf
<1>4. Hold' = [h \in Fibers |-> IF h \in Woken(g) THEN Want[h]
                               ELSE IF h = f THEN "none" ELSE Hold[h]]
  BY <1>2 DEF Hold, Want, AccessOf, Holding
<1>5. Want' = [h \in Fibers |-> IF h \in Woken(g) THEN "none" ELSE Want[h]]
  BY <1>2 DEF Want, AccessOf, Holding
<1>6. QED
  BY <1>1, <1>3, <1>4, <1>5 DEF Abstract!Release, Abstract!Compatible

(* So is wake(), however many waiters its loop grants.                     *)
LEMMA WakeIsRelease ==
  ASSUME IInv, IInv', NEW f \in Fibers, Holding(f), NEW r, Wake(f, r), UNCHANGED write
  PROVE  \E S \in SUBSET Fibers : Abstract!Release(f, S)
<1>1. PICK g \in 0..Len(waiters) : Grant(f, g)
  <2>1. PICK n \in 0..Len(waiters) : (n < Len(waiters) /\ Grant(f, 1)) \/ Grant(f, n)
    BY DEF Wake
  <2>2. n < Len(waiters) => 1 \in 0..Len(waiters)
    BY DEF IInv, TypeOK
  <2>3. QED
    BY <2>1, <2>2
<1>2. Woken(g) \in SUBSET Fibers
  BY <1>1, GrantEffect
<1>3. QED
  BY <1>1, <1>2, GrantIsRelease

(* Each step of the mutex is a step of the abstract lock, or none.         *)
LEMMA MutexStepRefines ==
  ASSUME IInv, IInv', [Next]_vars
  PROVE  [Abstract!SharedLockNext]_<<Want, Hold>>
<1>1. ASSUME NEW f \in Fibers, LockShared(f)
      PROVE  Abstract!Request(f, "shared") \/ Abstract!Take(f, "shared")
  BY <1>1, EnqueueIsRequest, GrantAtOnceIsTake DEF LockShared, Enqueue
<1>2. ASSUME NEW f \in Fibers, Lock(f)
      PROVE  Abstract!Request(f, "exclusive") \/ Abstract!Take(f, "exclusive")
  BY <1>2, EnqueueIsRequest, GrantAtOnceIsTake DEF Lock, Enqueue
<1>3. ASSUME NEW f \in Fibers, Enter(f)
      PROVE  UNCHANGED <<Want, Hold>>
  BY <1>3 DEF Enter, Want, Hold, Holding, AccessOf, IInv, TypeOK
<1>4. ASSUME NEW f \in Fibers, UnlockShared(f) \/ Unlock(f)
      PROVE  \E S \in SUBSET Fibers : Abstract!Release(f, S)
  <2>1. Holding(f) /\ UNCHANGED write /\ \E r : Wake(f, r)
    BY <1>4 DEF UnlockShared, Unlock, Holding
  <2>2. QED
    BY <2>1, WakeIsRelease
<1>5. CASE UNCHANGED vars
  BY <1>5 DEF vars, Want, Hold, Holding, AccessOf
<1>6. QED
  BY <1>1, <1>2, <1>3, <1>4, <1>5 DEF Next, Abstract!SharedLockNext

(* shared_mutex implements the abstract readers-writer lock: whatever its  *)
(* queueing, its callers see only requests, compatible grants and releases *)
(* by the holders.                                                         *)
THEOREM MutexRefinement == Spec => ImplementsSharedLock
<1>1. Init => Abstract!SharedLockInit
  BY DEF Init, Abstract!SharedLockInit, Want, Hold, Holding
<1>2. IInv /\ IInv' /\ [Next]_vars => [Abstract!SharedLockNext]_<<Want, Hold>>
  BY MutexStepRefines
<1>3. QED
  BY <1>1, <1>2, InitInvariant, StepInvariant, PTL
  DEF Spec, ImplementsSharedLock, Abstract!SharedLockSpec

-----------------------------------------------------------------------------
EofIn(s) == \E i \in 1..Len(s) : s[i] = Eof

(* The inductive invariant: beside the wake-ups, which end an outstanding  *)
(* call belongs to, and that the end of file is alone in the buffer.       *)
PInv ==
  /\ PipeTypeOK
  /\ WakeUpsStayTrue
  /\ producer = "idle" <=> pending = None
  /\ producer # "idle" => writeOpen
  /\ producer \in {"aborted", "asserted"} => ~readOpen
  /\ consumer # "idle" => readOpen
  /\ ex => ~readOpen
  /\ EofIn(q) => q = <<Eof>> /\ ~writeOpen

(* Where the end of file can be after a push or a pop.                     *)
LEMMA AppendFacts ==
  ASSUME NEW s \in Seq(Values), NEW x \in Values
  PROVE  /\ Append(s, x) \in Seq(Values)
         /\ Len(Append(s, x)) = Len(s) + 1
         /\ Append(s, x) # <<>>
         /\ EofIn(Append(s, x)) <=> EofIn(s) \/ x = Eof
<1>1. /\ Append(s, x) \in Seq(Values)
      /\ Len(Append(s, x)) = Len(s) + 1
      /\ \A i \in 1..Len(s) : Append(s, x)[i] = s[i]
      /\ Append(s, x)[Len(s) + 1] = x
  BY AppendProperties
<1>2. Len(s) \in Nat
  BY LenProperties
<1>3. 1..Len(s) + 1 = 1..Len(s) \union {Len(s) + 1}
  BY <1>2
<1>4. QED
  BY <1>1, <1>2, <1>3 DEF EofIn

(* What is left of a buffer when its front is taken.                       *)
LEMMA TailFacts ==
  ASSUME NEW s \in Seq(Values), s # <<>>
  PROVE  /\ Tail(s) \in Seq(Values)
         /\ Len(Tail(s)) = Len(s) - 1
         /\ Len(s) \in Nat \ {0}
         /\ Head(s) \in Values
         /\ EofIn(Tail(s)) => EofIn(s)
<1>1. /\ Len(s) \in Nat /\ Len(s) # 0
      /\ Head(s) \in Values /\ Tail(s) \in Seq(Values)
      /\ Len(Tail(s)) = Len(s) - 1
      /\ \A i \in 1..Len(Tail(s)) : Tail(s)[i] = s[i + 1]
  BY HeadTailProperties, EmptySeq, LenProperties
<1>2. \A i \in 1..Len(Tail(s)) : i + 1 \in 1..Len(s)
  BY <1>1
<1>3. QED
  BY <1>1, <1>2 DEF EofIn

(* The buffer <<Eof>> and the empty one.                                   *)
LEMMA ShortBuffers ==
  /\ <<>> \in Seq(Values) /\ Len(<<>>) = 0 /\ ~EofIn(<<>>)
  /\ EofIn(<<Eof>>)
  /\ Append(<<>>, Eof) = <<Eof>> /\ Tail(<<Eof>>) = <<>> /\ <<Eof>> # <<>>
BY PipeAssumption DEF EofIn

(* A new pipe is empty and nobody waits.                                   *)
LEMMA InitInv == PipeInit => PInv
<1> SUFFICES ASSUME PipeInit PROVE PInv
  OBVIOUS
<1>1. PipeTypeOK
  <2>1. q \in Seq(Values) /\ Len(q) <= Max
    BY PipeAssumption, ShortBuffers DEF PipeInit, FueueInit
  <2>2. QED
    BY <2>1 DEF PipeInit, FueueInit, PipeTypeOK, CallStates
<1>2. WakeUpsStayTrue
  BY DEF PipeInit, FueueInit, WakeUpsStayTrue
<1>3. ~EofIn(q)
  BY ShortBuffers DEF PipeInit, FueueInit
<1>4. QED
  BY <1>1, <1>2, <1>3 DEF PInv, PipeInit, FueueInit

(* What a pop does: it leaves room, so nobody waits for any.               *)
LEMMA PopEffect ==
  ASSUME PInv, q # <<>>, pop
  PROVE  /\ q' \in Seq(Values) /\ Len(q') < Max
         /\ got' \in Values
         /\ EofIn(q) => q' = <<>>
         /\ EofIn(q') => EofIn(q)
         /\ not_full' = FALSE
         /\ producer' \in CallStates \ {"waiting"}
         /\ producer' = "idle" <=> producer = "idle"
         /\ producer' \in {"aborted", "asserted"} => producer' = producer
<1>1. /\ q \in Seq(Values) /\ Len(q) <= Max /\ Max \in Nat
      /\ not_full \in BOOLEAN /\ producer \in CallStates
  BY PipeAssumption DEF PInv, PipeTypeOK
<1>2. q' = Tail(q) /\ got' = Head(q)
  BY DEF pop
<1>3. /\ q' \in Seq(Values) /\ Len(q') < Max /\ got' \in Values
      /\ Len(q) \in Nat
  BY <1>1, <1>2, TailFacts
<1>4. EofIn(q') => EofIn(q)
  BY <1>1, <1>2, TailFacts
<1>5. EofIn(q) => q' = <<>>
  BY <1>2, ShortBuffers DEF PInv
<1>6. CASE not_full
  <2>1. Len(q) = Max /\ producer = "waiting"
    BY <1>6 DEF PInv, WakeUpsStayTrue
  <2>2. not_full' = FALSE /\ producer' = "woken"
    BY <1>6, <2>1 DEF pop, notify_not_full
  <2>3. QED
    BY <1>3, <1>4, <1>5, <2>1, <2>2 DEF CallStates
<1>7. CASE ~not_full
  <2>1. producer # "waiting"
    BY <1>7 DEF PInv, WakeUpsStayTrue
  <2>2. not_full' = FALSE /\ producer' = producer
    BY <1>1, <1>7 DEF pop, notify_not_full
  <2>3. QED
    BY <1>1, <1>3, <1>4, <1>5, <2>1, <2>2
<1>8. QED
  BY <1>1, <1>6, <1>7

(* What a push that finds room does: a waiting reader is woken.            *)
LEMMA PushEffect ==
  ASSUME PInv, NEW x \in Values, Len(q) < Max, q' = Append(q, x),
         notify_not_empty
  PROVE  /\ q' \in Seq(Values) /\ Len(q') <= Max /\ q' # <<>>
         /\ EofIn(q') <=> EofIn(q) \/ x = Eof
         /\ not_empty' = FALSE
         /\ consumer' \in {"idle", "woken"}
         /\ consumer' = "idle" <=> consumer = "idle"
<1>1. /\ q \in Seq(Values) /\ Max \in Nat /\ Len(q) \in Nat
      /\ not_empty \in BOOLEAN /\ consumer \in {"idle", "waiting", "woken"}
  BY PipeAssumption, LenProperties DEF PInv, PipeTypeOK
<1>2. /\ q' \in Seq(Values) /\ Len(q') <= Max /\ q' # <<>>
      /\ EofIn(q') <=> EofIn(q) \/ x = Eof
  BY <1>1, AppendFacts
<1>3. CASE not_empty
  <2>1. consumer = "waiting"
    BY <1>3 DEF PInv, WakeUpsStayTrue
  <2>2. not_empty' = FALSE /\ consumer' = "woken"
    BY <1>3 DEF notify_not_empty
  <2>3. QED
    BY <1>2, <2>1, <2>2
<1>4. CASE ~not_empty
  <2>1. consumer # "waiting"
    BY <1>4 DEF PInv, WakeUpsStayTrue
  <2>2. not_empty' = FALSE /\ consumer' = consumer
    BY <1>4 DEF notify_not_empty
  <2>3. QED
    BY <1>1, <1>2, <2>1, <2>2
<1>5. QED
  BY <1>1, <1>3, <1>4

(* A read takes the front and tells a waiting writer, or waits.            *)
LEMMA ReadBufferInv ==
  ASSUME PInv, ReadBuffer
  PROVE  PInv'
<1>1. CASE Empty
  <2>1. /\ not_empty' = TRUE /\ consumer' = "waiting" /\ got' = None
        /\ UNCHANGED <<q, not_full, producer, ex, pending, wrote, readOpen,
                       writeOpen, unreadItem>>
        /\ q = <<>> /\ readOpen /\ writeOpen
    BY <1>1 DEF ReadBuffer, pop_eventually, pop, Empty, Readable
  <2>2. PipeTypeOK'
    BY <2>1 DEF PInv, PipeTypeOK
  <2>3. WakeUpsStayTrue'
    BY <2>1 DEF PInv, WakeUpsStayTrue
  <2>4. QED
    BY <2>1, <2>2, <2>3 DEF PInv
<1>2. CASE ~Empty
  <2>1. /\ q # <<>> /\ pop /\ consumer = "idle"
        /\ UNCHANGED <<not_empty, consumer, ex, pending, wrote, readOpen,
                       writeOpen, unreadItem>>
    BY <1>2 DEF ReadBuffer, pop_eventually, Empty
  <2>2. PipeTypeOK'
    <3>1. /\ q' \in Seq(Values) /\ Len(q') <= Max
          /\ got' \in Values /\ not_full' = FALSE /\ producer' \in CallStates
      <4>1. q' \in Seq(Values) /\ Len(q') < Max
        BY <2>1, PopEffect
      <4>2. Len(q') \in Nat /\ Max \in Nat
        BY <4>1, PipeAssumption, LenProperties
      <4>3. QED
        BY <2>1, <4>1, <4>2, PopEffect
    <3>2. QED
      BY <2>1, <3>1 DEF PInv, PipeTypeOK
  <2>3. WakeUpsStayTrue'
    BY <2>1, PopEffect DEF PInv, WakeUpsStayTrue
  <2>4. EofIn(q') => q' = <<Eof>> /\ ~writeOpen'
    BY <2>1, PopEffect, ShortBuffers DEF PInv
  <2>5. QED
    BY <2>1, <2>2, <2>3, <2>4, PopEffect DEF PInv
<1>3. QED
  BY <1>1, <1>2

(* A reader that was woken finds its item still there.                     *)
LEMMA PopContinuesInv ==
  ASSUME PInv, PopContinues, UNCHANGED <<readOpen, writeOpen, unreadItem>>
  PROVE  PInv'
<1>1. /\ q # <<>> /\ pop /\ consumer = "woken" /\ consumer' = "idle"
      /\ ~not_empty
      /\ UNCHANGED <<not_empty, ex, pending, wrote, readOpen, writeOpen,
                     unreadItem>>
  BY DEF PopContinues, PInv, WakeUpsStayTrue
<1>2. PipeTypeOK'
  <2>1. /\ q' \in Seq(Values) /\ Len(q') <= Max
        /\ got' \in Values /\ not_full' = FALSE /\ producer' \in CallStates
    <3>1. q' \in Seq(Values) /\ Len(q') < Max
      BY <1>1, PopEffect
    <3>2. Len(q') \in Nat /\ Max \in Nat
      BY <3>1, PipeAssumption, LenProperties
    <3>3. QED
      BY <1>1, <3>1, <3>2, PopEffect
  <2>2. QED
    BY <1>1, <2>1 DEF PInv, PipeTypeOK
<1>3. WakeUpsStayTrue'
  BY <1>1, PopEffect DEF PInv, WakeUpsStayTrue
<1>4. EofIn(q') => q' = <<Eof>> /\ ~writeOpen'
  BY <1>1, PopEffect, ShortBuffers DEF PInv
<1>5. /\ producer' = "idle" <=> producer = "idle"
      /\ producer' \in {"aborted", "asserted"} => producer' = producer
  BY <1>1, PopEffect
<1>6. QED
  BY <1>1, <1>2, <1>3, <1>4, <1>5 DEF PInv

(* A write appends and tells a waiting reader, or waits with its item.     *)
LEMMA WriteInv ==
  ASSUME PInv, NEW x \in Items, Write(x)
  PROVE  PInv'
<1>1. /\ writeOpen /\ producer = "idle" /\ pending = None /\ ~not_full
      /\ x \in Values /\ x # Eof /\ x # None
      /\ UNCHANGED <<readOpen, writeOpen, unreadItem>>
  BY PipeAssumption DEF Write, Items, PInv, WakeUpsStayTrue
<1>2. CASE readOpen /\ Full
  <2>1. /\ not_full' = TRUE /\ producer' = "waiting" /\ pending' = x
        /\ wrote' = "none"
        /\ UNCHANGED <<q, ex, not_empty, consumer, got>>
    BY <1>2 DEF Write, push_eventually
  <2>2. Len(q) = Max
    BY <1>2, PipeAssumption, LenProperties DEF Full, PInv, PipeTypeOK
  <2>3. PipeTypeOK'
    BY <1>1, <2>1 DEF PInv, PipeTypeOK, CallStates
  <2>4. WakeUpsStayTrue'
    BY <1>1, <1>2, <2>1, <2>2 DEF PInv, WakeUpsStayTrue
  <2>5. QED
    BY <1>1, <2>1, <2>3, <2>4 DEF PInv
<1>3. CASE readOpen /\ ~Full
  <2>1. /\ q' = Append(q, x) /\ notify_not_empty /\ wrote' = "ok"
        /\ UNCHANGED <<ex, not_full, producer, pending, got>>
    BY <1>3 DEF Write, push_eventually
  <2>2. Len(q) < Max
    BY <1>3, PipeAssumption, LenProperties DEF Full, PInv, PipeTypeOK
  <2>3. PipeTypeOK'
    BY <1>1, <2>1, <2>2, PushEffect DEF PInv, PipeTypeOK
  <2>4. WakeUpsStayTrue'
    BY <1>1, <1>3, <2>1, <2>2, PushEffect DEF PInv, WakeUpsStayTrue
  <2>5. ~EofIn(q')
    BY <1>1, <2>1, <2>2, PushEffect DEF PInv
  <2>6. QED
    BY <1>1, <1>3, <2>1, <2>3, <2>4, <2>5 DEF PInv
<1>4. CASE ~readOpen
  <2>1. /\ wrote' = "broken"
        /\ UNCHANGED <<q, ex, not_empty, not_full, consumer, producer,
                       pending, got>>
    BY <1>4 DEF Write
  <2>2. PipeTypeOK'
    BY <1>1, <2>1 DEF PInv, PipeTypeOK
  <2>3. WakeUpsStayTrue'
    BY <1>1, <2>1 DEF PInv, WakeUpsStayTrue
  <2>4. QED
    BY <1>1, <2>1, <2>2, <2>3 DEF PInv
<1>5. QED
  BY <1>2, <1>3, <1>4

(* A writer that was woken finds its room still there.                     *)
LEMMA PushContinuesInv ==
  ASSUME PInv, PushContinues, UNCHANGED <<readOpen, writeOpen, unreadItem>>
  PROVE  PInv'
<1>1. /\ producer = "woken" /\ producer' = "idle" /\ pending' = None
      /\ wrote' = "ok" /\ q' = Append(q, pending) /\ notify_not_empty
      /\ Len(q) < Max /\ ~not_full /\ writeOpen
      /\ UNCHANGED <<ex, not_full, got, readOpen, writeOpen, unreadItem>>
  BY DEF PushContinues, PInv, WakeUpsStayTrue
<1>2. pending \in Values /\ pending # Eof
  BY <1>1, PipeAssumption DEF PInv, PipeTypeOK, Items
<1>3. /\ q' \in Seq(Values) /\ Len(q') <= Max /\ q' # <<>>
      /\ ~EofIn(q')
      /\ not_empty' = FALSE
      /\ consumer' \in {"idle", "woken"}
      /\ consumer' = "idle" <=> consumer = "idle"
  <2>1. ~EofIn(q)
    BY <1>1 DEF PInv
  <2>2. QED
    BY <1>1, <1>2, <2>1, PushEffect
<1>4. PipeTypeOK'
  BY <1>1, <1>3 DEF PInv, PipeTypeOK, CallStates
<1>5. WakeUpsStayTrue'
  <2>1. consumer' = "woken" => readOpen /\ ~ex
    BY <1>3 DEF PInv
  <2>2. QED
    BY <1>1, <1>3, <2>1 DEF WakeUpsStayTrue
<1>6. QED
  BY <1>1, <1>3, <1>4, <1>5 DEF PInv

(* Closing the reader empties a full buffer and fails a writer that waits; *)
(* a buffer with room, where nobody waits, stays as it is.                 *)
LEMMA CloseReadInv ==
  ASSUME PInv, CloseRead
  PROVE  PInv'
<1>1. /\ readOpen /\ consumer = "idle" /\ ~not_empty
      /\ readOpen' = FALSE /\ unreadItem' = None /\ writeOpen' = writeOpen
  BY DEF CloseRead, PInv, WakeUpsStayTrue
<1>2. CASE Full
  <2>1. /\ q' = <<>> /\ ex' = TRUE /\ consumer' = consumer
        /\ producer' = IF not_full THEN "aborted" ELSE producer
        /\ not_full' = FALSE /\ not_empty' = FALSE
        /\ UNCHANGED <<pending, got, wrote>>
    BY <1>1, <1>2 DEF CloseRead, abort
  <2>2. q' \in Seq(Values) /\ Len(q') < Max /\ Len(q') <= Max /\ ~EofIn(q')
    BY <2>1, ShortBuffers, PipeAssumption
  <2>3. /\ producer' \in CallStates \ {"waiting"}
        /\ producer' = "idle" <=> producer = "idle"
    BY <2>1 DEF PInv, PipeTypeOK, WakeUpsStayTrue, CallStates
  <2>4. PipeTypeOK'
    BY <1>1, <2>1, <2>2, <2>3 DEF PInv, PipeTypeOK
  <2>5. WakeUpsStayTrue'
    BY <1>1, <2>1, <2>2, <2>3 DEF WakeUpsStayTrue
  <2>6. QED
    BY <1>1, <2>1, <2>2, <2>3, <2>4, <2>5 DEF PInv
<1>3. CASE ~Full
  <2>1. UNCHANGED fueueVars
    BY <1>3 DEF CloseRead
  <2>2. ~not_full
    BY <1>3, PipeAssumption DEF Full, PInv, PipeTypeOK, WakeUpsStayTrue
  <2>3. PipeTypeOK'
    BY <1>1, <2>1 DEF PInv, PipeTypeOK, fueueVars
  <2>4. WakeUpsStayTrue'
    BY <1>1, <2>1, <2>2 DEF PInv, WakeUpsStayTrue, fueueVars
  <2>5. QED
    BY <1>1, <2>1, <2>3, <2>4 DEF PInv, fueueVars
<1>4. QED
  BY <1>2, <1>3

(* Closing the writer puts the end of file, or leaves it to be read.       *)
LEMMA CloseWriteInv ==
  ASSUME PInv, CloseWrite
  PROVE  PInv'
<1>1. /\ writeOpen /\ producer = "idle" /\ ~not_full /\ writeOpen' = FALSE
      /\ UNCHANGED <<ex, not_full, producer, pending, got, wrote, readOpen,
                     unreadItem>>
  BY DEF CloseWrite, PInv, WakeUpsStayTrue
<1>2. CASE Empty
  <2>1. Len(q) < Max /\ q = <<>> /\ ~EofIn(q)
    BY <1>2, ShortBuffers, PipeAssumption DEF Empty
  <2>2. q' = Append(q, Eof) /\ notify_not_empty
    BY <1>2, <2>1 DEF CloseWrite, push
  <2>3. q' = <<Eof>>
    BY <2>1, <2>2, ShortBuffers
  <2>4. PipeTypeOK'
    BY <1>1, <2>1, <2>2, PushEffect, PipeAssumption DEF PInv, PipeTypeOK
  <2>5. WakeUpsStayTrue'
    BY <1>1, <2>1, <2>2, PushEffect, PipeAssumption
       DEF PInv, WakeUpsStayTrue
  <2>6. QED
    BY <1>1, <2>1, <2>2, <2>3, <2>4, <2>5, PushEffect, PipeAssumption DEF PInv
<1>3. CASE ~Empty
  <2>1. UNCHANGED <<q, not_empty, consumer>> /\ q # <<>>
    BY <1>3 DEF CloseWrite, Empty
  <2>2. PipeTypeOK'
    BY <1>1, <2>1 DEF PInv, PipeTypeOK
  <2>3. WakeUpsStayTrue'
    BY <1>1, <2>1 DEF PInv, WakeUpsStayTrue
  <2>4. QED
    BY <1>1, <2>1, <2>2, <2>3 DEF PInv
<1>4. QED
  BY <1>2, <1>3

(* Every step keeps the invariant.                                         *)
LEMMA StepInv == PInv /\ [PipeNext]_pipeVars => PInv'
<1> SUFFICES ASSUME PInv, [PipeNext]_pipeVars
             PROVE  PInv'
  OBVIOUS
<1>1. CASE ReadUnread
  <2>1. PipeTypeOK'
    BY <1>1 DEF ReadUnread, PInv, PipeTypeOK, Items
  <2>2. QED
    BY <1>1, <2>1 DEF ReadUnread, PInv, WakeUpsStayTrue
<1>2. CASE ReadBuffer
  BY <1>2, ReadBufferInv
<1>3. CASE ReadEnd
  <2>1. PipeTypeOK'
    BY <1>3, PipeAssumption DEF ReadEnd, PInv, PipeTypeOK
  <2>2. QED
    BY <1>3, <2>1 DEF ReadEnd, PInv, WakeUpsStayTrue
<1>4. ASSUME NEW x \in Items, Unread(x) PROVE PInv'
  <2>1. PipeTypeOK'
    BY <1>4 DEF Unread, PInv, PipeTypeOK, fueueVars
  <2>2. QED
    BY <1>4, <2>1 DEF Unread, PInv, WakeUpsStayTrue, fueueVars
<1>5. ASSUME NEW x \in Items, Write(x) PROVE PInv'
  BY <1>5, WriteInv
<1>6. CASE CloseRead
  BY <1>6, CloseReadInv
<1>7. CASE CloseWrite
  BY <1>7, CloseWriteInv
<1>8. CASE Continue
  <2>1. CASE PopContinues
    BY <1>8, <2>1, PopContinuesInv DEF Continue
  <2>2. CASE PushContinues
    BY <1>8, <2>2, PushContinuesInv DEF Continue
  <2>3. CASE PushFails
    <3>1. PipeTypeOK'
      BY <1>8, <2>3 DEF Continue, PushFails, PInv, PipeTypeOK, CallStates
    <3>2. WakeUpsStayTrue'
      BY <1>8, <2>3 DEF Continue, PushFails, PInv, WakeUpsStayTrue
    <3>3. QED
      BY <1>8, <2>3, <3>1, <3>2 DEF Continue, PushFails, PInv
  <2>4. QED
    BY <1>8, <2>1, <2>2, <2>3 DEF Continue
<1>9. CASE UNCHANGED pipeVars
  BY <1>9 DEF pipeVars, fueueVars, PInv, PipeTypeOK, WakeUpsStayTrue
<1>10. QED
  BY <1>1, <1>2, <1>3, <1>4, <1>5, <1>6, <1>7, <1>8, <1>9 DEF PipeNext

(* So it holds in every reachable state.                                   *)
LEMMA InvariantHolds == PipeSpec => []PInv
<1>1. PipeInit => PInv
  BY InitInv
<1>2. PInv /\ [PipeNext]_pipeVars => PInv'
  BY StepInv
<1>3. QED
  BY <1>1, <1>2, PTL DEF PipeSpec

(* The type invariant, for every buffer size and every set of items.       *)
THEOREM PipeTypeCorrect == PipeSpec => []PipeTypeOK
<1>1. PInv => PipeTypeOK
  BY DEF PInv
<1>2. QED
  BY <1>1, InvariantHolds, PTL

(* A waiting end has a promise and a reason to wait, and a woken end finds *)
(* what it was woken for: the continuations of pop_eventually() and        *)
(* push_eventually(), which do not look again, are right not to.           *)
THEOREM WakeUpsHold == PipeSpec => []WakeUpsStayTrue
<1>1. PInv => WakeUpsStayTrue
  BY DEF PInv
<1>2. QED
  BY <1>1, InvariantHolds, PTL
------------------------------------------------------------------------------
(* The abstract stream in the states the invariant admits.                 *)
LEMMA StreamIs ==
  ASSUME PInv
  PROVE  /\ ~readOpen => Stream = <<>>
         /\ EofIn(q) => Stream = <<>> /\ pending = None
         /\ readOpen /\ ~EofIn(q) /\ pending = None => Stream = q
         /\ readOpen /\ ~EofIn(q) /\ pending # None => Stream = Append(q, pending)
<1>1. q = <<Eof>> <=> EofIn(q)
  BY ShortBuffers DEF PInv
<1>2. EofIn(q) => pending = None
  BY DEF PInv
<1>3. QED
  BY <1>1, <1>2 DEF Stream, ItemsIn

(* Reading the oldest of several items.                                    *)
LEMMA HeadOfAppend ==
  ASSUME NEW s \in Seq(Values), s # <<>>, NEW x \in Values
  PROVE  /\ Head(Append(s, x)) = Head(s)
         /\ Tail(Append(s, x)) = Append(Tail(s), x)
<1>1. /\ Append(s, x) \in Seq(Values) /\ Append(s, x) # <<>>
      /\ Len(Append(s, x)) = Len(s) + 1
      /\ \A i \in 1..Len(s) : Append(s, x)[i] = s[i]
      /\ Append(s, x)[Len(s) + 1] = x
  BY AppendFacts, AppendProperties
<1>2. /\ Len(s) \in Nat \ {0} /\ Tail(s) \in Seq(Values)
      /\ Len(Tail(s)) = Len(s) - 1
      /\ Head(s) = s[1]
      /\ \A i \in 1..Len(Tail(s)) : Tail(s)[i] = s[i + 1]
  BY HeadTailProperties, EmptySeq, LenProperties
<1>3. Head(Append(s, x)) = Head(s)
  BY <1>1, <1>2, HeadTailProperties
<1>4. Tail(Append(s, x)) = Append(Tail(s), x)
  <2> DEFINE t == Tail(Append(s, x))
             u == Append(Tail(s), x)
  <2>1. /\ t \in Seq(Values) /\ Len(t) = Len(s)
        /\ \A i \in 1..Len(t) : t[i] = Append(s, x)[i + 1]
    BY <1>1, <1>2, HeadTailProperties
  <2>2. /\ u \in Seq(Values) /\ Len(u) = Len(s)
        /\ \A i \in 1..Len(Tail(s)) : u[i] = Tail(s)[i]
        /\ u[Len(s)] = x
    BY <1>2, AppendProperties
  <2>3. ASSUME NEW i \in 1..Len(s) PROVE t[i] = u[i]
    <3>1. t[i] = Append(s, x)[i + 1]
      BY <2>1
    <3>2. CASE i = Len(s)
      BY <1>1, <2>2, <3>1, <3>2
    <3>3. CASE i # Len(s)
      <4>1. i \in 1..Len(Tail(s)) /\ i + 1 \in 1..Len(s)
        <5>1. Len(s) \in Nat /\ Len(Tail(s)) = Len(s) - 1
          BY <1>2
        <5>2. \A n \in Nat : \A j \in 1..n :
                j # n => j \in 1..n - 1 /\ j + 1 \in 1..n
          OBVIOUS
        <5>3. QED
          BY <3>3, <5>1, <5>2, Zenon
      <4>2. u[i] = s[i + 1] /\ Append(s, x)[i + 1] = s[i + 1]
        BY <1>1, <1>2, <2>2, <4>1
      <4>3. QED
        BY <3>1, <4>2
    <3>4. QED
      BY <3>2, <3>3
  <2>4. QED
    BY <2>1, <2>2, <2>3, SeqEqual
<1>5. QED
  BY <1>3, <1>4

(* A pop, by a reader that waited or not, is one read of the channel.      *)
LEMMA PopIsRead ==
  ASSUME PInv, PInv', q # <<>>, pop, readOpen,
         consumer # "idle" \/ unreadItem = None, consumer' = "idle",
         UNCHANGED <<pending, wrote, readOpen, writeOpen, unreadItem>>
  PROVE  AbstractPipe!ChRead
<1>1. q' = Tail(q) /\ got' = Head(q) /\ q \in Seq(Values)
  BY DEF pop, PInv, PipeTypeOK
<1>2. (producer # "idle")' = (producer # "idle")
  BY PopEffect
<1>3. CASE EofIn(q)
  <2>1. /\ Stream = <<>> /\ ~writeOpen
        /\ got' = Eof /\ q' = <<>> /\ pending' = None
    <3>1. q = <<Eof>> /\ ~writeOpen /\ pending = None
      BY <1>3, StreamIs DEF PInv
    <3>2. Head(<<Eof>>) = Eof
      OBVIOUS
    <3>3. QED
      BY <1>1, <1>3, <3>1, <3>2, StreamIs, ShortBuffers
  <2>2. Stream' = <<>>
    BY <2>1, ShortBuffers DEF Stream, ItemsIn
  <2>3. QED
    BY <1>2, <2>1, <2>2 DEF AbstractPipe!ChRead
<1>4. CASE ~EofIn(q)
  <2>1. ~EofIn(q')
    BY <1>4, PopEffect
  <2>2. Stream # <<>> /\ got' = Head(Stream) /\ Stream' = Tail(Stream)
    <3>1. CASE pending = None
      <4>1. Stream = q /\ Stream' = q'
        BY <1>4, <2>1, <3>1, ShortBuffers DEF Stream, ItemsIn
      <4>2. QED
        BY <1>1, <4>1
    <3>2. CASE pending # None
      <4>1. pending \in Values
        BY <3>2 DEF PInv, PipeTypeOK, Items
      <4>2. Stream = Append(q, pending) /\ Stream' = Append(q', pending)
        BY <3>2 DEF Stream
      <4>3. QED
        BY <1>1, <4>1, <4>2, HeadOfAppend, AppendFacts
    <3>3. QED
      BY <3>1, <3>2
  <2>3. QED
    BY <1>2, <2>2 DEF AbstractPipe!ChRead
<1>5. QED
  BY <1>3, <1>4

(* A new pipe is a new channel.                                            *)
LEMMA InitRefines == PipeInit => AbstractPipe!ChannelInit
BY ShortBuffers
   DEF PipeInit, FueueInit, AbstractPipe!ChannelInit, Stream, ItemsIn

(* A read takes the head of the stream, or only begins.                    *)
LEMMA ReadBufferRefines ==
  ASSUME PInv, PInv', ReadBuffer
  PROVE  AbstractPipe!ChannelNext
<1>1. readOpen /\ consumer = "idle" /\ unreadItem = None
  BY DEF ReadBuffer
<1>2. CASE Empty
  <2>1. /\ q = <<>> /\ consumer' = "waiting" /\ got' = None
        /\ UNCHANGED <<q, producer, pending, wrote, readOpen, writeOpen,
                       unreadItem>>
    BY <1>2 DEF ReadBuffer, pop_eventually, Empty
  <2>2. Stream' = Stream
    BY <2>1 DEF Stream
  <2>3. Stream = <<>> \/ (producer # "idle" /\ Len(Stream) = 1)
    <3>1. CASE pending = None
      BY <2>1, <3>1, ShortBuffers DEF Stream, ItemsIn
    <3>2. CASE pending # None
      <4>1. pending \in Values /\ Stream = Append(<<>>, pending)
        BY <1>1, <2>1, <3>2 DEF PInv, PipeTypeOK, Items, Stream
      <4>2. Len(Stream) = 1
        BY <4>1, AppendFacts, ShortBuffers
      <4>3. QED
        BY <3>2, <4>2 DEF PInv
    <3>3. QED
      BY <3>1, <3>2
  <2>4. AbstractPipe!ChReadWaits
    BY <1>1, <2>1, <2>2, <2>3 DEF AbstractPipe!ChReadWaits
  <2>5. QED
    BY <2>4 DEF AbstractPipe!ChannelNext
<1>3. CASE ~Empty
  <2>1. AbstractPipe!ChRead
    BY <1>1, <1>3, PopIsRead DEF ReadBuffer, pop_eventually, Empty
  <2>2. QED
    BY <2>1 DEF AbstractPipe!ChannelNext
<1>4. QED
  BY <1>2, <1>3

(* A write puts its item into the stream, even if it waits for room.       *)
LEMMA WriteRefines ==
  ASSUME PInv, PInv', NEW x \in Items, Write(x)
  PROVE  AbstractPipe!ChannelNext
<1>1. /\ writeOpen /\ producer = "idle" /\ pending = None /\ ~EofIn(q)
      /\ x \in Values /\ x # Eof /\ x # None
      /\ q \in Seq(Values)
      /\ UNCHANGED <<readOpen, writeOpen, unreadItem>>
  BY PipeAssumption DEF Write, Items, PInv, PipeTypeOK
<1>2. CASE readOpen
  <2>1. Stream = q
    BY <1>1, <1>2, StreamIs
  <2>2. CASE Full
    <3>1. /\ producer' = "waiting" /\ pending' = x /\ wrote' = "none"
          /\ UNCHANGED <<q, consumer, got>>
      BY <1>2, <2>2 DEF Write, push_eventually
    <3>2. Stream' = Append(Stream, x)
      BY <1>1, <1>2, <2>1, <3>1 DEF Stream
    <3>3. AbstractPipe!ChWrite(x)
      BY <1>1, <1>2, <3>1, <3>2 DEF AbstractPipe!ChWrite
    <3>4. QED
      BY <3>3 DEF AbstractPipe!ChannelNext
  <2>3. CASE ~Full
    <3>1. /\ q' = Append(q, x) /\ notify_not_empty /\ wrote' = "ok"
          /\ UNCHANGED <<producer, pending, got>>
      BY <1>2, <2>3 DEF Write, push_eventually
    <3>2. Len(q) < Max
      BY <1>1, <2>3, PipeAssumption, LenProperties DEF Full
    <3>3. /\ Len(q') <= Max /\ ~EofIn(q')
          /\ consumer' = "idle" <=> consumer = "idle"
      BY <1>1, <3>1, <3>2, PushEffect
    <3>4. Stream' = Append(Stream, x)
      BY <1>1, <1>2, <2>1, <3>1, <3>3, ShortBuffers DEF Stream, ItemsIn
    <3>5. Len(Stream') <= Max
      BY <2>1, <3>1, <3>3, <3>4
    <3>6. AbstractPipe!ChWrite(x)
      BY <1>1, <1>2, <3>1, <3>3, <3>4, <3>5 DEF AbstractPipe!ChWrite
    <3>7. QED
      BY <3>6 DEF AbstractPipe!ChannelNext
  <2>4. QED
    BY <2>2, <2>3
<1>3. CASE ~readOpen
  <2>1. /\ wrote' = "broken"
        /\ UNCHANGED <<q, consumer, producer, pending, got>>
    BY <1>3 DEF Write
  <2>2. AbstractPipe!ChWriteRefused
    BY <1>1, <1>3, <2>1 DEF AbstractPipe!ChWriteRefused, Stream
  <2>3. QED
    BY <2>2 DEF AbstractPipe!ChannelNext
<1>4. QED
  BY <1>2, <1>3

(* Its item was in the stream already: the write only ends.                *)
LEMMA PushContinuesRefines ==
  ASSUME PInv, PInv', PushContinues,
         UNCHANGED <<readOpen, writeOpen, unreadItem>>
  PROVE  AbstractPipe!ChannelNext
<1>1. /\ producer = "woken" /\ producer' = "idle" /\ pending' = None
      /\ wrote' = "ok" /\ q' = Append(q, pending) /\ notify_not_empty
      /\ Len(q) < Max /\ UNCHANGED got
      /\ pending # None
  BY DEF PushContinues, PInv, WakeUpsStayTrue
<1>2. pending \in Values /\ pending # Eof /\ ~EofIn(q)
  BY <1>1, PipeAssumption DEF PInv, PipeTypeOK, Items
<1>3. /\ Len(q') <= Max /\ ~EofIn(q')
      /\ consumer' = "idle" <=> consumer = "idle"
  BY <1>1, <1>2, PushEffect
<1>4. Stream' = Stream /\ Len(Stream) <= Max
  <2>1. CASE readOpen
    <3>1. Stream = Append(q, pending)
      BY <1>1, <2>1 DEF Stream
    <3>2. Stream' = q'
      BY <1>1, <1>3, <2>1, ShortBuffers DEF Stream, ItemsIn
    <3>3. QED
      BY <1>1, <1>3, <3>1, <3>2
  <2>2. CASE ~readOpen
    BY <2>2, ShortBuffers, PipeAssumption DEF Stream
  <2>3. QED
    BY <2>1, <2>2
<1>5. AbstractPipe!ChWriteEnds
  BY <1>1, <1>3, <1>4 DEF AbstractPipe!ChWriteEnds
<1>6. QED
  BY <1>5 DEF AbstractPipe!ChannelNext

(* Closing the reader closes the channel's reading end and its stream.     *)
LEMMA CloseReadRefines ==
  ASSUME PInv, PInv', CloseRead
  PROVE  AbstractPipe!ChannelNext
<1>1. /\ readOpen /\ consumer = "idle" /\ ~not_empty
      /\ readOpen' = FALSE /\ unreadItem' = None /\ writeOpen' = writeOpen
  BY DEF CloseRead, PInv, WakeUpsStayTrue
<1>2. /\ UNCHANGED <<got, wrote, consumer>>
      /\ producer' = "idle" <=> producer = "idle"
  BY <1>1 DEF CloseRead, abort, fueueVars, PInv, WakeUpsStayTrue
<1>3. Stream' = <<>>
  BY <1>1 DEF Stream
<1>4. AbstractPipe!ChCloseRead
  BY <1>1, <1>2, <1>3 DEF AbstractPipe!ChCloseRead
<1>5. QED
  BY <1>4 DEF AbstractPipe!ChannelNext

(* Closing the writer closes the writing end; the stream is the same.      *)
LEMMA CloseWriteRefines ==
  ASSUME PInv, PInv', CloseWrite
  PROVE  AbstractPipe!ChannelNext
<1>1. /\ writeOpen /\ producer = "idle" /\ pending = None
      /\ writeOpen' = FALSE
      /\ UNCHANGED <<producer, pending, got, wrote, readOpen, unreadItem>>
  BY DEF CloseWrite, PInv
<1>2. Stream' = Stream /\ (consumer' = "idle" <=> consumer = "idle")
  <2>1. CASE Empty
    <3>1. Len(q) < Max /\ q = <<>>
      BY <2>1, ShortBuffers, PipeAssumption DEF Empty
    <3>2. q' = Append(q, Eof) /\ notify_not_empty
      BY <2>1, <3>1 DEF CloseWrite, push
    <3>3. q' = <<Eof>>
      BY <3>1, <3>2, ShortBuffers
    <3>4. Stream = <<>> /\ Stream' = <<>>
      BY <1>1, <3>1, <3>3, ShortBuffers DEF Stream, ItemsIn
    <3>5. QED
      BY <3>1, <3>2, <3>4, PushEffect, PipeAssumption
  <2>2. CASE ~Empty
    BY <1>1, <2>2 DEF CloseWrite, Stream
  <2>3. QED
    BY <2>1, <2>2
<1>3. AbstractPipe!ChCloseWrite
  BY <1>1, <1>2 DEF AbstractPipe!ChCloseWrite
<1>4. QED
  BY <1>3 DEF AbstractPipe!ChannelNext

(* Each step of the pipe is a step of the channel, or none.                *)
LEMMA PipeStepRefines ==
  PInv /\ PInv' /\ [PipeNext]_pipeVars
    => [AbstractPipe!ChannelNext]_AbstractPipe!chVars
<1> SUFFICES ASSUME PInv, PInv', [PipeNext]_pipeVars
             PROVE  [AbstractPipe!ChannelNext]_AbstractPipe!chVars
  OBVIOUS
<1>1. CASE ReadUnread
  BY <1>1 DEF ReadUnread, AbstractPipe!ChannelNext, AbstractPipe!ChRead, Stream
<1>2. CASE ReadBuffer
  BY <1>2, ReadBufferRefines
<1>3. CASE ReadEnd
  <2>1. ~writeOpen /\ q = <<>> /\ pending = None
    BY <1>3 DEF ReadEnd, Readable, Empty, PInv
  <2>2. Stream = <<>>
    BY <2>1, ShortBuffers DEF Stream, ItemsIn
  <2>3. AbstractPipe!ChRead
    BY <1>3, <2>1, <2>2 DEF ReadEnd, AbstractPipe!ChRead, Stream
  <2>4. QED
    BY <2>3 DEF AbstractPipe!ChannelNext
<1>4. ASSUME NEW x \in Items, Unread(x)
      PROVE  AbstractPipe!ChannelNext
  <2>1. AbstractPipe!ChUnread(x)
    BY <1>4 DEF Unread, fueueVars, AbstractPipe!ChUnread, Stream
  <2>2. QED
    BY <2>1 DEF AbstractPipe!ChannelNext
<1>5. ASSUME NEW x \in Items, Write(x)
      PROVE  AbstractPipe!ChannelNext
  BY <1>5, WriteRefines
<1>6. CASE CloseRead
  BY <1>6, CloseReadRefines
<1>7. CASE CloseWrite
  BY <1>7, CloseWriteRefines
<1>8. CASE Continue
  <2>1. CASE PopContinues
    <3>1. /\ q # <<>> /\ pop /\ consumer = "woken" /\ consumer' = "idle"
          /\ readOpen
          /\ UNCHANGED <<pending, wrote, readOpen, writeOpen, unreadItem>>
      BY <1>8, <2>1 DEF Continue, PopContinues, PInv, WakeUpsStayTrue
    <3>2. AbstractPipe!ChRead
      BY <3>1, PopIsRead
    <3>3. QED
      BY <3>2 DEF AbstractPipe!ChannelNext
  <2>2. CASE PushContinues
    BY <1>8, <2>2, PushContinuesRefines DEF Continue
  <2>3. CASE PushFails
    <3>1. ~readOpen
      BY <2>3 DEF PushFails, PInv
    <3>2. Stream = <<>> /\ Stream' = <<>>
      BY <1>8, <3>1 DEF Continue, Stream
    <3>3. CASE Visible
      <4>1. AbstractPipe!ChWriteEnds
        BY <1>8, <2>3, <3>1, <3>2, <3>3
           DEF Continue, PushFails, AbstractPipe!ChWriteEnds
      <4>2. QED
        BY <4>1 DEF AbstractPipe!ChannelNext
    <3>4. CASE ~Visible
      BY <1>8, <2>3, <3>2, <3>4
         DEF Continue, PushFails, AbstractPipe!chVars
    <3>5. QED
      BY <3>3, <3>4
  <2>4. QED
    BY <1>8, <2>1, <2>2, <2>3 DEF Continue
<1>9. CASE UNCHANGED pipeVars
  BY <1>9 DEF pipeVars, fueueVars, AbstractPipe!chVars, Stream
<1>10. QED
  BY <1>1, <1>2, <1>3, <1>4, <1>5, <1>6, <1>7, <1>8, <1>9 DEF PipeNext

(* The pipe is a FIFO channel: items come out in the order and as often as *)
(* they went in, end of file comes after the last one, a write fails only  *)
(* when the reader is gone, and no more than Max are acknowledged ahead of *)
(* the reader.                                                             *)
THEOREM PipeRefinement == PipeSpec => ImplementsChannel
<1>1. PipeInit => AbstractPipe!ChannelInit
  BY InitRefines
<1>2. PInv /\ PInv' /\ [PipeNext]_pipeVars
        => [AbstractPipe!ChannelNext]_AbstractPipe!chVars
  BY PipeStepRefines
<1>3. QED
  BY <1>1, <1>2, InvariantHolds, PTL
     DEF PipeSpec, ImplementsChannel, AbstractPipe!ChannelSpec
=============================================================================
