---------------------------- MODULE BufferProofs ----------------------------
(***************************************************************************)
(* Cleaners and buffers, for any actions, any variables and any block      *)
(* length: memory lives as long as an owner of it, and its action runs     *)
(* once.                                                                   *)
(*                                                                         *)
(* The invariant counts owners.  A handle owns an action from a variable,  *)
(* from a view, from an impl that is not deleted, or from the hand of the  *)
(* operation under way (p below).  Every operation is put together from a  *)
(* few moves of a handle: take it out of its place, make or share one, put *)
(* it into a place and release the one that was there.                     *)
(*                                                                         *)
(* The destruction of a chain of impls is a recursion on the heap.  It     *)
(* ends because an impl is older than those whose next it is; what the     *)
(* impls are aged by is part of the invariant, and the least age at which  *)
(* a claim would fail stands for induction.                                *)
(***************************************************************************)
EXTENDS Buffer, FiniteSetTheorems, SequenceTheorems, TLAPS

(* A set of numbers has a smallest one: the sets of numbers below each of  *)
(* them are ordered by inclusion, and finite.                              *)
LEMMA Least ==
    ASSUME NEW L \in Nat, NEW S \in SUBSET (0..L), S # {}
    PROVE  \E i \in S : \A j \in S : i <= j
<1> DEFINE below(n) == 1..n
           A == {below(n) : n \in S}
           All == 1..L
<1>1. IsFiniteSet(All)
  <2>1. 1 \in Int /\ L \in Int
    OBVIOUS
  <2> QED
    BY <2>1, FS_Interval
<1>2. IsWellFoundedOn(StrictSubsetOrdering(All), SUBSET All)
  BY <1>1, FS_StrictSubsetOrderingWellFounded, FS_FiniteSubsetsOfFinite
<1>3. A \subseteq SUBSET All /\ A # {}
  <2>1. \A n \in S : below(n) \subseteq All
    OBVIOUS
  <2> QED
    BY <2>1
<1>4. PICK x \in A : \A y \in A : ~(<<y, x>> \in StrictSubsetOrdering(All))
  <2> HIDE DEF A, All
  <2> QED
    BY <1>2, <1>3, WFMin
<1>5. PICK n \in S : x = below(n)
  BY <1>4
<1>6. ASSUME NEW m \in S, m < n PROVE FALSE
  <2>1. below(m) \subseteq below(n) /\ n \in below(n) /\ n \notin below(m)
    BY <1>6
  <2>2. below(m) \in A /\ below(m) # below(n)
    BY <2>1
  <2> QED
    BY <1>3, <1>4, <1>5, <2>1, <2>2 DEF StrictSubsetOrdering
<1>7. \A m \in S : n <= m
  BY <1>6
<1> QED
  BY <1>7

Impls == [Acts -> [refs : Nat, next : Handles]]

\* A handle that owns action a, and how many of f's handles do.
Names(h, a)      == h \in {RawPtr(a), Counted(a)}
Naming(S, f, a)  == {s \in S : Names(f[s], a)}
HandlesTo(S, f, a) == Cardinality(Naming(S, f, a))
One(h, a)        == IF Names(h, a) THEN 1 ELSE 0

\* The handle an impl holds as long as it is not deleted.
Nexts(impl) == [x \in Acts |-> IF impl[x].refs > 0 THEN impl[x].next ELSE Empty]

\* The owners of a: variables of two kinds, impls, and a temporary p.
Number(impl, S, C, T, B, p, a) ==
    HandlesTo(S, C, a) + HandlesTo(T, B, a) + HandlesTo(Acts, Nexts(impl), a) + One(p, a)
HeldBy(impl, S, C, T, B, p) ==
    {C[s] : s \in S} \cup {B[t] : t \in T} \cup {Nexts(impl)[x] : x \in Acts} \cup {p}

Shapes(impl, ran, S, C, T, B, p) ==
    /\ impl \in Impls /\ ran \in Seq(Acts) /\ p \in Handles
    /\ C \in [S -> Handles] /\ B \in [T -> Handles] /\ IsFiniteSet(S) /\ IsFiniteSet(T)
\* A chain leads from younger impls to older ones.
Aged(impl, k, age) ==
    /\ age \in [Acts -> 0..k]
    /\ \A x \in Acts : impl[x].next.tag = "counted" => age[impl[x].next.act] < age[x]
Acyclic(impl) == \E k \in Nat : \E age : Aged(impl, k, age)

(* What a handle is.                                                       *)
LEMMA HandleKinds ==
    /\ Empty \in Handles /\ Empty.tag = "empty"
    /\ \A a \in Acts : /\ RawPtr(a) \in Handles /\ RawPtr(a).tag = "raw" /\ RawPtr(a).act = a
                       /\ Counted(a) \in Handles /\ Counted(a).tag = "counted" /\ Counted(a).act = a
    /\ \A h \in Handles :
          \/ h = Empty
          \/ h.tag = "raw" /\ h.act \in Acts /\ h = RawPtr(h.act)
          \/ h.tag = "counted" /\ h.act \in Acts /\ h = Counted(h.act)
<1>1. Empty \in Handles /\ Empty.tag = "empty"
  BY DEF Handles, Empty
<1>2. ASSUME NEW a \in Acts
      PROVE  /\ RawPtr(a) \in Handles /\ RawPtr(a).tag = "raw" /\ RawPtr(a).act = a
             /\ Counted(a) \in Handles /\ Counted(a).tag = "counted" /\ Counted(a).act = a
  BY DEF Handles, RawPtr, Counted
<1>3. ASSUME NEW h \in Handles
      PROVE  \/ h = Empty
             \/ h.tag = "raw" /\ h.act \in Acts /\ h = RawPtr(h.act)
             \/ h.tag = "counted" /\ h.act \in Acts /\ h = Counted(h.act)
  <2>1. h = Empty \/ (\E a \in Acts : h = RawPtr(a)) \/ (\E a \in Acts : h = Counted(a))
    BY DEF Handles
  <2> QED
    BY <1>2, <2>1
<1> QED
  BY <1>1, <1>2, <1>3

(* A handle names the action it was made with, and no other.               *)
LEMMA NamesIs ==
    /\ \A a : ~Names(Empty, a)
    /\ \A h \in Handles, a \in Acts : Names(h, a) <=> h # Empty /\ h.act = a
    /\ \A a, b \in Acts : RawPtr(a) # Counted(b) /\ RawPtr(a) # Empty /\ Counted(a) # Empty
<1>1. \A a : ~Names(Empty, a)
  <2>1. \A a : Empty.tag = "empty" /\ RawPtr(a).tag = "raw" /\ Counted(a).tag = "counted"
    BY DEF Empty, RawPtr, Counted
  <2> QED
    BY <2>1 DEF Names
<1>2. \A a, b \in Acts : RawPtr(a) # Counted(b) /\ RawPtr(a) # Empty /\ Counted(a) # Empty
  BY HandleKinds
<1>3. ASSUME NEW h \in Handles, NEW a \in Acts PROVE Names(h, a) <=> h # Empty /\ h.act = a
  BY <1>2, HandleKinds DEF Names
<1> QED
  BY <1>1, <1>2, <1>3

(* Replacing one handle of a finite family changes the count by the two.   *)
LEMMA Recount ==
    ASSUME NEW S, IsFiniteSet(S), NEW f \in [S -> Handles], NEW s \in S, NEW h \in Handles,
           NEW a \in Acts, NEW g, g[s] = h, \A x \in S : x # s => g[x] = f[x]
    PROVE  HandlesTo(S, g, a) + One(f[s], a) = HandlesTo(S, f, a) + One(h, a)
<1> DEFINE F == Naming(S, f, a)
           G == Naming(S, g, a)
           R == F \ {s}
<1>1. R = G \ {s} /\ (s \in F <=> Names(f[s], a)) /\ (s \in G <=> Names(h, a))
  BY DEF Naming
<1>2. F \subseteq S /\ G \subseteq S /\ R \subseteq S
  BY DEF Naming
<1> HIDE DEF F, G
<1>3. IsFiniteSet(F) /\ IsFiniteSet(G) /\ IsFiniteSet(R)
  BY <1>2, FS_Subset
<1>4. Cardinality(F) \in Nat /\ Cardinality(G) \in Nat /\ Cardinality(R) \in Nat
  BY <1>3, FS_CardinalityType
<1>5. Cardinality(R) = IF s \in F THEN Cardinality(F) - 1 ELSE Cardinality(F)
  BY <1>3, FS_RemoveElement
<1>6. Cardinality(R) = IF s \in G THEN Cardinality(G) - 1 ELSE Cardinality(G)
  BY <1>1, <1>3, FS_RemoveElement
<1>7. Cardinality(G) + One(f[s], a) = Cardinality(F) + One(h, a)
  <2> HIDE DEF R
  <2> QED
    BY <1>1, <1>4, <1>5, <1>6 DEF One
<1> QED
  BY <1>7 DEF HandlesTo, F, G

(* The same for the handles of the impls.                                  *)
LEMMA RecountNexts ==
    ASSUME NEW f \in [Acts -> Handles], NEW x \in Acts, NEW h \in Handles, NEW a \in Acts,
           NEW g, g[x] = h, \A y \in Acts : y # x => g[y] = f[y]
    PROVE  HandlesTo(Acts, g, a) + One(f[x], a) = HandlesTo(Acts, f, a) + One(h, a)
<1>1. IsFiniteSet(Acts)
  BY BufferAssumption
<1> QED
  BY <1>1, Recount

(* A count is a number, and 0 if nothing names the action.                 *)
LEMMA CountType ==
    ASSUME NEW S, IsFiniteSet(S), NEW f, NEW a
    PROVE  HandlesTo(S, f, a) \in Nat /\ (HandlesTo(S, f, a) = 0 <=> \A s \in S : ~Names(f[s], a))
<1>1. Naming(S, f, a) \subseteq S
  BY DEF Naming
<1>2. IsFiniteSet(Naming(S, f, a))
  BY <1>1, FS_Subset
<1>3. Cardinality(Naming(S, f, a)) \in Nat
  BY <1>2, FS_CardinalityType
<1>4. Cardinality(Naming(S, f, a)) = 0 <=> Naming(S, f, a) = {}
  BY <1>2, FS_EmptySet
<1> QED
  BY <1>3, <1>4 DEF HandlesTo, Naming

Proper(impl, a) == IF impl[a].refs > 0 THEN Counted(a) ELSE RawPtr(a)
Tally(N, H) == \A a \in Acts : N[a] > 0 <=> \E h \in H : Names(h, a)

\* N: the owners of each action; H: the handles there are.
NumbersRight(impl, N) ==
    \A a \in Acts : /\ impl[a].refs > 0 => N[a] = impl[a].refs
                    /\ impl[a].refs = 0 => N[a] <= 1
GoneForGood(impl, ran, N) ==
    \A a \in ToSet(ran) : N[a] = 0 /\ impl[a].refs = 0
HeldProper(impl, H) == \A h \in H : h # Empty => h = Proper(impl, h.act)
FreshClean(impl, ran, N) ==
    \A a \in Acts : a \notin ToSet(ran) =>
        /\ N[a] = 0 => \A x \in Acts : ~Names(impl[x].next, a)
        /\ impl[a].refs = 0 => impl[a].next = Empty
ChainOrder(impl, ran) ==
    \A i, j \in DOMAIN ran : Names(impl[ran[i]].next, ran[j]) => i < j
Sound(impl, ran, N, H) ==
    /\ NumbersRight(impl, N) /\ GoneForGood(impl, ran, N) /\ HeldProper(impl, H)
    /\ FreshClean(impl, ran, N) /\ ChainOrder(impl, ran) /\ IsInjective(ran)
    /\ Acyclic(impl)
Typed(impl, ran, N, H) ==
    /\ impl \in Impls /\ ran \in Seq(Acts) /\ N \in [Acts -> Nat] /\ H \subseteq Handles
    /\ Tally(N, H) /\ \A x \in Acts : Nexts(impl)[x] \in H

RanNow(impl, ran, a, r) ==
    /\ r \in Seq(Acts) /\ ToSet(r) = ToSet(ran) \cup {a}
    /\ IsInjective(r) /\ ChainOrder(impl, r)

(* An action that runs now was not run before, and nothing run before was  *)
(* chained behind it.                                                      *)
LEMMA RunAppend ==
    ASSUME NEW impl \in Impls, NEW ran \in Seq(Acts), NEW a \in Acts, a \notin ToSet(ran),
           IsInjective(ran), ChainOrder(impl, ran), ~Names(impl[a].next, a),
           \A b \in ToSet(ran) : ~Names(impl[a].next, b), NEW r, r = Append(ran, a)
    PROVE  RanNow(impl, ran, a, r)
<1> DEFINE n == Len(ran)
<1>1. n \in Nat /\ DOMAIN ran = 1..n /\ DOMAIN r = 1..(n + 1) /\ r \in Seq(Acts)
  OBVIOUS
<1>2. r[n + 1] = a /\ \A i \in 1..n : r[i] = ran[i]
  OBVIOUS
<1>3. \A i \in 1..(n + 1) : i \in 1..n \/ i = n + 1
  <2> HIDE DEF n
  <2> QED
    BY <1>1
<1>4. \A i \in 1..n : i \in 1..(n + 1) /\ i < n + 1 /\ i # n + 1 /\ ran[i] \in ToSet(ran)
  <2>1. \A i \in 1..n : ran[i] \in ToSet(ran)
    BY <1>1 DEF ToSet
  <2> HIDE DEF n
  <2> QED
    BY <1>1, <2>1
<1>5. n + 1 \in 1..(n + 1)
  <2> HIDE DEF n
  <2> QED
    BY <1>1
<1>6. ToSet(r) = ToSet(ran) \cup {a}
  <2> HIDE DEF n
  <2>1. \A b : b \in ToSet(r) <=> \E i \in 1..(n + 1) : b = r[i]
    BY <1>1 DEF ToSet
  <2>2. \A b : b \in ToSet(ran) <=> \E i \in 1..n : b = ran[i]
    BY <1>1 DEF ToSet
  <2> QED
    BY <1>2, <1>3, <1>4, <1>5, <2>1, <2>2
<1>7. IsInjective(r)
  <2> HIDE DEF n
  <2>1. \A i, j \in 1..n : ran[i] = ran[j] => i = j
    BY <1>1 DEF IsInjective
  <2> QED
    BY <1>1, <1>2, <1>3, <1>4, <2>1 DEF IsInjective
<1>8. ChainOrder(impl, r)
  <2> HIDE DEF n
  <2>1. \A i, j \in 1..n : Names(impl[ran[i]].next, ran[j]) => i < j
    BY <1>1 DEF ChainOrder
  <2> SUFFICES ASSUME NEW i \in 1..(n + 1), NEW j \in 1..(n + 1), Names(impl[r[i]].next, r[j])
               PROVE  i < j
    BY <1>1 DEF ChainOrder
  <2>2. CASE i \in 1..n /\ j \in 1..n
    BY <1>2, <2>1, <2>2
  <2>3. CASE i = n + 1
    BY <1>2, <1>3, <1>4, <2>3
  <2>4. CASE i \in 1..n /\ j = n + 1
    BY <1>4, <2>4
  <2> QED
    BY <1>3, <2>2, <2>3, <2>4
<1> QED
  BY <1>1, <1>6, <1>7, <1>8 DEF RanNow

(* Nothing of the order or of the ages depends on the counts.              *)
LEMMA NextsDecide ==
    ASSUME NEW impl, NEW new, \A x \in Acts : new[x].next = impl[x].next
    PROVE  /\ Acyclic(impl) => Acyclic(new)
           /\ \A ran \in Seq(Acts) : ChainOrder(impl, ran) => ChainOrder(new, ran)
           /\ \A k, age : Aged(impl, k, age) => Aged(new, k, age)
<1>1. \A k, age : Aged(impl, k, age) => Aged(new, k, age)
  BY DEF Aged
<1>2. Acyclic(impl) => Acyclic(new)
  BY <1>1 DEF Acyclic
<1>3. ASSUME NEW ran \in Seq(Acts), ChainOrder(impl, ran)
      PROVE  ChainOrder(new, ran)
  <2>1. \A i \in DOMAIN ran : ran[i] \in Acts
    OBVIOUS
  <2> QED
    BY <1>3, <2>1 DEF ChainOrder
<1> QED
  BY <1>1, <1>2, <1>3

(* No impl is chained before itself.                                       *)
LEMMA NotItself ==
    ASSUME NEW impl \in Impls, Acyclic(impl), NEW a \in Acts, impl[a].next # RawPtr(a)
    PROVE  ~Names(impl[a].next, a)
<1>1. PICK k, age : k \in Nat /\ Aged(impl, k, age)
  BY DEF Acyclic
<1>2. SUFFICES ASSUME impl[a].next = Counted(a) PROVE FALSE
  BY DEF Names
<1>3. age[a] < age[a]
  BY <1>1, <1>2, HandleKinds DEF Aged
<1>4. age[a] \in Nat
  BY <1>1 DEF Aged
<1> QED
  BY <1>3, <1>4

(* Handles that only change hands: the same counts.                        *)
LEMMA SameCounts ==
    ASSUME NEW impl, NEW ran, NEW N, NEW H, NEW G, Typed(impl, ran, N, H),
           Sound(impl, ran, N, H), G \subseteq H \cup {Empty}
    PROVE  Sound(impl, ran, N, G)
BY DEF Sound, HeldProper

(* The one owner of a raw pointer goes: the action runs.                   *)
LEMMA LoseRaw ==
    ASSUME NEW impl, NEW ran, NEW N, NEW H, Typed(impl, ran, N, H), Sound(impl, ran, N, H),
           NEW a \in Acts, RawPtr(a) \in H,
           NEW M, NEW G, NEW r, M = [N EXCEPT ![a] = @ - 1], r = Append(ran, a),
           Typed(impl, r, M, G), G \subseteq H \cup {Empty}
    PROVE  Sound(impl, r, M, G)
<1>1. impl[a].refs \in Nat /\ N[a] \in Nat
  BY DEF Typed, Impls
<1>2. Proper(impl, a) = RawPtr(a)
  BY NamesIs, HandleKinds DEF Sound, HeldProper
<1>3. impl[a].refs = 0
  BY <1>1, <1>2, NamesIs DEF Proper
<1>4. N[a] > 0
  BY DEF Typed, Tally, Names
<1>5. N[a] = 1 /\ a \notin ToSet(ran)
  BY <1>1, <1>3, <1>4 DEF Sound, NumbersRight, GoneForGood
<1>6. impl[a].next = Empty
  BY <1>3, <1>5 DEF Sound, FreshClean
<1>7. M[a] = 0 /\ \A b \in Acts : b # a => M[b] = N[b]
  BY <1>5 DEF Typed
<1>8. /\ ToSet(r) = ToSet(ran) \cup {a} /\ IsInjective(r) /\ ChainOrder(impl, r)
  <2>1. \A b : ~Names(impl[a].next, b)
    BY <1>6, NamesIs
  <2>2. IsInjective(ran) /\ ChainOrder(impl, ran) /\ ran \in Seq(Acts) /\ impl \in Impls
    BY DEF Typed, Sound
  <2>3. RanNow(impl, ran, a, r)
    BY <1>5, <2>1, <2>2, RunAppend
  <2> QED
    BY <2>3 DEF RanNow
<1>9. \A b \in ToSet(ran) : b \in Acts
  BY DEF Typed, ToSet
<1>10. NumbersRight(impl, M)
  BY <1>3, <1>7 DEF Sound, NumbersRight
<1>11. GoneForGood(impl, r, M)
  BY <1>3, <1>7, <1>8, <1>9 DEF Sound, GoneForGood
<1>12. HeldProper(impl, G)
  BY DEF Sound, HeldProper
<1>13. FreshClean(impl, r, M)
  BY <1>7, <1>8 DEF Sound, FreshClean
<1> QED
  BY <1>8, <1>10, <1>11, <1>12, <1>13 DEF Sound

(* An impl that keeps owners loses one.                                    *)
LEMMA LoseOne ==
    ASSUME NEW impl, NEW ran, NEW N, NEW H, Typed(impl, ran, N, H), Sound(impl, ran, N, H),
           NEW a \in Acts, impl[a].refs > 1,
           NEW M, NEW G, NEW new, M = [N EXCEPT ![a] = @ - 1],
           new = [impl EXCEPT ![a] = [refs |-> impl[a].refs - 1, next |-> impl[a].next]],
           Typed(new, ran, M, G), G \subseteq H \cup {Empty}
    PROVE  Sound(new, ran, M, G)
<1>1. impl[a].refs \in Nat /\ N[a] \in Nat
  BY DEF Typed, Impls
<1>2. new[a].refs = impl[a].refs - 1 /\ new[a].refs > 0 /\ impl[a].refs > 0
  BY <1>1 DEF Typed, Impls
<1>3. \A b \in Acts : b # a => new[b] = impl[b] /\ M[b] = N[b]
  BY DEF Typed, Impls
<1>4. N[a] = impl[a].refs
  BY <1>2 DEF Sound, NumbersRight
<1>5. M[a] = N[a] - 1 /\ M[a] = new[a].refs /\ M[a] # 0 /\ N[a] # 0 /\ new[a].refs # 0
  BY <1>1, <1>2, <1>4 DEF Typed
<1>6. \A b \in Acts : new[b].next = impl[b].next
  BY <1>3 DEF Typed, Impls
<1>7. Acyclic(new) /\ ChainOrder(new, ran) /\ IsInjective(ran)
  BY <1>6, NextsDecide DEF Sound, Typed
<1>8. NumbersRight(new, M)
  <2>1. \A b \in Acts : b # a => /\ new[b].refs > 0 => M[b] = new[b].refs
                                 /\ new[b].refs = 0 => M[b] <= 1
    BY <1>3 DEF Sound, NumbersRight
  <2>2. /\ new[a].refs > 0 => M[a] = new[a].refs
        /\ new[a].refs = 0 => M[a] <= 1
    BY <1>5
  <2> QED
    BY <2>1, <2>2 DEF NumbersRight
<1>9. GoneForGood(new, ran, M)
  <2>1. \A b \in ToSet(ran) : b \in Acts /\ N[b] = 0 /\ impl[b].refs = 0
    BY DEF Typed, ToSet, Sound, GoneForGood
  <2> QED
    BY <1>3, <1>5, <2>1 DEF GoneForGood
<1>10. HeldProper(new, G)
  <2>1. \A b \in Acts : Proper(new, b) = Proper(impl, b)
    BY <1>2, <1>3 DEF Proper
  <2>2. \A h \in G : h # Empty => h.act \in Acts
    BY HandleKinds DEF Typed
  <2> QED
    BY <2>1, <2>2 DEF Sound, HeldProper
<1>11. FreshClean(new, ran, M)
  BY <1>3, <1>5, <1>6 DEF Sound, FreshClean
<1> QED
  BY <1>7, <1>8, <1>9, <1>10, <1>11 DEF Sound

(* The last owner of an impl goes: its action runs, and what it held next  *)
(* is held by nobody but the destructor.                                   *)
LEMMA LoseLast ==
    ASSUME NEW impl, NEW ran, NEW N, NEW H, Typed(impl, ran, N, H), Sound(impl, ran, N, H),
           NEW a \in Acts, impl[a].refs = 1,
           NEW M, NEW G, NEW new, NEW r, M = [N EXCEPT ![a] = @ - 1], r = Append(ran, a),
           new = [impl EXCEPT ![a] = [refs |-> 0, next |-> impl[a].next]],
           Typed(new, r, M, G), G \subseteq H \cup {Empty}
    PROVE  Sound(new, r, M, G)
<1>1. impl[a].refs > 0 /\ N[a] = 1
  <2>1. impl[a].refs > 0
    OBVIOUS
  <2> QED
    BY <2>1 DEF Sound, NumbersRight
<1>2. new[a].refs = 0 /\ M[a] = 0 /\ a \notin ToSet(ran)
  <2>1. a \notin ToSet(ran)
    BY <1>1 DEF Sound, GoneForGood
  <2> QED
    BY <1>1, <2>1 DEF Typed, Impls
<1>3. \A b \in Acts : b # a => new[b] = impl[b] /\ M[b] = N[b]
  BY DEF Typed, Impls
<1>4. \A b \in Acts : new[b].next = impl[b].next
  BY <1>3 DEF Typed, Impls
<1>5. impl[a].next \in H
  BY <1>1 DEF Typed, Nexts
<1>6. \A b \in ToSet(ran) : b \in Acts /\ N[b] = 0 /\ impl[b].refs = 0
  BY DEF Typed, ToSet, Sound, GoneForGood
<1>7. \A b \in ToSet(ran) : ~Names(impl[a].next, b)
  BY SMTT(30), <1>5, <1>6 DEF Typed, Tally
<1>8. impl[a].next # RawPtr(a)
  <2>1. SUFFICES ASSUME impl[a].next = RawPtr(a) PROVE FALSE
    OBVIOUS
  <2>2. RawPtr(a) = Proper(impl, a)
    BY <1>5, <2>1, HandleKinds, NamesIs DEF Sound, HeldProper
  <2> QED
    BY <1>1, <2>2, NamesIs DEF Proper
<1>9. /\ ToSet(r) = ToSet(ran) \cup {a} /\ IsInjective(r) /\ ChainOrder(impl, r)
  <2>1. ~Names(impl[a].next, a)
    BY <1>8, NotItself DEF Typed, Sound
  <2>2. IsInjective(ran) /\ ChainOrder(impl, ran) /\ ran \in Seq(Acts) /\ impl \in Impls
    BY DEF Typed, Sound
  <2>3. RanNow(impl, ran, a, r)
    BY <1>2, <1>7, <2>1, <2>2, RunAppend
  <2> QED
    BY <2>3 DEF RanNow
<1>10. Acyclic(new) /\ ChainOrder(new, r)
  <2>1. r \in Seq(Acts) /\ Acyclic(impl)
    BY DEF Typed, Sound
  <2> QED
    BY <1>4, <1>9, <2>1, NextsDecide
<1>11. NumbersRight(new, M)
  <2>1. \A b \in Acts : b # a => /\ new[b].refs > 0 => M[b] = new[b].refs
                                 /\ new[b].refs = 0 => M[b] <= 1
    BY <1>3 DEF Sound, NumbersRight
  <2>2. /\ new[a].refs > 0 => M[a] = new[a].refs
        /\ new[a].refs = 0 => M[a] <= 1
    BY <1>2
  <2> QED
    BY <2>1, <2>2 DEF NumbersRight
<1>12. GoneForGood(new, r, M)
  BY <1>2, <1>3, <1>6, <1>9 DEF GoneForGood
<1>13. HeldProper(new, G)
  <2> SUFFICES ASSUME NEW h \in G, h # Empty PROVE h = Proper(new, h.act)
    BY DEF HeldProper
  <2>1. h.act \in Acts /\ Names(h, h.act) /\ h = Proper(impl, h.act)
    BY HandleKinds, NamesIs DEF Typed, Sound, HeldProper
  <2>2. M[h.act] > 0
    BY <2>1 DEF Typed, Tally
  <2>3. h.act # a
    BY <1>2, <2>2
  <2> QED
    BY <1>3, <2>1, <2>3 DEF Proper
<1>14. FreshClean(new, r, M)
  BY <1>3, <1>4, <1>9 DEF Sound, FreshClean
<1> QED
  BY <1>9, <1>10, <1>11, <1>12, <1>13, <1>14 DEF Sound

(* A new action with a raw pointer that is not placed yet.                 *)
LEMMA GainRaw ==
    ASSUME NEW impl, NEW ran, NEW N, NEW H, Typed(impl, ran, N, H), Sound(impl, ran, N, H),
           NEW a \in Acts, a \notin ToSet(ran), N[a] = 0, impl[a].refs = 0,
           NEW M, NEW G, M = [N EXCEPT ![a] = @ + 1],
           Typed(impl, ran, M, G), G \subseteq H \cup {RawPtr(a)}
    PROVE  Sound(impl, ran, M, G)
<1>1. M[a] = 1 /\ \A b \in Acts : b # a => M[b] = N[b]
  BY DEF Typed
<1>2. NumbersRight(impl, M)
  BY <1>1 DEF Sound, NumbersRight
<1>3. \A b \in ToSet(ran) : b \in Acts
  BY DEF Typed, ToSet
<1>4. GoneForGood(impl, ran, M)
  BY <1>1, <1>3 DEF Sound, GoneForGood
<1>5. Proper(impl, a) = RawPtr(a) /\ RawPtr(a).act = a
  BY HandleKinds DEF Proper
<1>6. HeldProper(impl, G)
  BY <1>5 DEF Sound, HeldProper
<1>7. FreshClean(impl, ran, M)
  BY <1>1 DEF Sound, FreshClean
<1> QED
  BY <1>2, <1>4, <1>6, <1>7 DEF Sound

(* A new owner of an impl.                                                 *)
LEMMA GainOne ==
    ASSUME NEW impl, NEW ran, NEW N, NEW H, Typed(impl, ran, N, H), Sound(impl, ran, N, H),
           NEW a \in Acts, impl[a].refs > 0,
           NEW M, NEW G, NEW new, M = [N EXCEPT ![a] = @ + 1],
           new = [impl EXCEPT ![a] = [refs |-> impl[a].refs + 1, next |-> impl[a].next]],
           Typed(new, ran, M, G), G \subseteq H \cup {Counted(a)}
    PROVE  Sound(new, ran, M, G)
<1>1. impl[a].refs \in Nat /\ N[a] \in Nat
  BY DEF Typed, Impls
<1>2. new[a].refs = impl[a].refs + 1 /\ new[a].refs > 0
  BY <1>1 DEF Typed, Impls
<1>3. \A b \in Acts : b # a => new[b] = impl[b] /\ M[b] = N[b]
  BY DEF Typed, Impls
<1>4. N[a] = impl[a].refs
  BY DEF Sound, NumbersRight
<1>5. M[a] = N[a] + 1 /\ M[a] = new[a].refs /\ M[a] # 0 /\ N[a] # 0 /\ new[a].refs # 0
  BY <1>1, <1>2, <1>4 DEF Typed
<1>6. \A b \in Acts : new[b].next = impl[b].next
  BY <1>3 DEF Typed, Impls
<1>7. Acyclic(new) /\ ChainOrder(new, ran) /\ IsInjective(ran)
  BY <1>6, NextsDecide DEF Sound, Typed
<1>8. NumbersRight(new, M)
  <2>1. \A b \in Acts : b # a => /\ new[b].refs > 0 => M[b] = new[b].refs
                                 /\ new[b].refs = 0 => M[b] <= 1
    BY <1>3 DEF Sound, NumbersRight
  <2>2. /\ new[a].refs > 0 => M[a] = new[a].refs
        /\ new[a].refs = 0 => M[a] <= 1
    BY <1>5
  <2> QED
    BY <2>1, <2>2 DEF NumbersRight
<1>9. GoneForGood(new, ran, M)
  <2>1. \A b \in ToSet(ran) : b \in Acts /\ N[b] = 0 /\ impl[b].refs = 0
    BY DEF Typed, ToSet, Sound, GoneForGood
  <2> QED
    BY <1>3, <1>5, <2>1 DEF GoneForGood
<1>10. HeldProper(new, G)
  <2>1. \A b \in Acts : Proper(new, b) = Proper(impl, b)
    BY <1>2, <1>3 DEF Proper
  <2>2. \A h \in G : h # Empty => h.act \in Acts
    BY HandleKinds DEF Typed
  <2>3. Proper(impl, a) = Counted(a) /\ Counted(a).act = a
    BY HandleKinds DEF Proper
  <2> QED
    BY <2>1, <2>2, <2>3 DEF Sound, HeldProper
<1>11. FreshClean(new, ran, M)
  BY <1>3, <1>5, <1>6 DEF Sound, FreshClean
<1> QED
  BY <1>7, <1>8, <1>9, <1>10, <1>11 DEF Sound

(* An impl for action a is new: nothing is held for a, and next, which it  *)
(* takes over, was made before.                                            *)
LEMMA GainImpl ==
    ASSUME NEW impl, NEW ran, NEW N, NEW H, Typed(impl, ran, N, H), Sound(impl, ran, N, H),
           NEW a \in Acts, a \notin ToSet(ran), N[a] = 0, impl[a].refs = 0,
           NEW h \in H,
           NEW M, NEW G, NEW new, M = [N EXCEPT ![a] = @ + 1],
           new = [impl EXCEPT ![a] = [refs |-> 1, next |-> h]],
           Typed(new, ran, M, G), G \subseteq H \cup {Counted(a), Empty}
    PROVE  Sound(new, ran, M, G)
<1>1. impl[a].refs \in Nat /\ N[a] \in Nat /\ h \in Handles
  BY DEF Typed, Impls
<1>2. new[a].refs = 1 /\ new[a].refs > 0 /\ new[a].refs # 0 /\ new[a].next = h
  BY <1>1 DEF Typed, Impls
<1>3. \A b \in Acts : b # a => new[b] = impl[b] /\ M[b] = N[b]
  BY DEF Typed, Impls
<1>4. M[a] = 1
  BY DEF Typed
<1>5. \A b : Names(h, b) => b \in Acts /\ N[b] > 0
  <2>1. \A b \in Acts : Names(h, b) => N[b] > 0
    BY DEF Typed, Tally
  <2>2. ASSUME NEW b, Names(h, b) PROVE b \in Acts
    <3>1. h # Empty
      BY <2>2, NamesIs
    <3>2. h.act \in Acts /\ (h = RawPtr(h.act) \/ h = Counted(h.act))
      BY <1>1, <3>1, HandleKinds
    <3>3. h.act = b
      BY <2>2 DEF Names, RawPtr, Counted
    <3> QED
      BY <3>2, <3>3
  <2> QED
    BY <2>1, <2>2
<1>6. ~Names(h, a)
  BY <1>5
<1>7. Acyclic(new)
  <2>1. PICK k, age : k \in Nat /\ Aged(impl, k, age)
    BY DEF Acyclic, Sound
  <2> DEFINE young == [age EXCEPT ![a] = k + 1]
             l == k + 1
  <2>2. l \in Nat /\ \A n \in 0..k : n \in 0..l /\ n < l
    BY <2>1
  <2>3. young \in [Acts -> 0..l]
    BY <2>1, <2>2 DEF Aged
  <2>4. young[a] = l /\ \A b \in Acts : b # a => young[b] = age[b]
    BY <2>1 DEF Aged
  <2> HIDE DEF young, l
  <2>5. ASSUME NEW x \in Acts, new[x].next.tag = "counted"
        PROVE  young[new[x].next.act] < young[x]
    <3>1. new[x].next \in Handles
      BY DEF Typed, Impls
    <3> DEFINE y == new[x].next.act
    <3>2. y \in Acts /\ Names(new[x].next, y)
      BY <2>5, <3>1, HandleKinds, NamesIs
    <3>3. y # a
      <4>1. CASE x = a
        BY <1>2, <1>6, <3>2, <4>1
      <4>2. CASE x # a
        <5>1. \A z \in Acts : ~Names(impl[z].next, a)
          BY DEF Sound, FreshClean
        <5> QED
          BY <1>3, <3>2, <4>2, <5>1
      <4> QED
        BY <4>1, <4>2
    <3>4. young[y] = age[y] /\ age[y] \in 0..k
      BY <2>1, <2>4, <3>2, <3>3 DEF Aged
    <3>5. CASE x = a
      BY <2>2, <2>4, <3>4, <3>5
    <3>6. CASE x # a
      <4>1. impl[x].next = new[x].next
        BY <1>3, <3>6
      <4>2. age[y] < age[x]
        BY <2>1, <2>5, <4>1 DEF Aged
      <4> QED
        BY <2>4, <3>4, <3>6, <4>2
    <3> QED
      BY <3>5, <3>6
  <2>6. Aged(new, l, young)
    BY <2>3, <2>5 DEF Aged
  <2> QED
    BY <2>2, <2>6 DEF Acyclic
<1>8. \A b \in ToSet(ran) : b \in Acts /\ b # a /\ N[b] = 0 /\ impl[b].refs = 0
  BY DEF Typed, ToSet, Sound, GoneForGood
<1>9. ChainOrder(new, ran) /\ IsInjective(ran)
  <2>1. \A i \in DOMAIN ran : new[ran[i]] = impl[ran[i]]
    BY <1>3, <1>8 DEF ToSet
  <2> QED
    BY <2>1 DEF Sound, ChainOrder
<1>10. NumbersRight(new, M)
  <2>1. \A b \in Acts : b # a => /\ new[b].refs > 0 => M[b] = new[b].refs
                                 /\ new[b].refs = 0 => M[b] <= 1
    BY <1>3 DEF Sound, NumbersRight
  <2>2. /\ new[a].refs > 0 => M[a] = new[a].refs
        /\ new[a].refs = 0 => M[a] <= 1
    BY <1>2, <1>4
  <2> QED
    BY <2>1, <2>2 DEF NumbersRight
<1>11. GoneForGood(new, ran, M)
  BY <1>3, <1>8 DEF GoneForGood
<1>12. HeldProper(new, G)
  <2> SUFFICES ASSUME NEW g \in G, g # Empty PROVE g = Proper(new, g.act)
    BY DEF HeldProper
  <2>1. CASE g = Counted(a)
    BY <1>2, <2>1, HandleKinds DEF Proper
  <2>2. CASE g \in H
    <3>1. g.act \in Acts /\ Names(g, g.act) /\ g = Proper(impl, g.act)
      BY <2>2, HandleKinds, NamesIs DEF Typed, Sound, HeldProper
    <3>2. N[g.act] > 0
      BY <2>2, <3>1 DEF Typed, Tally
    <3>3. g.act # a
      BY <3>2
    <3> QED
      BY <1>3, <3>1, <3>3 DEF Proper
  <2> QED
    BY <2>1, <2>2
<1>13. FreshClean(new, ran, M)
  <2> SUFFICES ASSUME NEW b \in Acts, b \notin ToSet(ran)
               PROVE  /\ M[b] = 0 => \A x \in Acts : ~Names(new[x].next, b)
                      /\ new[b].refs = 0 => new[b].next = Empty
    BY DEF FreshClean
  <2>1. CASE b = a
    BY <1>2, <1>4, <2>1
  <2>2. CASE b # a
    <3>1. M[b] = N[b] /\ new[b] = impl[b]
      BY <1>3, <2>2
    <3>2. ASSUME M[b] = 0, NEW x \in Acts PROVE ~Names(new[x].next, b)
      <4>1. ~Names(h, b)
        BY <1>5, <3>1, <3>2
      <4>2. ~Names(impl[x].next, b)
        BY <3>1, <3>2 DEF Sound, FreshClean
      <4> QED
        BY <1>2, <1>3, <4>1, <4>2
    <3>3. impl[b].refs = 0 => impl[b].next = Empty
      BY DEF Sound, FreshClean
    <3> QED
      BY <3>1, <3>2, <3>3
  <2> QED
    BY <2>1, <2>2
<1> QED
  BY <1>7, <1>9, <1>10, <1>11, <1>12, <1>13 DEF Sound

(* share() of a raw pointer makes an impl for it; nothing else held it.    *)
LEMMA Promote ==
    ASSUME NEW impl, NEW ran, NEW N, NEW H, Typed(impl, ran, N, H), Sound(impl, ran, N, H),
           NEW a \in Acts, RawPtr(a) \in H,
           NEW G, NEW new, new = [impl EXCEPT ![a] = [refs |-> 1, next |-> Empty]],
           Typed(new, ran, N, G), G \subseteq H \cup {Counted(a)}, RawPtr(a) \notin G
    PROVE  Sound(new, ran, N, G)
<1>1. impl[a].refs \in Nat /\ N[a] \in Nat
  BY DEF Typed, Impls
<1>2. Proper(impl, a) = RawPtr(a)
  BY NamesIs, HandleKinds DEF Sound, HeldProper
<1>3. impl[a].refs = 0
  BY <1>1, <1>2, NamesIs DEF Proper
<1>4. N[a] > 0
  BY DEF Typed, Tally, Names
<1>5. N[a] = 1 /\ a \notin ToSet(ran)
  BY <1>1, <1>3, <1>4 DEF Sound, NumbersRight, GoneForGood
<1>6. impl[a].next = Empty
  BY <1>3, <1>5 DEF Sound, FreshClean
<1>7. new[a].refs = 1 /\ new[a].refs > 0 /\ new[a].refs # 0 /\ new[a].next = Empty
  BY DEF Typed, Impls
<1>8. \A b \in Acts : b # a => new[b] = impl[b]
  BY DEF Typed, Impls
<1>9. \A b \in Acts : new[b].next = impl[b].next
  BY <1>6, <1>7, <1>8
<1>10. Acyclic(new) /\ ChainOrder(new, ran) /\ IsInjective(ran)
  BY <1>9, NextsDecide DEF Sound, Typed
<1>11. NumbersRight(new, N)
  <2>1. \A b \in Acts : b # a => /\ new[b].refs > 0 => N[b] = new[b].refs
                                 /\ new[b].refs = 0 => N[b] <= 1
    BY <1>8 DEF Sound, NumbersRight
  <2>2. /\ new[a].refs > 0 => N[a] = new[a].refs
        /\ new[a].refs = 0 => N[a] <= 1
    BY <1>5, <1>7
  <2> QED
    BY <2>1, <2>2 DEF NumbersRight
<1>12. GoneForGood(new, ran, N)
  <2>1. \A b \in ToSet(ran) : b \in Acts /\ b # a /\ N[b] = 0 /\ impl[b].refs = 0
    BY <1>5 DEF Typed, ToSet, Sound, GoneForGood
  <2> QED
    BY <1>8, <2>1 DEF GoneForGood
<1>13. HeldProper(new, G)
  <2> SUFFICES ASSUME NEW g \in G, g # Empty PROVE g = Proper(new, g.act)
    BY DEF HeldProper
  <2>1. CASE g = Counted(a)
    BY <1>7, <2>1, HandleKinds DEF Proper
  <2>2. CASE g \in H
    <3>1. g.act \in Acts /\ g = Proper(impl, g.act)
      BY <2>2, HandleKinds DEF Typed, Sound, HeldProper
    <3>2. g.act # a
      BY <1>2, <3>1
    <3> QED
      BY <1>8, <3>1, <3>2 DEF Proper
  <2> QED
    BY <2>1, <2>2
<1>14. FreshClean(new, ran, N)
  BY <1>7, <1>8, <1>9 DEF Sound, FreshClean
<1> QED
  BY <1>10, <1>11, <1>12, <1>13, <1>14 DEF Sound

NumberOf(impl, S, C, T, B, p) == [a \in Acts |-> Number(impl, S, C, T, B, p, a)]
Good(impl, ran, S, C, T, B, p) ==
    /\ Shapes(impl, ran, S, C, T, B, p)
    /\ Sound(impl, ran, NumberOf(impl, S, C, T, B, p), HeldBy(impl, S, C, T, B, p))

(* The counts and the handles held fit each other.                         *)
LEMMA TypedIs ==
    ASSUME NEW impl, NEW ran, NEW S, NEW C, NEW T, NEW B, NEW p,
           Shapes(impl, ran, S, C, T, B, p)
    PROVE  /\ Typed(impl, ran, NumberOf(impl, S, C, T, B, p), HeldBy(impl, S, C, T, B, p))
           /\ Nexts(impl) \in [Acts -> Handles]
           /\ \A a \in Acts : /\ HandlesTo(S, C, a) \in Nat /\ HandlesTo(T, B, a) \in Nat
                              /\ HandlesTo(Acts, Nexts(impl), a) \in Nat
           /\ \A h, a : One(h, a) \in {0, 1}
<1>1. IsFiniteSet(S) /\ IsFiniteSet(T) /\ IsFiniteSet(Acts)
  BY BufferAssumption DEF Shapes
<1>2. Nexts(impl) \in [Acts -> Handles]
  BY HandleKinds DEF Shapes, Nexts, Impls
<1>3. HeldBy(impl, S, C, T, B, p) \subseteq Handles
  BY <1>2 DEF Shapes, HeldBy
<1>4. \A h, a : One(h, a) \in {0, 1} /\ (One(h, a) = 0 <=> ~Names(h, a))
  BY DEF One
<1>5. ASSUME NEW a \in Acts
      PROVE  /\ HandlesTo(S, C, a) \in Nat /\ HandlesTo(T, B, a) \in Nat
             /\ HandlesTo(Acts, Nexts(impl), a) \in Nat
             /\ Number(impl, S, C, T, B, p, a) \in Nat
             /\ Number(impl, S, C, T, B, p, a) > 0
                   <=> \E h \in HeldBy(impl, S, C, T, B, p) : Names(h, a)
  <2> DEFINE u == HandlesTo(S, C, a)
             v == HandlesTo(T, B, a)
             w == HandlesTo(Acts, Nexts(impl), a)
             o == One(p, a)
  <2>1. u \in Nat /\ (u = 0 <=> \A s \in S : ~Names(C[s], a))
    BY <1>1, CountType
  <2>2. v \in Nat /\ (v = 0 <=> \A t \in T : ~Names(B[t], a))
    BY <1>1, CountType
  <2>3. w \in Nat /\ (w = 0 <=> \A x \in Acts : ~Names(Nexts(impl)[x], a))
    BY <1>1, CountType
  <2>4. o \in {0, 1} /\ (o = 0 <=> ~Names(p, a))
    BY <1>4
  <2>5. Number(impl, S, C, T, B, p, a) = u + v + w + o
    BY DEF Number
  <2> HIDE DEF u, v, w, o
  <2>6. /\ u + v + w + o \in Nat
        /\ (u + v + w + o > 0 <=> ~(u = 0 /\ v = 0 /\ w = 0 /\ o = 0))
    BY <2>1, <2>2, <2>3, <2>4
  <2>7. (\E h \in HeldBy(impl, S, C, T, B, p) : Names(h, a))
          <=> \/ \E s \in S : Names(C[s], a)
              \/ \E t \in T : Names(B[t], a)
              \/ \E x \in Acts : Names(Nexts(impl)[x], a)
              \/ Names(p, a)
    BY DEF HeldBy
  <2>8. ~(u = 0 /\ v = 0 /\ w = 0 /\ o = 0)
          <=> \/ \E s \in S : Names(C[s], a)
              \/ \E t \in T : Names(B[t], a)
              \/ \E x \in Acts : Names(Nexts(impl)[x], a)
              \/ Names(p, a)
    BY <2>1, <2>2, <2>3, <2>4
  <2>9. u \in Nat /\ v \in Nat /\ w \in Nat
    BY <2>1, <2>2, <2>3
  <2>10. Number(impl, S, C, T, B, p, a) \in Nat
    BY <2>5, <2>6
  <2>11. Number(impl, S, C, T, B, p, a) > 0
                   <=> \E h \in HeldBy(impl, S, C, T, B, p) : Names(h, a)
    BY <2>5, <2>6, <2>7, <2>8
  <2> QED
    BY <2>9, <2>10, <2>11 DEF u, v, w
<1>6. NumberOf(impl, S, C, T, B, p) \in [Acts -> Nat]
  BY <1>5 DEF NumberOf
<1>7. Tally(NumberOf(impl, S, C, T, B, p), HeldBy(impl, S, C, T, B, p))
  <2>1. \A a \in Acts : NumberOf(impl, S, C, T, B, p)[a] = Number(impl, S, C, T, B, p, a)
    BY DEF NumberOf
  <2> QED
    BY <1>5, <2>1 DEF Tally
<1>8. \A x \in Acts : Nexts(impl)[x] \in HeldBy(impl, S, C, T, B, p)
  BY DEF HeldBy
<1>9. Typed(impl, ran, NumberOf(impl, S, C, T, B, p), HeldBy(impl, S, C, T, B, p))
  BY <1>3, <1>6, <1>7, <1>8 DEF Typed, Shapes
<1> QED
  BY <1>2, <1>4, <1>5, <1>9

(* The counts after a change that concerns one action.                     *)
LEMMA OneLess ==
    ASSUME NEW N \in [Acts -> Nat], NEW M \in [Acts -> Nat], NEW a \in Acts,
           \A b \in Acts : M[b] + (IF b = a THEN 1 ELSE 0) = N[b]
    PROVE  M = [N EXCEPT ![a] = @ - 1]
<1>1. M[a] = N[a] - 1
  OBVIOUS
<1>2. \A b \in Acts : b # a => M[b] = N[b]
  OBVIOUS
<1> QED
  BY <1>1, <1>2

(* Counts that differ by one at one action are an update of the counts.    *)
LEMMA OneMore ==
    ASSUME NEW N \in [Acts -> Nat], NEW M \in [Acts -> Nat], NEW a \in Acts,
           \A b \in Acts : M[b] = N[b] + (IF b = a THEN 1 ELSE 0)
    PROVE  M = [N EXCEPT ![a] = @ + 1]
<1>1. M[a] = N[a] + 1
  OBVIOUS
<1>2. \A b \in Acts : b # a => M[b] = N[b]
  OBVIOUS
<1> QED
  BY <1>1, <1>2

(* It does not matter which variables are named first.                     *)
LEMMA OtherSide ==
    ASSUME NEW impl, NEW ran, NEW S, NEW C, NEW T, NEW B, NEW p,
           Good(impl, ran, S, C, T, B, p)
    PROVE  Good(impl, ran, T, B, S, C, p)
<1>1. Shapes(impl, ran, S, C, T, B, p) /\ Shapes(impl, ran, T, B, S, C, p)
  BY DEF Good, Shapes
<1>2. HeldBy(impl, S, C, T, B, p) = HeldBy(impl, T, B, S, C, p)
  BY DEF HeldBy
<1>3. NumberOf(impl, S, C, T, B, p) = NumberOf(impl, T, B, S, C, p)
  <2>1. ASSUME NEW a \in Acts
        PROVE  Number(impl, S, C, T, B, p, a) = Number(impl, T, B, S, C, p, a)
    <3>1. /\ HandlesTo(S, C, a) \in Nat /\ HandlesTo(T, B, a) \in Nat
          /\ HandlesTo(Acts, Nexts(impl), a) \in Nat /\ One(p, a) \in {0, 1}
      BY <1>1, TypedIs
    <3> QED
      BY <3>1 DEF Number
  <2> QED
    BY <2>1 DEF NumberOf
<1> QED
  BY <1>1, <1>2, <1>3 DEF Good

Exchanged(C, s, p, D, q) == D = [C EXCEPT ![s] = p] /\ q = C[s]

(* A handle changes places with the one that is not placed.                *)
LEMMA Swap ==
    ASSUME NEW impl, NEW ran, NEW S, NEW C, NEW T, NEW B, NEW p,
           Good(impl, ran, S, C, T, B, p),
           NEW s \in S, NEW D, NEW q, Exchanged(C, s, p, D, q)
    PROVE  Good(impl, ran, S, D, T, B, q)
<1> DEFINE N == NumberOf(impl, S, C, T, B, p)
           M == NumberOf(impl, S, D, T, B, q)
           H == HeldBy(impl, S, C, T, B, p)
           G == HeldBy(impl, S, D, T, B, q)
<1>1. Shapes(impl, ran, S, C, T, B, p) /\ Sound(impl, ran, N, H)
  BY DEF Good
<1>2. Shapes(impl, ran, S, D, T, B, q)
  BY <1>1 DEF Shapes, Exchanged
<1>3. Typed(impl, ran, N, H) /\ Typed(impl, ran, M, G)
  BY <1>1, <1>2, TypedIs
<1>4. \A b \in Acts : Number(impl, S, D, T, B, q, b) = Number(impl, S, C, T, B, p, b)
  <2> SUFFICES ASSUME NEW b \in Acts
               PROVE  Number(impl, S, D, T, B, q, b) = Number(impl, S, C, T, B, p, b)
    OBVIOUS
  <2>1. HandlesTo(S, D, b) + One(q, b) = HandlesTo(S, C, b) + One(p, b)
    <3>1. /\ IsFiniteSet(S) /\ C \in [S -> Handles] /\ p \in Handles
          /\ D[s] = p /\ (\A x \in S : x # s => D[x] = C[x]) /\ q = C[s]
      BY <1>1 DEF Shapes, Exchanged
    <3>2. HandlesTo(S, D, b) + One(C[s], b) = HandlesTo(S, C, b) + One(p, b)
      BY <3>1, Recount
    <3> QED
      BY <3>1, <3>2
  <2>2. /\ HandlesTo(S, C, b) \in Nat /\ HandlesTo(S, D, b) \in Nat /\ HandlesTo(T, B, b) \in Nat
        /\ HandlesTo(Acts, Nexts(impl), b) \in Nat /\ One(p, b) \in {0, 1} /\ One(q, b) \in {0, 1}
    BY <1>1, <1>2, TypedIs
  <2> QED
    BY <2>1, <2>2 DEF Number
<1>5. M = N
  BY <1>4 DEF NumberOf
<1>6. G \subseteq H \cup {Empty}
  BY <1>1 DEF HeldBy, Shapes, Exchanged
<1>7. Sound(impl, ran, N, G)
  <2> HIDE DEF N, M, H, G
  <2> QED
    BY <1>1, <1>3, <1>6, SameCounts
<1> QED
  BY <1>2, <1>5, <1>7 DEF Good

(* ~cleaner() of a raw pointer.                                            *)
LEMMA ReleaseRaw ==
    ASSUME NEW impl, NEW ran, NEW S, NEW C, NEW T, NEW B, NEW p,
           Good(impl, ran, S, C, T, B, p), NEW a \in Acts, p = RawPtr(a),
           NEW r, r = Append(ran, a)
    PROVE  Good(impl, r, S, C, T, B, Empty)
<1> DEFINE N == NumberOf(impl, S, C, T, B, p)
           M == NumberOf(impl, S, C, T, B, Empty)
           H == HeldBy(impl, S, C, T, B, p)
           G == HeldBy(impl, S, C, T, B, Empty)
<1>1. Shapes(impl, ran, S, C, T, B, p) /\ Sound(impl, ran, N, H)
  BY DEF Good
<1>2. Shapes(impl, r, S, C, T, B, Empty)
  BY <1>1, HandleKinds DEF Shapes
<1>3. Typed(impl, ran, N, H) /\ Typed(impl, r, M, G)
  BY <1>1, <1>2, TypedIs
<1>4. \A b \in Acts : Number(impl, S, C, T, B, Empty, b) + (IF b = a THEN 1 ELSE 0)
                          = Number(impl, S, C, T, B, p, b)
  <2> SUFFICES ASSUME NEW b \in Acts
               PROVE  Number(impl, S, C, T, B, Empty, b) + (IF b = a THEN 1 ELSE 0)
                          = Number(impl, S, C, T, B, p, b)
    OBVIOUS
  <2>1. /\ HandlesTo(S, C, b) \in Nat /\ HandlesTo(T, B, b) \in Nat
        /\ HandlesTo(Acts, Nexts(impl), b) \in Nat
    BY <1>1, TypedIs
  <2>2. One(p, b) = (IF b = a THEN 1 ELSE 0) /\ One(Empty, b) = 0
    BY NamesIs, HandleKinds DEF One
  <2> QED
    BY <2>1, <2>2 DEF Number
<1>5. /\ \A b \in Acts : N[b] = Number(impl, S, C, T, B, p, b)
      /\ \A b \in Acts : M[b] = Number(impl, S, C, T, B, Empty, b)
  BY DEF NumberOf
<1>6. p \in H /\ G \subseteq H \cup {Empty}
  BY DEF HeldBy
<1> HIDE DEF N, M, H, G
<1>7. M = [N EXCEPT ![a] = @ - 1]
  <2>1. N \in [Acts -> Nat] /\ M \in [Acts -> Nat]
    BY <1>3 DEF Typed
  <2>2. \A b \in Acts : M[b] + (IF b = a THEN 1 ELSE 0) = N[b]
    BY <1>4, <1>5
  <2> QED
    BY <2>1, <2>2, OneLess
<1>8. Sound(impl, r, M, G)
  BY <1>1, <1>3, <1>6, <1>7, LoseRaw
<1> QED
  BY <1>2, <1>8 DEF Good, M, G

(* ~cleaner() of one of several owners.                                    *)
LEMMA ReleaseOne ==
    ASSUME NEW impl, NEW ran, NEW S, NEW C, NEW T, NEW B, NEW p,
           Good(impl, ran, S, C, T, B, p), NEW a \in Acts, p = Counted(a), impl[a].refs > 1,
           NEW new, new = [impl EXCEPT ![a] = [refs |-> impl[a].refs - 1, next |-> impl[a].next]]
    PROVE  Good(new, ran, S, C, T, B, Empty)
<1> DEFINE N == NumberOf(impl, S, C, T, B, p)
           M == NumberOf(new, S, C, T, B, Empty)
           H == HeldBy(impl, S, C, T, B, p)
           G == HeldBy(new, S, C, T, B, Empty)
<1>1. Shapes(impl, ran, S, C, T, B, p) /\ Sound(impl, ran, N, H)
  BY DEF Good
<1>2. impl \in Impls /\ impl[a].refs \in Nat /\ impl[a].next \in Handles
  BY <1>1 DEF Shapes, Impls
<1>3. new \in Impls
  BY <1>2 DEF Impls
<1>4. Nexts(new) = Nexts(impl)
  <2>1. \A x \in Acts : new[x].next = impl[x].next /\ (new[x].refs > 0 <=> impl[x].refs > 0)
    BY <1>2 DEF Impls
  <2> QED
    BY <2>1 DEF Nexts
<1>5. Shapes(new, ran, S, C, T, B, Empty)
  BY <1>1, <1>3, HandleKinds DEF Shapes
<1>6. Typed(impl, ran, N, H) /\ Typed(new, ran, M, G)
  BY <1>1, <1>5, TypedIs
<1>7. \A b \in Acts : Number(new, S, C, T, B, Empty, b) + (IF b = a THEN 1 ELSE 0)
                          = Number(impl, S, C, T, B, p, b)
  <2> SUFFICES ASSUME NEW b \in Acts
               PROVE  Number(new, S, C, T, B, Empty, b) + (IF b = a THEN 1 ELSE 0)
                          = Number(impl, S, C, T, B, p, b)
    OBVIOUS
  <2>1. /\ HandlesTo(S, C, b) \in Nat /\ HandlesTo(T, B, b) \in Nat
        /\ HandlesTo(Acts, Nexts(impl), b) \in Nat
    BY <1>1, TypedIs
  <2>2. One(p, b) = (IF b = a THEN 1 ELSE 0) /\ One(Empty, b) = 0
    BY NamesIs, HandleKinds DEF One
  <2> QED
    BY <1>4, <2>1, <2>2 DEF Number
<1>8. /\ \A b \in Acts : N[b] = Number(impl, S, C, T, B, p, b)
      /\ \A b \in Acts : M[b] = Number(new, S, C, T, B, Empty, b)
  BY DEF NumberOf
<1>9. G \subseteq H \cup {Empty}
  BY <1>4 DEF HeldBy
<1> HIDE DEF N, M, H, G
<1>10. M = [N EXCEPT ![a] = @ - 1]
  <2>1. N \in [Acts -> Nat] /\ M \in [Acts -> Nat]
    BY <1>6 DEF Typed
  <2>2. \A b \in Acts : M[b] + (IF b = a THEN 1 ELSE 0) = N[b]
    BY <1>7, <1>8
  <2> QED
    BY <2>1, <2>2, OneLess
<1>11. Sound(new, ran, M, G)
  BY <1>1, <1>6, <1>9, <1>10, LoseOne
<1> QED
  BY <1>5, <1>11 DEF Good, M, G

(* ~cleaner() of the last owner, up to the destruction of the next member. *)
LEMMA ReleaseLast ==
    ASSUME NEW impl, NEW ran, NEW S, NEW C, NEW T, NEW B, NEW p,
           Good(impl, ran, S, C, T, B, p), NEW a \in Acts, p = Counted(a), impl[a].refs = 1,
           NEW new, new = [impl EXCEPT ![a] = [refs |-> 0, next |-> impl[a].next]],
           NEW r, r = Append(ran, a), NEW q, q = impl[a].next
    PROVE  Good(new, r, S, C, T, B, q)
<1> DEFINE N == NumberOf(impl, S, C, T, B, p)
           M == NumberOf(new, S, C, T, B, q)
           H == HeldBy(impl, S, C, T, B, p)
           G == HeldBy(new, S, C, T, B, q)
<1>1. Shapes(impl, ran, S, C, T, B, p) /\ Sound(impl, ran, N, H)
  BY DEF Good
<1>2. impl \in Impls /\ impl[a].refs \in Nat /\ q \in Handles
  BY <1>1 DEF Shapes, Impls
<1>3. new \in Impls
  BY <1>2 DEF Impls
<1>4. Nexts(impl) \in [Acts -> Handles] /\ Nexts(impl)[a] = q
  BY <1>1, TypedIs DEF Nexts
<1>5. Nexts(new) = [Nexts(impl) EXCEPT ![a] = Empty]
  <2>1. \A x \in Acts : x # a => new[x] = impl[x]
    BY <1>2 DEF Impls
  <2>2. new[a].refs = 0
    BY <1>2 DEF Impls
  <2>3. Nexts(new) \in [Acts -> Handles] /\ Nexts(new)[a] = Empty
    BY <1>3, <2>2, HandleKinds DEF Nexts, Impls
  <2>4. \A x \in Acts : x # a => Nexts(new)[x] = Nexts(impl)[x]
    BY <2>1 DEF Nexts
  <2> QED
    BY <1>4, <2>3, <2>4
<1>6. Shapes(new, r, S, C, T, B, q)
  BY <1>1, <1>2, <1>3 DEF Shapes
<1>7. Typed(impl, ran, N, H) /\ Typed(new, r, M, G)
  BY <1>1, <1>6, TypedIs
<1>8. \A b \in Acts : Number(new, S, C, T, B, q, b) + (IF b = a THEN 1 ELSE 0)
                          = Number(impl, S, C, T, B, p, b)
  <2> SUFFICES ASSUME NEW b \in Acts
               PROVE  Number(new, S, C, T, B, q, b) + (IF b = a THEN 1 ELSE 0)
                          = Number(impl, S, C, T, B, p, b)
    OBVIOUS
  <2>1. /\ HandlesTo(S, C, b) \in Nat /\ HandlesTo(T, B, b) \in Nat
        /\ HandlesTo(Acts, Nexts(impl), b) \in Nat /\ HandlesTo(Acts, Nexts(new), b) \in Nat
        /\ One(q, b) \in {0, 1}
    BY <1>1, <1>6, TypedIs
  <2>2. One(p, b) = (IF b = a THEN 1 ELSE 0) /\ One(Empty, b) = 0
    BY NamesIs, HandleKinds DEF One
  <2>3. HandlesTo(Acts, Nexts(new), b) + One(q, b)
          = HandlesTo(Acts, Nexts(impl), b) + One(Empty, b)
    <3> DEFINE f == Nexts(impl)
               g == Nexts(new)
    <3>1. IsFiniteSet(Acts) /\ Empty \in Handles
      BY BufferAssumption, HandleKinds
    <3>2. /\ f \in [Acts -> Handles] /\ f[a] = q
          /\ g[a] = Empty /\ \A y \in Acts : y # a => g[y] = f[y]
      BY <1>4, <1>5
    <3> HIDE DEF f, g
    <3>3. HandlesTo(Acts, g, b) + One(f[a], b) = HandlesTo(Acts, f, b) + One(Empty, b)
      BY <3>1, <3>2, RecountNexts
    <3> QED
      BY <3>2, <3>3 DEF f, g
  <2> QED
    BY <2>1, <2>2, <2>3 DEF Number
<1>9. /\ \A b \in Acts : N[b] = Number(impl, S, C, T, B, p, b)
      /\ \A b \in Acts : M[b] = Number(new, S, C, T, B, q, b)
  BY DEF NumberOf
<1>10. G \subseteq H \cup {Empty}
  BY <1>4, <1>5 DEF HeldBy
<1> HIDE DEF N, M, H, G
<1>11. M = [N EXCEPT ![a] = @ - 1]
  <2>1. N \in [Acts -> Nat] /\ M \in [Acts -> Nat]
    BY <1>7 DEF Typed
  <2>2. \A b \in Acts : M[b] + (IF b = a THEN 1 ELSE 0) = N[b]
    BY <1>8, <1>9
  <2> QED
    BY ZenonT(40), <2>1, <2>2, OneLess
<1>12. Sound(new, r, M, G)
  BY <1>1, <1>7, <1>10, <1>11, LoseLast
<1> QED
  BY <1>6, <1>12 DEF Good, M, G

(* What a made raw pointer, a made impl, a promotion and a new owner start *)
(* from: an action nothing is held for.                                    *)
LEMMA NewRaw ==
    ASSUME NEW impl, NEW ran, NEW S, NEW C, NEW T, NEW B,
           Good(impl, ran, S, C, T, B, Empty),
           NEW a \in Acts, a \notin ToSet(ran), impl[a].refs = 0,
           Number(impl, S, C, T, B, Empty, a) = 0,
           NEW q, q = RawPtr(a)
    PROVE  Good(impl, ran, S, C, T, B, q)
<1> DEFINE N == NumberOf(impl, S, C, T, B, Empty)
           M == NumberOf(impl, S, C, T, B, q)
           H == HeldBy(impl, S, C, T, B, Empty)
           G == HeldBy(impl, S, C, T, B, q)
<1>1. Shapes(impl, ran, S, C, T, B, Empty) /\ Sound(impl, ran, N, H)
  BY DEF Good
<1>2. Shapes(impl, ran, S, C, T, B, q)
  BY <1>1, HandleKinds DEF Shapes
<1>3. Typed(impl, ran, N, H) /\ Typed(impl, ran, M, G)
  BY <1>1, <1>2, TypedIs
<1>4. \A b \in Acts : Number(impl, S, C, T, B, q, b)
                          = Number(impl, S, C, T, B, Empty, b) + (IF b = a THEN 1 ELSE 0)
  <2> SUFFICES ASSUME NEW b \in Acts
               PROVE  Number(impl, S, C, T, B, q, b)
                          = Number(impl, S, C, T, B, Empty, b) + (IF b = a THEN 1 ELSE 0)
    OBVIOUS
  <2>1. /\ HandlesTo(S, C, b) \in Nat /\ HandlesTo(T, B, b) \in Nat
        /\ HandlesTo(Acts, Nexts(impl), b) \in Nat
    BY <1>1, TypedIs
  <2>2. One(q, b) = (IF b = a THEN 1 ELSE 0) /\ One(Empty, b) = 0
    BY NamesIs, HandleKinds DEF One
  <2> QED
    BY <2>1, <2>2 DEF Number
<1>5. /\ \A b \in Acts : N[b] = Number(impl, S, C, T, B, Empty, b)
      /\ \A b \in Acts : M[b] = Number(impl, S, C, T, B, q, b)
  BY DEF NumberOf
<1>6. G \subseteq H \cup {q}
  BY DEF HeldBy
<1> HIDE DEF N, M, H, G
<1>7. M = [N EXCEPT ![a] = @ + 1]
  <2>1. N \in [Acts -> Nat] /\ M \in [Acts -> Nat]
    BY <1>3 DEF Typed
  <2>2. \A b \in Acts : M[b] = N[b] + (IF b = a THEN 1 ELSE 0)
    BY <1>4, <1>5
  <2> QED
    BY <2>1, <2>2, OneMore
<1>8. N[a] = 0
  BY <1>5
<1>9. Sound(impl, ran, M, G)
  BY <1>1, <1>3, <1>6, <1>7, <1>8, GainRaw
<1> QED
  BY <1>2, <1>9 DEF Good, M, G

(* make_lambda_cleaner(): a new impl takes the unplaced handle as its      *)
(* next, and the handle to the impl is the unplaced one.                   *)
LEMMA NewImpl ==
    ASSUME NEW impl, NEW ran, NEW S, NEW C, NEW T, NEW B, NEW p,
           Good(impl, ran, S, C, T, B, p),
           NEW a \in Acts, a \notin ToSet(ran), impl[a].refs = 0,
           Number(impl, S, C, T, B, p, a) = 0,
           NEW q, q = Counted(a),
           NEW new, new = [impl EXCEPT ![a] = [refs |-> 1, next |-> p]]
    PROVE  Good(new, ran, S, C, T, B, q)
<1> DEFINE N == NumberOf(impl, S, C, T, B, p)
           M == NumberOf(new, S, C, T, B, q)
           H == HeldBy(impl, S, C, T, B, p)
           G == HeldBy(new, S, C, T, B, q)
<1>1. Shapes(impl, ran, S, C, T, B, p) /\ Sound(impl, ran, N, H)
  BY DEF Good
<1>2. impl \in Impls /\ p \in Handles /\ q \in Handles
  BY <1>1, HandleKinds DEF Shapes
<1>3. new \in Impls
  BY <1>2 DEF Impls
<1>4. Nexts(impl) \in [Acts -> Handles] /\ Nexts(impl)[a] = Empty
  BY <1>1, TypedIs DEF Nexts
<1>5. Nexts(new)[a] = p /\ \A x \in Acts : x # a => Nexts(new)[x] = Nexts(impl)[x]
  <2>1. \A x \in Acts : x # a => new[x] = impl[x]
    BY <1>2 DEF Impls
  <2>2. new[a].refs = 1 /\ new[a].refs > 0 /\ new[a].next = p
    BY <1>2 DEF Impls
  <2>3. Nexts(new)[a] = p
    BY <1>3, <2>2, HandleKinds DEF Nexts, Impls
  <2>4. \A x \in Acts : x # a => Nexts(new)[x] = Nexts(impl)[x]
    BY <2>1 DEF Nexts
  <2> QED
    BY <2>3, <2>4
<1>6. Shapes(new, ran, S, C, T, B, q)
  BY <1>1, <1>2, <1>3 DEF Shapes
<1>7. Typed(impl, ran, N, H) /\ Typed(new, ran, M, G)
  BY <1>1, <1>6, TypedIs
<1>8. \A b \in Acts : Number(new, S, C, T, B, q, b)
                          = Number(impl, S, C, T, B, p, b) + (IF b = a THEN 1 ELSE 0)
  <2> SUFFICES ASSUME NEW b \in Acts
               PROVE  Number(new, S, C, T, B, q, b)
                          = Number(impl, S, C, T, B, p, b) + (IF b = a THEN 1 ELSE 0)
    OBVIOUS
  <2>1. /\ HandlesTo(S, C, b) \in Nat /\ HandlesTo(T, B, b) \in Nat
        /\ HandlesTo(Acts, Nexts(impl), b) \in Nat /\ HandlesTo(Acts, Nexts(new), b) \in Nat
        /\ One(p, b) \in {0, 1}
    BY <1>1, <1>6, TypedIs
  <2>2. One(q, b) = (IF b = a THEN 1 ELSE 0) /\ One(Empty, b) = 0
    BY NamesIs, HandleKinds DEF One
  <2>3. HandlesTo(Acts, Nexts(new), b) + One(Empty, b)
          = HandlesTo(Acts, Nexts(impl), b) + One(p, b)
    <3> DEFINE f == Nexts(impl)
               g == Nexts(new)
    <3>1. /\ f \in [Acts -> Handles] /\ f[a] = Empty
          /\ g[a] = p /\ \A y \in Acts : y # a => g[y] = f[y]
      BY <1>4, <1>5
    <3> HIDE DEF f, g
    <3>2. HandlesTo(Acts, g, b) + One(f[a], b) = HandlesTo(Acts, f, b) + One(p, b)
      BY <1>2, <3>1, RecountNexts
    <3> QED
      BY <3>1, <3>2 DEF f, g
  <2> QED
    BY <2>1, <2>2, <2>3 DEF Number
<1>9. /\ \A b \in Acts : N[b] = Number(impl, S, C, T, B, p, b)
      /\ \A b \in Acts : M[b] = Number(new, S, C, T, B, q, b)
  BY DEF NumberOf
<1>10. p \in H /\ G \subseteq H \cup {q, Empty}
  BY <1>4, <1>5 DEF HeldBy
<1> HIDE DEF N, M, H, G
<1>11. M = [N EXCEPT ![a] = @ + 1]
  <2>1. N \in [Acts -> Nat] /\ M \in [Acts -> Nat]
    BY <1>7 DEF Typed
  <2>2. \A b \in Acts : M[b] = N[b] + (IF b = a THEN 1 ELSE 0)
    BY <1>8, <1>9
  <2> QED
    BY <2>1, <2>2, OneMore
<1>12. N[a] = 0
  BY <1>9
<1>13. Sound(new, ran, M, G)
  BY <1>1, <1>7, <1>10, <1>11, <1>12, GainImpl
<1> QED
  BY <1>6, <1>13 DEF Good, M, G

(* share() of a raw pointer: its impl is made, and the unplaced handle     *)
(* counts where the pointer did not.                                       *)
LEMMA PromoteRaw ==
    ASSUME NEW impl, NEW ran, NEW S, NEW C, NEW T, NEW B, NEW p,
           Good(impl, ran, S, C, T, B, p), NEW a \in Acts, p = RawPtr(a),
           NEW q, q = Counted(a),
           NEW new, new = [impl EXCEPT ![a] = [refs |-> 1, next |-> Empty]]
    PROVE  Good(new, ran, S, C, T, B, q)
<1> DEFINE N == NumberOf(impl, S, C, T, B, p)
           M == NumberOf(new, S, C, T, B, q)
           H == HeldBy(impl, S, C, T, B, p)
           G == HeldBy(new, S, C, T, B, q)
<1>1. Shapes(impl, ran, S, C, T, B, p) /\ Sound(impl, ran, N, H)
  BY DEF Good
<1>2. impl \in Impls /\ q \in Handles
  BY <1>1, HandleKinds DEF Shapes
<1>3. new \in Impls
  BY <1>2, HandleKinds DEF Impls
<1>4. p \in H /\ \A b \in Acts : N[b] = Number(impl, S, C, T, B, p, b)
  BY DEF HeldBy, NumberOf
<1>5. Typed(impl, ran, N, H) /\ impl[a].refs \in Nat /\ impl[a].next \in Handles
  BY <1>1, <1>2, TypedIs DEF Impls
<1>6. impl[a].refs = 0 /\ N[a] = 1
  <2> HIDE DEF N, H
  <2>1. Proper(impl, a) = RawPtr(a)
    BY <1>1, <1>4, NamesIs, HandleKinds DEF Sound, HeldProper
  <2>2. impl[a].refs = 0
    BY <1>5, <2>1, NamesIs DEF Proper
  <2>3. N[a] > 0 /\ N[a] \in Nat
    BY <1>4, <1>5 DEF Typed, Tally, Names
  <2> QED
    BY <1>1, <2>2, <2>3 DEF Sound, NumbersRight
<1>7. Nexts(impl) = Nexts(new)
  <2>1. \A x \in Acts : x # a => new[x] = impl[x]
    BY <1>2 DEF Impls
  <2>2. new[a].refs = 1 /\ new[a].refs > 0 /\ new[a].next = Empty
    BY <1>2 DEF Impls
  <2>3. Nexts(new)[a] = Empty /\ Nexts(impl)[a] = Empty
    BY <1>6, <2>2 DEF Nexts
  <2>4. \A x \in Acts : x # a => Nexts(new)[x] = Nexts(impl)[x]
    BY <2>1 DEF Nexts
  <2> QED
    BY <2>3, <2>4 DEF Nexts
<1>8. Shapes(new, ran, S, C, T, B, q)
  BY <1>1, <1>2, <1>3 DEF Shapes
<1>9. Typed(new, ran, M, G)
  BY <1>8, TypedIs
<1>10. M = N
  <2>1. \A b \in Acts : One(q, b) = One(p, b)
    BY NamesIs, HandleKinds DEF One
  <2>2. \A b \in Acts : Number(new, S, C, T, B, q, b) = Number(impl, S, C, T, B, p, b)
    BY <1>7, <2>1 DEF Number
  <2> QED
    BY <2>2 DEF NumberOf
<1>11. G \subseteq H \cup {q}
  BY <1>7 DEF HeldBy
<1>12. p \notin G
  <2>1. /\ HandlesTo(S, C, a) \in Nat /\ HandlesTo(T, B, a) \in Nat
        /\ HandlesTo(Acts, Nexts(impl), a) \in Nat
    BY <1>1, TypedIs
  <2>2. One(p, a) = 1 /\ Number(impl, S, C, T, B, p, a) = 1
    BY <1>4, <1>6 DEF One, Names
  <2>3. HandlesTo(S, C, a) = 0 /\ HandlesTo(T, B, a) = 0 /\ HandlesTo(Acts, Nexts(impl), a) = 0
    BY <2>1, <2>2 DEF Number
  <2>4. IsFiniteSet(S) /\ IsFiniteSet(T) /\ IsFiniteSet(Acts)
    BY <1>1, BufferAssumption DEF Shapes
  <2>5. /\ \A s \in S : ~Names(C[s], a)
        /\ \A t \in T : ~Names(B[t], a)
        /\ \A x \in Acts : ~Names(Nexts(impl)[x], a)
    BY <2>3, <2>4, CountType
  <2>6. Names(p, a) /\ p # q
    BY NamesIs DEF Names
  <2> QED
    BY <1>7, <2>5, <2>6 DEF HeldBy
<1> HIDE DEF N, M, H, G
<1>13. Sound(new, ran, N, G)
  <2>1. Typed(new, ran, N, G)
    BY <1>9, <1>10
  <2> QED
    BY <1>1, <1>4, <1>5, <1>11, <1>12, <2>1, Promote
<1> QED
  BY <1>8, <1>10, <1>13 DEF Good, M, G

(* share() of a counted handle: one more owner, the unplaced handle.       *)
LEMMA OneMoreOwner ==
    ASSUME NEW impl, NEW ran, NEW S, NEW C, NEW T, NEW B,
           Good(impl, ran, S, C, T, B, Empty), NEW a \in Acts, NEW s \in S, C[s] = Counted(a),
           NEW q, q = Counted(a),
           NEW new, new = [impl EXCEPT ![a] = [refs |-> impl[a].refs + 1, next |-> impl[a].next]]
    PROVE  Good(new, ran, S, C, T, B, q)
<1> DEFINE N == NumberOf(impl, S, C, T, B, Empty)
           M == NumberOf(new, S, C, T, B, q)
           H == HeldBy(impl, S, C, T, B, Empty)
           G == HeldBy(new, S, C, T, B, q)
<1>1. Shapes(impl, ran, S, C, T, B, Empty) /\ Sound(impl, ran, N, H)
  BY DEF Good
<1>2. impl \in Impls /\ impl[a].refs \in Nat /\ impl[a].next \in Handles /\ q \in Handles
  BY <1>1, HandleKinds DEF Shapes, Impls
<1>3. new \in Impls
  BY <1>2 DEF Impls
<1>4. impl[a].refs > 0
  <2>1. q \in H /\ q # Empty /\ q.act = a
    BY NamesIs, HandleKinds DEF HeldBy
  <2>2. q = Proper(impl, a)
    BY <1>1, <2>1 DEF Sound, HeldProper
  <2> QED
    BY <2>2, NamesIs DEF Proper
<1>5. Nexts(new) = Nexts(impl)
  <2>1. \A x \in Acts : new[x].next = impl[x].next /\ (new[x].refs > 0 <=> impl[x].refs > 0)
    BY <1>2, <1>4 DEF Impls
  <2> QED
    BY <2>1 DEF Nexts
<1>6. Shapes(new, ran, S, C, T, B, q)
  BY <1>1, <1>2, <1>3 DEF Shapes
<1>7. Typed(impl, ran, N, H) /\ Typed(new, ran, M, G)
  BY <1>1, <1>6, TypedIs
<1>8. \A b \in Acts : Number(new, S, C, T, B, q, b)
                          = Number(impl, S, C, T, B, Empty, b) + (IF b = a THEN 1 ELSE 0)
  <2> SUFFICES ASSUME NEW b \in Acts
               PROVE  Number(new, S, C, T, B, q, b)
                          = Number(impl, S, C, T, B, Empty, b) + (IF b = a THEN 1 ELSE 0)
    OBVIOUS
  <2>1. /\ HandlesTo(S, C, b) \in Nat /\ HandlesTo(T, B, b) \in Nat
        /\ HandlesTo(Acts, Nexts(impl), b) \in Nat
    BY <1>1, TypedIs
  <2>2. One(q, b) = (IF b = a THEN 1 ELSE 0) /\ One(Empty, b) = 0
    BY NamesIs, HandleKinds DEF One
  <2> QED
    BY <1>5, <2>1, <2>2 DEF Number
<1>9. /\ \A b \in Acts : N[b] = Number(impl, S, C, T, B, Empty, b)
      /\ \A b \in Acts : M[b] = Number(new, S, C, T, B, q, b)
  BY DEF NumberOf
<1>10. G \subseteq H \cup {q}
  BY <1>5 DEF HeldBy
<1> HIDE DEF N, M, H, G
<1>11. M = [N EXCEPT ![a] = @ + 1]
  <2>1. N \in [Acts -> Nat] /\ M \in [Acts -> Nat]
    BY <1>7 DEF Typed
  <2>2. \A b \in Acts : M[b] = N[b] + (IF b = a THEN 1 ELSE 0)
    BY <1>8, <1>9
  <2> QED
    BY <2>1, <2>2, OneMore
<1>12. Sound(new, ran, M, G)
  BY <1>1, <1>4, <1>7, <1>10, <1>11, GainOne
<1> QED
  BY <1>6, <1>12 DEF Good, M, G

\* One unfolding of Unwind's recursion.
UnwindBody(impl, f) ==
    [x \in Handles |->
        IF x = Empty THEN [gone |-> <<>>, left |-> {}]
        ELSE IF x.tag = "raw" THEN [gone |-> <<x.act>>, left |-> {}]
        ELSE IF impl[x.act].refs > 1 THEN [gone |-> <<>>, left |-> {x.act}]
        ELSE LET rest == f[impl[x.act].next]
             IN  [gone |-> <<x.act>> \o rest.gone, left |-> rest.left]]
AgeOf(age, h) == IF h.tag = "counted" THEN age[h.act] + 1 ELSE 0
UnwindIs(impl) ==
    /\ Unwind(impl, Empty) = [gone |-> <<>>, left |-> {}]
    /\ \A a \in Acts : Unwind(impl, RawPtr(a)) = [gone |-> <<a>>, left |-> {}]
    /\ \A a \in Acts : impl[a].refs > 1 => Unwind(impl, Counted(a)) = [gone |-> <<>>, left |-> {a}]
    /\ \A a \in Acts : ~(impl[a].refs > 1) =>
          Unwind(impl, Counted(a)) =
              [gone |-> <<a>> \o Unwind(impl, impl[a].next).gone,
               left |-> Unwind(impl, impl[a].next).left]

(* The unfolding asks for the value at the next handle only.               *)
LEMMA BodyIsLocal ==
    ASSUME NEW impl \in Impls, NEW f, NEW g, NEW h \in Handles,
           h.tag = "counted" => f[impl[h.act].next] = g[impl[h.act].next]
    PROVE  UnwindBody(impl, f)[h] = UnwindBody(impl, g)[h]
<1>1. CASE h = Empty
  BY <1>1 DEF UnwindBody
<1>2. CASE h # Empty /\ h.tag = "raw"
  BY <1>2 DEF UnwindBody
<1>3. CASE h # Empty /\ h.tag = "counted"
  BY <1>3 DEF UnwindBody
<1> QED
  BY <1>1, <1>2, <1>3, HandleKinds

(* The ages of handles fall along a chain.                                 *)
LEMMA AgesFall ==
    ASSUME NEW impl \in Impls, NEW k \in Nat, NEW age, Aged(impl, k, age)
    PROVE  /\ \A h \in Handles : AgeOf(age, h) \in 0..(k + 1)
           /\ \A h \in Handles : h.tag = "counted" =>
                 /\ impl[h.act].next \in Handles /\ h.act \in Acts
                 /\ AgeOf(age, impl[h.act].next) < AgeOf(age, h)
<1>1. \A x \in Acts : age[x] \in 0..k
  BY DEF Aged
<1>2. ASSUME NEW h \in Handles PROVE AgeOf(age, h) \in 0..(k + 1)
  <2>1. CASE h.tag = "counted"
    <3>1. h.act \in Acts
      BY <2>1, HandleKinds
    <3>2. age[h.act] \in 0..k
      BY <1>1, <3>1
    <3> QED
      BY <2>1, <3>2 DEF AgeOf
  <2>2. CASE h.tag # "counted"
    BY <2>2 DEF AgeOf
  <2> QED
    BY <2>1, <2>2
<1>3. ASSUME NEW h \in Handles, h.tag = "counted"
      PROVE  /\ impl[h.act].next \in Handles /\ h.act \in Acts
             /\ AgeOf(age, impl[h.act].next) < AgeOf(age, h)
  <2> DEFINE x == h.act
             n == impl[x].next
  <2>1. x \in Acts
    BY <1>3, HandleKinds
  <2>2. n \in Handles
    BY <2>1 DEF Impls
  <2>3. AgeOf(age, h) = age[x] + 1 /\ age[x] \in 0..k
    BY <1>1, <1>3, <2>1 DEF AgeOf
  <2>4. CASE n.tag = "counted"
    <3>1. AgeOf(age, n) = age[n.act] + 1 /\ n.act \in Acts
      BY <2>2, <2>4, HandleKinds DEF AgeOf
    <3>2. age[n.act] < age[x] /\ age[n.act] \in 0..k
      BY <1>1, <2>1, <2>4, <3>1 DEF Aged
    <3> HIDE DEF n, x
    <3>3. AgeOf(age, n) < AgeOf(age, h)
      BY <2>3, <3>1, <3>2
    <3> QED
      BY <2>1, <2>2, <3>3 DEF n, x
  <2>5. CASE n.tag # "counted"
    <3>1. AgeOf(age, n) = 0
      BY <2>5 DEF AgeOf
    <3> HIDE DEF n, x
    <3>2. AgeOf(age, n) < AgeOf(age, h)
      BY <2>3, <3>1
    <3> QED
      BY <2>1, <2>2, <3>2 DEF n, x
  <2> QED
    BY <2>4, <2>5
<1> QED
  BY <1>2, <1>3

(* The recursion of Unwind ends: it has a solution.                        *)
LEMMA UnwindExists ==
    ASSUME NEW impl \in Impls, Acyclic(impl)
    PROVE  \E f : f = UnwindBody(impl, f)
<1>1. PICK k, age : k \in Nat /\ Aged(impl, k, age)
  BY DEF Acyclic
<1> DEFINE Solves(f, n) == \A h \in Handles : AgeOf(age, h) < n => f[h] = UnwindBody(impl, f)[h]
           l == k + 2
           Bad == {n \in 0..l : ~\E f : Solves(f, n)}
<1>2. l \in Nat /\ \A h \in Handles : AgeOf(age, h) \in Nat /\ AgeOf(age, h) < l
  <2>1. \A h \in Handles : AgeOf(age, h) \in 0..(k + 1)
    BY <1>1, AgesFall
  <2>2. \A n \in 0..(k + 1) : n \in Nat /\ n < l
    BY <1>1
  <2> QED
    BY <1>1, <2>1, <2>2
<1>3. \A f : UnwindBody(impl, f) = [h \in Handles |-> UnwindBody(impl, f)[h]]
  BY DEF UnwindBody
<1>4. ASSUME NEW n \in Nat, NEW f, Solves(f, n) PROVE Solves(UnwindBody(impl, f), n + 1)
  <2> SUFFICES ASSUME NEW h \in Handles, AgeOf(age, h) < n + 1
               PROVE  UnwindBody(impl, f)[h] = UnwindBody(impl, UnwindBody(impl, f))[h]
    OBVIOUS
  <2>1. ASSUME h.tag = "counted"
        PROVE  f[impl[h.act].next] = UnwindBody(impl, f)[impl[h.act].next]
    <3>1. /\ impl[h.act].next \in Handles
          /\ AgeOf(age, impl[h.act].next) < AgeOf(age, h)
      BY <1>1, <2>1, AgesFall
    <3>2. AgeOf(age, impl[h.act].next) \in Nat /\ AgeOf(age, h) \in Nat
      BY <1>2, <3>1
    <3>3. AgeOf(age, impl[h.act].next) < n
      BY <3>1, <3>2
    <3> QED
      BY <1>4, <3>1, <3>3
  <2> QED
    BY <2>1, BodyIsLocal
<1>5. Bad = {}
  <2> SUFFICES ASSUME Bad # {} PROVE FALSE
    OBVIOUS
  <2>1. PICK n \in Bad : \A j \in Bad : n <= j
    <3>1. Bad \in SUBSET (0..l)
      OBVIOUS
    <3> HIDE DEF Bad, l
    <3> QED
      BY <1>2, <3>1, Least
  <2>2. n \in 0..l /\ ~\E f : Solves(f, n)
    OBVIOUS
  <2>3. n # 0
    <3>1. \A h \in Handles : ~(AgeOf(age, h) < 0)
      BY <1>2
    <3>2. \A f : Solves(f, 0)
      BY <3>1
    <3> QED
      BY <2>2, <3>2
  <2> DEFINE m == n - 1
  <2>4. m \in 0..l /\ m \in Nat /\ m + 1 = n /\ ~(n <= m)
    <3> HIDE DEF l
    <3> QED
      BY <1>2, <2>2, <2>3
  <2> HIDE DEF m
  <2>5. m \notin Bad
    <3> HIDE DEF Bad
    <3> QED
      BY <2>1, <2>4
  <2>6. PICK f : Solves(f, m)
    BY <2>4, <2>5
  <2> HIDE DEF Solves
  <2> QED
    BY <1>4, <2>2, <2>4, <2>6
<1>6. PICK f : Solves(f, l)
  <2>1. l \in 0..l
    <3> HIDE DEF l
    <3> QED
      BY <1>2
  <2> QED
    BY <1>5, <2>1
<1> DEFINE g == UnwindBody(impl, f)
<1>7. \A h \in Handles : f[h] = g[h]
  <2> HIDE DEF l
  <2> QED
    BY <1>2, <1>6
<1>8. \A h \in Handles : UnwindBody(impl, g)[h] = g[h]
  <2> HIDE DEF g
  <2>1. ASSUME NEW h \in Handles PROVE UnwindBody(impl, f)[h] = UnwindBody(impl, g)[h]
    <3>1. h.tag = "counted" => impl[h.act].next \in Handles
      BY <1>1, AgesFall
    <3>2. h.tag = "counted" => f[impl[h.act].next] = g[impl[h.act].next]
      BY <1>7, <3>1
    <3> QED
      BY <3>2, BodyIsLocal
  <2> QED
    BY <2>1 DEF g
<1>9. g = UnwindBody(impl, g)
  <2>1. g = [h \in Handles |-> g[h]] /\ UnwindBody(impl, g) = [h \in Handles |-> UnwindBody(impl, g)[h]]
    BY <1>3
  <2> HIDE DEF g
  <2> QED
    BY <1>8, <2>1
<1> QED
  BY <1>9

(* What Unwind yields, case by case.                                       *)
LEMMA UnwindCases ==
    ASSUME NEW impl \in Impls, Acyclic(impl)
    PROVE  UnwindIs(impl)
<1> DEFINE f == CHOOSE f : f = UnwindBody(impl, f)
<1>1. f = UnwindBody(impl, f)
  <2>1. \E g : g = UnwindBody(impl, g)
    BY UnwindExists
  <2> QED
    BY <2>1
<1>2. \A h : Unwind(impl, h) = f[h]
  BY DEF Unwind, UnwindBody
<1> HIDE DEF f
<1>3. \A h \in Handles : f[h] = UnwindBody(impl, f)[h]
  BY <1>1
<1>4. f[Empty] = [gone |-> <<>>, left |-> {}]
  BY <1>3, HandleKinds DEF UnwindBody
<1>5. ASSUME NEW a \in Acts PROVE f[RawPtr(a)] = [gone |-> <<a>>, left |-> {}]
  <2>1. RawPtr(a) \in Handles /\ RawPtr(a).tag = "raw" /\ RawPtr(a).act = a /\ RawPtr(a) # Empty
    BY HandleKinds, NamesIs
  <2> QED
    BY <1>3, <2>1 DEF UnwindBody
<1>6. ASSUME NEW a \in Acts, impl[a].refs > 1
      PROVE  f[Counted(a)] = [gone |-> <<>>, left |-> {a}]
  <2>1. Counted(a) \in Handles /\ Counted(a).tag = "counted" /\ Counted(a).act = a /\ Counted(a) # Empty
    BY HandleKinds, NamesIs
  <2> QED
    BY <1>3, <1>6, <2>1 DEF UnwindBody
<1>7. ASSUME NEW a \in Acts, ~(impl[a].refs > 1)
      PROVE  f[Counted(a)] = [gone |-> <<a>> \o f[impl[a].next].gone, left |-> f[impl[a].next].left]
  <2>1. Counted(a) \in Handles /\ Counted(a).tag = "counted" /\ Counted(a).act = a /\ Counted(a) # Empty
    BY HandleKinds, NamesIs
  <2> QED
    BY <1>3, <1>7, <2>1 DEF UnwindBody
<1> QED
  BY <1>2, <1>4, <1>5, <1>6, <1>7 DEF UnwindIs

(* What Unwind yields is a sequence of actions and a set of impls that     *)
(* keep an owner; an impl that is older than action a does not lead to a,  *)
(* so that what is done to the count of a does not matter.                 *)
Unwinds(impl, new, h) ==
    /\ Unwind(impl, h).gone \in Seq(Acts)
    /\ Unwind(impl, h).left \subseteq Acts
    /\ \A x \in Unwind(impl, h).left : impl[x].refs > 1
    /\ Unwind(new, h) = Unwind(impl, h)

(* Taking an owner from an impl does not change what unwinding makes of    *)
(* the chains that end in older impls.                                     *)
LEMMA UnwindOlder ==
    ASSUME NEW impl \in Impls, NEW k \in Nat, NEW age, Aged(impl, k, age), NEW a \in Acts,
           NEW new \in Impls, \A x \in Acts : new[x].next = impl[x].next,
           \A x \in Acts : x # a => new[x].refs = impl[x].refs
    PROVE  \A h \in Handles : AgeOf(age, h) <= age[a] => Unwinds(impl, new, h)
<1>1. UnwindIs(impl) /\ UnwindIs(new)
  <2>1. Acyclic(impl) /\ Acyclic(new)
    BY NextsDecide DEF Acyclic
  <2> QED
    BY <2>1, UnwindCases
<1>2. age[a] \in 0..k /\ \A h \in Handles : AgeOf(age, h) \in 0..(k + 1)
  BY AgesFall DEF Aged
<1> DEFINE l == k + 1
           Bad == {n \in 0..l : \E h \in Handles : AgeOf(age, h) = n /\ n <= age[a] /\ ~Unwinds(impl, new, h)}
<1> SUFFICES ASSUME Bad # {} PROVE FALSE
  BY <1>2
<1>3. l \in Nat /\ Bad \in SUBSET (0..l)
  OBVIOUS
<1>4. PICK n \in Bad : \A j \in Bad : n <= j
  <2> HIDE DEF Bad, l
  <2> QED
    BY <1>3, Least
<1>5. PICK h \in Handles : AgeOf(age, h) = n /\ n <= age[a] /\ ~Unwinds(impl, new, h)
  OBVIOUS
<1>6. CASE h = Empty
  <2>1. Unwind(impl, h) = [gone |-> <<>>, left |-> {}] /\ Unwind(new, h) = [gone |-> <<>>, left |-> {}]
    BY <1>1, <1>6 DEF UnwindIs
  <2> QED
    BY <1>5, <2>1 DEF Unwinds
<1>7. ASSUME NEW b \in Acts, h = RawPtr(b) PROVE FALSE
  <2>1. Unwind(impl, h) = [gone |-> <<b>>, left |-> {}] /\ Unwind(new, h) = [gone |-> <<b>>, left |-> {}]
    BY <1>1, <1>7 DEF UnwindIs
  <2> QED
    BY <1>5, <2>1 DEF Unwinds
<1>8. ASSUME NEW b \in Acts, h = Counted(b) PROVE FALSE
  <2>1. h.tag = "counted" /\ h.act = b
    BY <1>8, HandleKinds
  <2>2. AgeOf(age, h) = age[b] + 1 /\ age[b] \in 0..k
    BY <2>1 DEF AgeOf, Aged
  <2>3. b # a
    BY <1>2, <1>5, <2>2
  <2>4. new[b].refs = impl[b].refs /\ new[b].next = impl[b].next
    BY <2>3
  <2>5. CASE impl[b].refs > 1
    <3>1. /\ Unwind(impl, h) = [gone |-> <<>>, left |-> {b}]
          /\ Unwind(new, h) = [gone |-> <<>>, left |-> {b}]
      BY <1>1, <1>8, <2>4, <2>5 DEF UnwindIs
    <3> QED
      BY <1>5, <2>5, <3>1 DEF Unwinds
  <2>6. CASE ~(impl[b].refs > 1)
    <3> DEFINE q == impl[b].next
    <3>1. q \in Handles /\ AgeOf(age, q) < AgeOf(age, h)
      BY <2>1, AgesFall
    <3>2. /\ Unwind(impl, h) = [gone |-> <<b>> \o Unwind(impl, q).gone, left |-> Unwind(impl, q).left]
          /\ Unwind(new, h) = [gone |-> <<b>> \o Unwind(new, q).gone, left |-> Unwind(new, q).left]
      BY <1>1, <1>8, <2>4, <2>6 DEF UnwindIs
    <3> HIDE DEF q
    <3> DEFINE m == AgeOf(age, q)
    <3>3. m \in 0..l /\ m <= age[a] /\ ~(n <= m)
      BY <1>2, <1>5, <3>1
    <3>4. m \notin Bad
      <4> HIDE DEF Bad, m
      <4> QED
        BY <1>4, <3>3
    <3>5. Unwinds(impl, new, q)
      <4> HIDE DEF l
      <4> QED
        BY <3>1, <3>3, <3>4
    <3>6. <<b>> \o Unwind(impl, q).gone \in Seq(Acts)
      BY <3>5, ConcatProperties DEF Unwinds
    <3> QED
      BY <1>5, <3>2, <3>5, <3>6 DEF Unwinds
  <2> QED
    BY <2>5, <2>6
<1> QED
  BY <1>6, <1>7, <1>8, HandleKinds

(* The same for any handle: what Unwind yields is what it should be.       *)
LEMMA UnwindType ==
    ASSUME NEW impl \in Impls, Acyclic(impl), NEW h \in Handles
    PROVE  /\ Unwind(impl, h).gone \in Seq(Acts) /\ Unwind(impl, h).left \subseteq Acts
           /\ \A x \in Unwind(impl, h).left : impl[x].refs > 1
<1>1. UnwindIs(impl)
  BY UnwindCases
<1>2. PICK k, age : k \in Nat /\ Aged(impl, k, age)
  BY DEF Acyclic
<1>3. CASE h = Empty
  <2>1. Unwind(impl, h) = [gone |-> <<>>, left |-> {}]
    BY <1>1, <1>3 DEF UnwindIs
  <2> QED
    BY <2>1
<1>4. ASSUME NEW b \in Acts, h = RawPtr(b)
      PROVE  /\ Unwind(impl, h).gone \in Seq(Acts) /\ Unwind(impl, h).left \subseteq Acts
             /\ \A x \in Unwind(impl, h).left : impl[x].refs > 1
  <2>1. Unwind(impl, h) = [gone |-> <<b>>, left |-> {}]
    BY <1>1, <1>4 DEF UnwindIs
  <2> QED
    BY <2>1
<1>5. ASSUME NEW b \in Acts, h = Counted(b)
      PROVE  /\ Unwind(impl, h).gone \in Seq(Acts) /\ Unwind(impl, h).left \subseteq Acts
             /\ \A x \in Unwind(impl, h).left : impl[x].refs > 1
  <2>1. CASE impl[b].refs > 1
    <3>1. Unwind(impl, h) = [gone |-> <<>>, left |-> {b}]
      BY <1>1, <1>5, <2>1 DEF UnwindIs
    <3> QED
      BY <2>1, <3>1
  <2>2. CASE ~(impl[b].refs > 1)
    <3> DEFINE q == impl[b].next
    <3>1. Unwind(impl, h) = [gone |-> <<b>> \o Unwind(impl, q).gone, left |-> Unwind(impl, q).left]
      BY <1>1, <1>5, <2>2 DEF UnwindIs
    <3>2. h.tag = "counted" /\ h.act = b
      BY <1>5, HandleKinds
    <3>3. q \in Handles /\ AgeOf(age, q) < AgeOf(age, h) /\ AgeOf(age, h) = age[b] + 1
      BY <1>2, <3>2, AgesFall DEF AgeOf
    <3>4. AgeOf(age, q) \in Nat /\ age[b] \in Nat
      BY <1>2, <3>3, AgesFall DEF Aged
    <3>5. AgeOf(age, q) <= age[b]
      <4> HIDE DEF q
      <4> QED
        BY <3>3, <3>4
    <3>6. Unwinds(impl, impl, q)
      <4> HIDE DEF q
      <4> QED
        BY <1>2, <3>3, <3>5, UnwindOlder
    <3> HIDE DEF q
    <3>7. <<b>> \o Unwind(impl, q).gone \in Seq(Acts)
      BY <3>6, ConcatProperties DEF Unwinds
    <3> QED
      BY <3>1, <3>6, <3>7 DEF Unwinds
  <2> QED
    BY <2>1, <2>2
<1> QED
  BY <1>3, <1>4, <1>5, HandleKinds

Consed(ran, a, g) ==
    /\ ran \o (<<a>> \o g) = Append(ran, a) \o g
    /\ ToSet(<<a>> \o g) = {a} \cup ToSet(g)
    /\ ToSet(<<a>>) = {a} /\ ran \o <<a>> = Append(ran, a) /\ ran \o <<>> = ran

(* What follows the first action of a sequence, and of one put behind      *)
(* another.                                                                *)
LEMMA ConsActs ==
    ASSUME NEW ran \in Seq(Acts), NEW a \in Acts, NEW g \in Seq(Acts)
    PROVE  Consed(ran, a, g)
<1>1. ran \o <<a>> = Append(ran, a) /\ ran \o <<>> = ran
  OBVIOUS
<1>2. <<a>> \in Seq(Acts)
  OBVIOUS
<1>3. ran \o (<<a>> \o g) = Append(ran, a) \o g
  BY SMTT(30), <1>1, <1>2, ConcatAssociative
<1>4. ToSet(<<a>>) = {a}
  <2>1. DOMAIN <<a>> = {1} /\ <<a>>[1] = a
    OBVIOUS
  <2> QED
    BY <2>1 DEF ToSet
<1> DEFINE n == Len(g)
           c == <<a>> \o g
<1>5. n \in Nat /\ DOMAIN g = 1..n /\ DOMAIN c = 1..(n + 1) /\ c[1] = a
  OBVIOUS
<1>6. \A i \in 1..n : c[i + 1] = g[i]
  OBVIOUS
<1> HIDE DEF n, c
<1>7. ToSet(c) = {a} \cup ToSet(g)
  <2>1. \A x : x \in ToSet(c) <=> \E i \in 1..(n + 1) : x = c[i]
    BY <1>5 DEF ToSet
  <2>2. \A x : x \in ToSet(g) <=> \E i \in 1..n : x = g[i]
    BY <1>5 DEF ToSet
  <2>3. \A i \in 1..n : i + 1 \in 1..(n + 1)
    BY <1>5
  <2>4. \A i \in 1..(n + 1) : i = 1 \/ (i - 1 \in 1..n /\ (i - 1) + 1 = i)
    BY <1>5
  <2>5. 1 \in 1..(n + 1)
    BY <1>5
  <2>6. ASSUME NEW x \in ToSet(c) PROVE x = a \/ x \in ToSet(g)
    <3>1. PICK i \in 1..(n + 1) : x = c[i]
      BY <2>1, <2>6
    <3>2. CASE i = 1
      BY <1>5, <3>1, <3>2
    <3>3. CASE i # 1
      <4>1. PICK j \in 1..n : j + 1 = i
        BY <2>4, <3>3
      <4> QED
        BY <1>6, <2>2, <3>1, <4>1
    <3> QED
      BY <3>2, <3>3
  <2>7. a \in ToSet(c) /\ \A x \in ToSet(g) : x \in ToSet(c)
    BY <1>5, <1>6, <2>1, <2>2, <2>3, <2>5
  <2> QED
    BY <2>6, <2>7
<1> QED
  BY <1>1, <1>3, <1>4, <1>7 DEF c, Consed

(* Setting the count of an impl keeps what it holds.                       *)
LEMMA SetRefs ==
    ASSUME NEW impl \in Impls
    PROVE  /\ \A x \in Acts : \A v : [impl[x] EXCEPT !.refs = v] = [refs |-> v, next |-> impl[x].next]
           /\ \A x \in Acts : impl[x] = [refs |-> impl[x].refs, next |-> impl[x].next]
           /\ \A x \in Acts : [impl[x] EXCEPT !.refs = impl[x].refs] = impl[x]
<1>0. \A x \in Acts : impl[x] = [refs |-> impl[x].refs, next |-> impl[x].next]
  BY DEF Impls
<1>00. SUFFICES \A x \in Acts : \A v : [impl[x] EXCEPT !.refs = v] = [refs |-> v, next |-> impl[x].next]
  BY <1>0
<1> SUFFICES ASSUME NEW x \in Acts, NEW v
             PROVE  [impl[x] EXCEPT !.refs = v] = [refs |-> v, next |-> impl[x].next]
  OBVIOUS
<1>1. impl[x] \in [refs : Nat, next : Handles]
  BY DEF Impls
<1> DEFINE r == impl[x]
           e == [r EXCEPT !.refs = v]
<1>2. e.refs = v /\ e.next = r.next /\ DOMAIN e = DOMAIN r
  BY <1>1
<1>3. e = [refs |-> v, next |-> r.next]
  BY <1>1
<1> QED
  BY <1>3

(* ~cleaner(), case by case.                                               *)
LEMMA ReleaseIs ==
    ASSUME NEW h, NEW impl \in Impls, NEW ran \in Seq(Acts), Acyclic(impl),
           h.impl = impl, h.ran = ran
    PROVE  /\ Release(h, Empty).impl = impl /\ Release(h, Empty).ran = ran
           /\ \A a \in Acts : impl[a].refs = 0 =>
                 /\ Release(h, RawPtr(a)).impl = impl
                 /\ Release(h, RawPtr(a)).ran = Append(ran, a)
           /\ \A a \in Acts : impl[a].refs > 1 =>
                 /\ Release(h, Counted(a)).impl =
                       [impl EXCEPT ![a] = [refs |-> impl[a].refs - 1, next |-> impl[a].next]]
                 /\ Release(h, Counted(a)).ran = ran
<1>1. UnwindIs(impl)
  BY UnwindCases
<1>2. \A x \in Acts : impl[x].refs \in Nat
  BY DEF Impls
<1>3. impl = [x \in Acts |-> impl[x]]
  BY DEF Impls
<1>4. Release(h, Empty).impl = impl /\ Release(h, Empty).ran = ran
  <2>1. Unwind(impl, Empty) = [gone |-> <<>>, left |-> {}]
    BY <1>1 DEF UnwindIs
  <2>2. ToSet(<<>>) = {} /\ ran \o <<>> = ran
    BY DEF ToSet
  <2>3. \A x \in Acts : Release(h, Empty).impl[x] = [impl[x] EXCEPT !.refs = impl[x].refs - 0]
    BY <2>1, <2>2 DEF Release
  <2>4. \A x \in Acts : [impl[x] EXCEPT !.refs = impl[x].refs - 0] = impl[x]
    <3>1. \A x \in Acts : impl[x].refs - 0 = impl[x].refs
      BY <1>2
    <3> QED
      BY <3>1, SetRefs
  <2>5. Release(h, Empty).impl = [x \in Acts |-> Release(h, Empty).impl[x]]
    BY DEF Release
  <2>6. Release(h, Empty).ran = ran
    BY <2>1, <2>2 DEF Release
  <2> QED
    BY <1>3, <2>3, <2>4, <2>5, <2>6
<1>5. ASSUME NEW a \in Acts, impl[a].refs = 0
      PROVE  /\ Release(h, RawPtr(a)).impl = impl
             /\ Release(h, RawPtr(a)).ran = Append(ran, a)
  <2>1. Unwind(impl, RawPtr(a)) = [gone |-> <<a>>, left |-> {}]
    BY <1>1 DEF UnwindIs
  <2>2. ToSet(<<a>>) = {a} /\ ran \o <<a>> = Append(ran, a)
    <3>1. <<>> \in Seq(Acts)
      OBVIOUS
    <3>2. Consed(ran, a, <<>>)
      BY <3>1, ConsActs
    <3> QED
      BY <3>2 DEF Consed
  <2>3. \A x \in Acts : Release(h, RawPtr(a)).impl[x]
                        = [impl[x] EXCEPT !.refs = IF x = a THEN 0 ELSE impl[x].refs - 0]
    BY <2>1, <2>2 DEF Release
  <2>4. \A x \in Acts : [impl[x] EXCEPT !.refs = IF x = a THEN 0 ELSE impl[x].refs - 0] = impl[x]
    <3>1. \A x \in Acts : (IF x = a THEN 0 ELSE impl[x].refs - 0) = impl[x].refs
      BY <1>2, <1>5
    <3> QED
      BY <3>1, SetRefs
  <2>5. Release(h, RawPtr(a)).impl = [x \in Acts |-> Release(h, RawPtr(a)).impl[x]]
    BY DEF Release
  <2>6. Release(h, RawPtr(a)).ran = Append(ran, a)
    BY <2>1, <2>2 DEF Release
  <2> QED
    BY <1>3, <2>3, <2>4, <2>5, <2>6
<1>6. ASSUME NEW a \in Acts, impl[a].refs > 1
      PROVE  /\ Release(h, Counted(a)).impl =
                   [impl EXCEPT ![a] = [refs |-> impl[a].refs - 1, next |-> impl[a].next]]
             /\ Release(h, Counted(a)).ran = ran
  <2>1. Unwind(impl, Counted(a)) = [gone |-> <<>>, left |-> {a}]
    BY <1>1, <1>6 DEF UnwindIs
  <2>2. ToSet(<<>>) = {} /\ ran \o <<>> = ran
    BY DEF ToSet
  <2>3. \A x \in Acts : Release(h, Counted(a)).impl[x]
                        = [impl[x] EXCEPT !.refs = impl[x].refs - (IF x = a THEN 1 ELSE 0)]
    BY <2>1, <2>2 DEF Release
  <2> DEFINE new == [impl EXCEPT ![a] = [refs |-> impl[a].refs - 1, next |-> impl[a].next]]
  <2>4. \A x \in Acts : [impl[x] EXCEPT !.refs = impl[x].refs - (IF x = a THEN 1 ELSE 0)] = new[x]
    <3>1. ASSUME NEW x \in Acts, x # a
          PROVE  [impl[x] EXCEPT !.refs = impl[x].refs - (IF x = a THEN 1 ELSE 0)] = impl[x]
      <4>1. impl[x].refs - (IF x = a THEN 1 ELSE 0) = impl[x].refs
        BY <1>2, <3>1
      <4> DEFINE v == impl[x].refs - (IF x = a THEN 1 ELSE 0)
      <4>2. v = impl[x].refs
        BY <4>1
      <4> HIDE DEF v
      <4>3. [impl[x] EXCEPT !.refs = v] = impl[x]
        BY <4>2, SetRefs
      <4> QED
        BY <4>3 DEF v
    <3>2. [impl[a] EXCEPT !.refs = impl[a].refs - 1]
            = [refs |-> impl[a].refs - 1, next |-> impl[a].next]
      BY SetRefs
    <3>3. new[a] = [refs |-> impl[a].refs - 1, next |-> impl[a].next]
          /\ \A x \in Acts : x # a => new[x] = impl[x]
      BY <1>3
    <3> HIDE DEF new
    <3> QED
      BY <3>1, <3>2, <3>3
  <2>5. Release(h, Counted(a)).impl = [x \in Acts |-> Release(h, Counted(a)).impl[x]]
    BY DEF Release
  <2>6. Release(h, Counted(a)).ran = ran
    BY <2>1, <2>2 DEF Release
  <2>7. new = [x \in Acts |-> new[x]]
    BY <1>3
  <2> HIDE DEF new
  <2>8. Release(h, Counted(a)).impl = new
    BY <2>3, <2>4, <2>5, <2>7
  <2> QED
    BY <2>6, <2>8 DEF new
<1> QED
  BY <1>4, <1>5, <1>6

(* The last owner: the impl is deleted, its action runs, and what follows  *)
(* is the destruction of what it held.                                     *)
LEMMA ReleaseDeletes ==
    ASSUME NEW h, NEW impl \in Impls, NEW ran \in Seq(Acts), Acyclic(impl),
           h.impl = impl, h.ran = ran, NEW a \in Acts, impl[a].refs = 1,
           NEW g, NEW new, new = [impl EXCEPT ![a] = [refs |-> 0, next |-> impl[a].next]],
           g.impl = new, g.ran = Append(ran, a)
    PROVE  Release(h, Counted(a)) = Release(g, impl[a].next)
<1> DEFINE q == impl[a].next
           u == Unwind(impl, q)
<1>1. UnwindIs(impl)
  BY UnwindCases
<1>2. PICK k, age : k \in Nat /\ Aged(impl, k, age)
  BY DEF Acyclic
<1>3. \A x \in Acts : impl[x] = [refs |-> impl[x].refs, next |-> impl[x].next]
                     /\ impl[x].refs \in Nat /\ impl[x].next \in Handles
  BY DEF Impls
<1>4. new \in Impls /\ new[a] = [refs |-> 0, next |-> q] /\ \A x \in Acts : x # a => new[x] = impl[x]
  BY <1>3 DEF Impls
<1>5. Unwinds(impl, new, q)
  <2>1. Counted(a) \in Handles /\ Counted(a).tag = "counted" /\ Counted(a).act = a
    BY HandleKinds
  <2>2. AgeOf(age, q) < AgeOf(age, Counted(a)) /\ AgeOf(age, Counted(a)) = age[a] + 1 /\ q \in Handles
    BY <1>2, <2>1, AgesFall DEF AgeOf
  <2>3. AgeOf(age, q) \in Nat /\ age[a] \in Nat
    BY SMTT(30), <1>2, <2>2, AgesFall DEF Aged
  <2>4. \A x \in Acts : new[x].next = impl[x].next
    BY <1>4
  <2>5. \A x \in Acts : x # a => new[x].refs = impl[x].refs
    BY <1>4
  <2> HIDE DEF q
  <2>6. AgeOf(age, q) <= age[a]
    BY <2>2, <2>3
  <2> QED
    BY <1>2, <1>4, <2>2, <2>4, <2>5, <2>6, UnwindOlder
<1>6. Unwind(new, q) = u /\ u.gone \in Seq(Acts) /\ a \notin u.left
  BY <1>5 DEF Unwinds
<1>7. Unwind(impl, Counted(a)) = [gone |-> <<a>> \o u.gone, left |-> u.left]
  <2>1. ~(impl[a].refs > 1)
    OBVIOUS
  <2>3. u = Unwind(impl, impl[a].next)
    OBVIOUS
  <2> HIDE DEF u, q
  <2>2. Unwind(impl, Counted(a)) = [gone |-> <<a>> \o Unwind(impl, impl[a].next).gone,
                                    left |-> Unwind(impl, impl[a].next).left]
    BY <1>1, <2>1 DEF UnwindIs
  <2> QED
    BY <2>2, <2>3
<1>8. /\ ran \o (<<a>> \o u.gone) = Append(ran, a) \o u.gone
      /\ ToSet(<<a>> \o u.gone) = {a} \cup ToSet(u.gone)
  <2> HIDE DEF u, q
  <2> DEFINE t == u.gone
  <2>1. t \in Seq(Acts)
    BY <1>6
  <2> HIDE DEF t
  <2>2. Consed(ran, a, t)
    BY <2>1, ConsActs
  <2> QED
    BY <2>2 DEF t, Consed
<1> HIDE DEF u, q
<1> DEFINE P(x) == [impl[x] EXCEPT !.refs = IF x \in ToSet(<<a>> \o u.gone) THEN 0
                                   ELSE impl[x].refs - (IF x \in u.left THEN 1 ELSE 0)]
           Q(x) == [new[x] EXCEPT !.refs = IF x \in ToSet(u.gone) THEN 0
                                   ELSE new[x].refs - (IF x \in u.left THEN 1 ELSE 0)]
<1>9. Release(h, Counted(a)) = [ran |-> ran \o (<<a>> \o u.gone), impl |-> [x \in Acts |-> P(x)]]
  BY <1>7 DEF Release
<1>10. Release(g, q) = [ran |-> Append(ran, a) \o u.gone, impl |-> [x \in Acts |-> Q(x)]]
  BY <1>6 DEF Release
<1>11. \A x \in Acts : P(x) = Q(x)
  <2> SUFFICES ASSUME NEW x \in Acts PROVE P(x) = Q(x)
    OBVIOUS
  <2>1. CASE x = a
    <3>1. P(a) = [impl[a] EXCEPT !.refs = 0]
      BY <1>8
    <3>2. Q(a) = [new[a] EXCEPT !.refs = 0]
      BY <1>4, <1>6
    <3>3. [impl[a] EXCEPT !.refs = 0] = [refs |-> 0, next |-> q]
      BY SetRefs DEF q
    <3>4. [new[a] EXCEPT !.refs = 0] = [refs |-> 0, next |-> q]
      BY <1>4
    <3> QED
      BY <2>1, <3>1, <3>2, <3>3, <3>4
  <2>2. CASE x # a
    BY <1>4, <1>8, <2>2
  <2> QED
    BY <2>1, <2>2
<1> HIDE DEF P, Q
<1> QED
  BY ZenonT(40), <1>8, <1>9, <1>10, <1>11 DEF q

(* Destroying the handle that is not placed keeps everything in order.     *)
LEMMA ReleaseKeeps ==
    ASSUME NEW S, NEW C, NEW T, NEW B, NEW h, NEW p, Good(h.impl, h.ran, S, C, T, B, p),
           NEW g, g = Release(h, p)
    PROVE  Good(g.impl, g.ran, S, C, T, B, Empty)
<1>0. PICK k \in Nat : \E age : Aged(h.impl, k, age)
  BY DEF Good, Sound, Acyclic
<1>1. PICK age : Aged(h.impl, k, age)
  BY <1>0
<1> DEFINE l == k + 1
           Bad == {n \in 0..l : \E x, r : /\ Aged(x.impl, k, age)
                                        /\ Good(x.impl, x.ran, S, C, T, B, r)
                                        /\ AgeOf(age, r) = n
                                        /\ ~Good(Release(x, r).impl, Release(x, r).ran, S, C, T, B, Empty)}
<1>2. \A x, r : Aged(x.impl, k, age) /\ Good(x.impl, x.ran, S, C, T, B, r) => AgeOf(age, r) \in 0..l
  BY AgesFall DEF Good, Shapes
<1> SUFFICES ASSUME Bad # {} PROVE FALSE
  BY <1>1, <1>2
<1>3. l \in Nat /\ Bad \in SUBSET (0..l)
  OBVIOUS
<1>4. PICK n \in Bad : \A j \in Bad : n <= j
  <2> HIDE DEF Bad, l
  <2> QED
    BY <1>3, Least
<1>5. PICK x, r : /\ Aged(x.impl, k, age)
                  /\ Good(x.impl, x.ran, S, C, T, B, r)
                  /\ AgeOf(age, r) = n
                  /\ ~Good(Release(x, r).impl, Release(x, r).ran, S, C, T, B, Empty)
  OBVIOUS
<1>6. \A j \in 0..l : ~(n <= j) => j \notin Bad
  <2> HIDE DEF Bad
  <2> QED
    BY <1>4
<1>7. n \in 0..l
  OBVIOUS
<1> DEFINE impl == x.impl
           ran == x.ran
           N == NumberOf(impl, S, C, T, B, r)
           H == HeldBy(impl, S, C, T, B, r)
<1>8. impl \in Impls /\ ran \in Seq(Acts) /\ r \in Handles /\ Acyclic(impl)
  BY <1>5 DEF Good, Shapes, Sound
<1>9. r \in H /\ Typed(impl, ran, N, H) /\ HeldProper(impl, H)
  BY <1>5, TypedIs DEF HeldBy, Good, Sound
<1>10. CASE r = Empty
  <2>1. Release(x, r).impl = impl /\ Release(x, r).ran = ran
    BY <1>8, <1>10, ReleaseIs
  <2> QED
    BY <1>5, <1>10, <2>1
<1>11. ASSUME NEW a \in Acts, r = RawPtr(a) PROVE FALSE
  <2>1. impl[a].refs = 0
    <3>1. Proper(impl, a) = RawPtr(a) /\ impl[a].refs \in Nat
      BY <1>8, <1>9, <1>11, NamesIs, HandleKinds DEF HeldProper, Impls
    <3> QED
      BY <3>1, NamesIs DEF Proper
  <2>2. Release(x, r).impl = impl /\ Release(x, r).ran = Append(ran, a)
    BY SMTT(30), <1>8, <1>11, <2>1, ReleaseIs
  <2>3. Good(impl, Append(ran, a), S, C, T, B, Empty)
    BY <1>5, <1>11, ReleaseRaw
  <2> QED
    BY <1>5, <2>2, <2>3
<1>12. ASSUME NEW a \in Acts, r = Counted(a) PROVE FALSE
  <2>1. impl[a].refs > 0 /\ impl[a].refs \in Nat
    <3>1. Proper(impl, a) = Counted(a) /\ impl[a].refs \in Nat
      BY <1>8, <1>9, <1>12, NamesIs, HandleKinds DEF HeldProper, Impls
    <3> QED
      BY <3>1, NamesIs DEF Proper
  <2>2. CASE impl[a].refs > 1
    <3> DEFINE new == [impl EXCEPT ![a] = [refs |-> impl[a].refs - 1, next |-> impl[a].next]]
    <3>1. Release(x, r).impl = new /\ Release(x, r).ran = ran
      BY SMTT(30), <1>8, <1>12, <2>2, ReleaseIs
    <3>2. Good(new, ran, S, C, T, B, Empty)
      BY <1>5, <1>12, <2>2, ReleaseOne
    <3> QED
      BY <1>5, <3>1, <3>2
  <2>3. CASE impl[a].refs = 1
    <3> DEFINE new == [impl EXCEPT ![a] = [refs |-> 0, next |-> impl[a].next]]
               q == impl[a].next
               y == [impl |-> new, ran |-> Append(ran, a)]
    <3>1. Good(new, Append(ran, a), S, C, T, B, q)
      BY <1>5, <1>12, <2>3, ReleaseLast
    <3>2. Release(x, r) = Release(y, q)
      BY <1>8, <1>12, <2>3, ReleaseDeletes
    <3>3. y.impl = new /\ y.ran = Append(ran, a)
      OBVIOUS
    <3>4. Aged(y.impl, k, age)
      <4>1. \A z \in Acts : new[z].next = impl[z].next
        BY <1>8 DEF Impls
      <4> QED
        BY <1>5, <3>3, <4>1, NextsDecide
    <3>5. r.tag = "counted" /\ r.act = a
      BY <1>12, HandleKinds
    <3>6. AgeOf(age, q) < AgeOf(age, r)
      BY <1>5, <1>8, <3>5, AgesFall
    <3> HIDE DEF new, q, y
    <3>7. Good(y.impl, y.ran, S, C, T, B, q)
      BY <3>1, <3>3
    <3> DEFINE m == AgeOf(age, q)
    <3>8. m \in 0..l /\ ~(n <= m)
      <4>1. m \in 0..l
        BY <1>2, <3>4, <3>7
      <4> HIDE DEF m, l
      <4>2. m < n
        BY <1>5, <3>6 DEF m
      <4> QED
        BY <1>3, <1>7, <4>1, <4>2
    <3>9. m \notin Bad
      <4> HIDE DEF Bad, m, l
      <4> QED
        BY <1>6, <3>8
    <3>10. Good(Release(y, q).impl, Release(y, q).ran, S, C, T, B, Empty)
      <4> HIDE DEF l
      <4> QED
        BY <3>4, <3>7, <3>8, <3>9
    <3> QED
      BY <1>5, <3>2, <3>10
  <2> QED
    BY <2>1, <2>2, <2>3
<1> QED
  BY <1>8, <1>10, <1>11, <1>12, HandleKinds

HeapType == [impl : Impls, ran : Seq(Acts)]
ViewType == [at : Acts \cup {NoBlock}, off : Nat, size : Nat, cl : Handles]
CleanersOf(bf) == [b \in Buffers |-> bf[b].cl]
GoodHeap(h, S, C, T, B, p) == h \in HeapType /\ Good(h.impl, h.ran, S, C, T, B, p)

(* A handle is placed, and the one that was there is destroyed.            *)
LEMMA PlaceKeeps ==
    ASSUME NEW h, NEW S, NEW C, NEW T, NEW B, NEW p, GoodHeap(h, S, C, T, B, p),
           NEW s \in S, NEW D, NEW q, Exchanged(C, s, p, D, q), NEW g, g = Release(h, q)
    PROVE  GoodHeap(g, S, D, T, B, Empty)
<1>1. Good(h.impl, h.ran, S, D, T, B, q)
  BY Swap DEF GoodHeap
<1>2. Good(g.impl, g.ran, S, D, T, B, Empty)
  BY <1>1, ReleaseKeeps
<1>3. g = [ran |-> g.ran, impl |-> g.impl]
  BY DEF Release
<1>4. g.ran \in Seq(Acts) /\ g.impl \in Impls
  BY <1>2 DEF Good, Shapes
<1>5. g \in HeapType
  BY <1>3, <1>4 DEF HeapType
<1> QED
  BY <1>2, <1>5 DEF GoodHeap

Written(h, a, r)  == [h EXCEPT !.impl[a] = r]
AddedTo(h, a)     == [h EXCEPT !.impl[a].refs = @ + 1]
IsWritten(g, h, a, r) ==
    g \in HeapType /\ g.impl = [h.impl EXCEPT ![a] = r] /\ g.ran = h.ran

(* Writing one impl of a heap.                                             *)
LEMMA WriteImpl ==
    ASSUME NEW h \in HeapType, NEW a \in Acts, NEW r \in [refs : Nat, next : Handles],
           NEW g, g = Written(h, a, r)
    PROVE  IsWritten(g, h, a, r)
<1>1. h.impl \in Impls /\ h.ran \in Seq(Acts) /\ h = [impl |-> h.impl, ran |-> h.ran]
  BY DEF HeapType
<1>2. g = [impl |-> [h.impl EXCEPT ![a] = r], ran |-> h.ran]
  BY <1>1 DEF Written
<1>3. [h.impl EXCEPT ![a] = r] \in Impls
  BY <1>1 DEF Impls
<1> QED
  BY <1>1, <1>2, <1>3 DEF HeapType, IsWritten

(* The increment of share() writes one impl.                               *)
LEMMA AddOwner ==
    ASSUME NEW h \in HeapType, NEW a \in Acts,
           NEW r, r = [refs |-> h.impl[a].refs + 1, next |-> h.impl[a].next],
           NEW g, g = AddedTo(h, a)
    PROVE  IsWritten(g, h, a, r)
<1>1. h.impl \in Impls /\ h.ran \in Seq(Acts) /\ h = [impl |-> h.impl, ran |-> h.ran]
  BY DEF HeapType
<1> DEFINE v == h.impl[a].refs + 1
<1>2. v \in Nat /\ r \in [refs : Nat, next : Handles]
  BY <1>1 DEF Impls
<1>3. [h.impl[a] EXCEPT !.refs = v] = r
  BY <1>1, SetRefs
<1>4. g = [h EXCEPT !.impl = [h.impl EXCEPT ![a] = [h.impl[a] EXCEPT !.refs = v]]]
  BY <1>1 DEF AddedTo
<1>5. g = [h EXCEPT !.impl = [h.impl EXCEPT ![a] = r]]
  <2> HIDE DEF v
  <2> QED
    BY <1>3, <1>4
<1>6. g = [impl |-> [h.impl EXCEPT ![a] = r], ran |-> h.ran]
  BY <1>1, <1>5
<1>7. [h.impl EXCEPT ![a] = r] \in Impls
  BY <1>1, <1>2 DEF Impls
<1>8. g \in HeapType /\ g.impl = [h.impl EXCEPT ![a] = r] /\ g.ran = h.ran
  BY <1>1, <1>6, <1>7 DEF HeapType
<1> QED
  BY <1>8 DEF IsWritten

Puts(f, x, v, g) == g = [f EXCEPT ![x] = v]

(* share(): the cleaner keeps a counted handle and a second one is made.   *)
LEMMA ShareKeeps ==
    ASSUME NEW h, NEW S, NEW C, NEW T, NEW B, GoodHeap(h, S, C, T, B, Empty),
           NEW s \in S, NEW p, p = Promoted(C[s]), NEW D, Puts(C, s, p, D),
           NEW g, g = Share(h, C[s])
    PROVE  GoodHeap(g, S, D, T, B, p) /\ D[s] = p
<1> DEFINE impl == h.impl
           ran == h.ran
           x == C[s]
<1>1. /\ Good(impl, ran, S, C, T, B, Empty) /\ h \in HeapType /\ impl \in Impls
      /\ C \in [S -> Handles] /\ x \in Handles
  BY DEF GoodHeap, Good, Shapes
<1>2. D[s] = p
  BY <1>1 DEF Puts
<1>3. CASE x = Empty
  <2>1. p = x /\ g = h
    BY <1>3, HandleKinds DEF Promoted, Share
  <2>2. D = C
    BY <1>1, <2>1 DEF Puts
  <2> QED
    BY <1>1, <1>2, <1>3, <2>1, <2>2 DEF GoodHeap
<1>4. ASSUME NEW a \in Acts, x = RawPtr(a) PROVE GoodHeap(g, S, D, T, B, p)
  <2> DEFINE one == [impl EXCEPT ![a] = [refs |-> 1, next |-> Empty]]
             two == [impl EXCEPT ![a] = [refs |-> 2, next |-> Empty]]
             E == [C EXCEPT ![s] = Empty]
  <2>1. p = Counted(a) /\ x # Empty /\ x.tag = "raw" /\ x.act = a
    BY <1>4, HandleKinds, NamesIs DEF Promoted
  <2>2. Good(impl, ran, S, E, T, B, x)
    <3>1. Exchanged(C, s, Empty, E, x)
      BY DEF Exchanged
    <3> HIDE DEF E, x
    <3> QED
      BY <1>1, <3>1, Swap
  <2>3. Good(one, ran, S, E, T, B, p)
    <3> HIDE DEF E, x
    <3> QED
      BY <1>4, <2>1, <2>2, PromoteRaw
  <2>4. Good(one, ran, S, D, T, B, Empty)
    <3>1. Exchanged(E, s, p, D, Empty)
      BY <1>1 DEF Exchanged, Puts
    <3> HIDE DEF E, one
    <3> QED
      BY <2>3, <3>1, Swap
  <2>5. Good(two, ran, S, D, T, B, p)
    <3>1. two = [one EXCEPT ![a] = [refs |-> one[a].refs + 1, next |-> one[a].next]]
      <4>1. one[a].refs + 1 = 2 /\ one[a].next = Empty
        BY <1>1 DEF Impls
      <4>2. two = [one EXCEPT ![a] = [refs |-> 2, next |-> Empty]]
        BY <1>1 DEF Impls
      <4> HIDE DEF one, two
      <4> QED
        BY <4>1, <4>2
    <3> HIDE DEF one, two
    <3> QED
      BY <1>2, <2>1, <2>4, <3>1, OneMoreOwner
  <2>6. g = Written(h, a, [refs |-> 2, next |-> Empty])
    BY <2>1 DEF Share, Written
  <2>7. [refs |-> 2, next |-> Empty] \in [refs : Nat, next : Handles]
    BY HandleKinds
  <2>8. IsWritten(g, h, a, [refs |-> 2, next |-> Empty])
    BY <1>1, <2>6, <2>7, WriteImpl
  <2> QED
    BY <2>5, <2>8 DEF GoodHeap, IsWritten
<1>5. ASSUME NEW a \in Acts, x = Counted(a) PROVE GoodHeap(g, S, D, T, B, p)
  <2> DEFINE new == [impl EXCEPT ![a] = [refs |-> impl[a].refs + 1, next |-> impl[a].next]]
  <2>1. p = Counted(a) /\ p = x /\ x # Empty /\ x.tag # "raw" /\ x.act = a
    BY <1>5, HandleKinds, NamesIs DEF Promoted
  <2>2. D = C
    BY <1>1, <2>1 DEF Puts
  <2>3. Good(new, ran, S, C, T, B, p)
    BY <1>1, <1>5, <2>1, OneMoreOwner
  <2>4. g = AddedTo(h, a)
    BY <2>1 DEF Share, AddedTo
  <2>5. IsWritten(g, h, a, [refs |-> impl[a].refs + 1, next |-> impl[a].next])
    BY <1>1, <2>4, AddOwner
  <2> QED
    BY <2>2, <2>3, <2>5 DEF GoodHeap, IsWritten
<1>6. x = Empty \/ (\E a \in Acts : x = RawPtr(a)) \/ (\E a \in Acts : x = Counted(a))
  BY <1>1, HandleKinds
<1> HIDE DEF x
<1> QED
  BY <1>2, <1>3, <1>4, <1>5, <1>6

(* An action with no impl and no raw pointer has no owner at all.          *)
LEMMA NoOwner ==
    ASSUME NEW impl, NEW ran, NEW S, NEW C, NEW T, NEW B, NEW p,
           Good(impl, ran, S, C, T, B, p), NEW a \in Acts, impl[a].refs = 0,
           RawPtr(a) \notin HeldBy(impl, S, C, T, B, p)
    PROVE  Number(impl, S, C, T, B, p, a) = 0
<1> DEFINE N == NumberOf(impl, S, C, T, B, p)
           H == HeldBy(impl, S, C, T, B, p)
<1>1. Typed(impl, ran, N, H) /\ HeldProper(impl, H)
  BY TypedIs DEF Good, Sound
<1>2. N[a] = Number(impl, S, C, T, B, p, a)
  BY DEF NumberOf
<1> HIDE DEF N, H
<1>3. N[a] \in Nat /\ (N[a] > 0 <=> \E h \in H : Names(h, a)) /\ H \subseteq Handles
  BY <1>1 DEF Typed, Tally
<1>4. ASSUME NEW h \in H, Names(h, a) PROVE FALSE
  <2>1. h # Empty /\ h.act = a
    BY <1>3, <1>4, NamesIs
  <2>2. h = Proper(impl, a)
    BY <1>1, <2>1 DEF HeldProper
  <2> QED
    BY <2>2 DEF Proper, H
<1> QED
  BY <1>2, <1>3, <1>4

GH(h, C, bf, p)  == GoodHeap(h, Cleaners, C, Buffers, CleanersOf(bf), p)
Views            == [Buffers -> ViewType]

(* Writing a view writes its cleaner.                                      *)
LEMMA ViewsCleaner ==
    ASSUME NEW bf \in Views, NEW b \in Buffers, NEW v \in ViewType, NEW bg, Puts(bf, b, v, bg)
    PROVE  /\ Exchanged(CleanersOf(bf), b, v.cl, CleanersOf(bg), bf[b].cl)
           /\ bg \in Views /\ bg[b] = v /\ \A e \in Buffers : e # b => bg[e] = bf[e]
<1>1. bg \in Views /\ bg[b] = v /\ \A e \in Buffers : e # b => bg[e] = bf[e]
  BY DEF Puts, Views
<1>2. /\ CleanersOf(bf) \in [Buffers -> {CleanersOf(bf)[e] : e \in Buffers}]
      /\ DOMAIN CleanersOf(bf) = Buffers /\ DOMAIN CleanersOf(bg) = Buffers
      /\ \A e \in Buffers : CleanersOf(bf)[e] = bf[e].cl /\ CleanersOf(bg)[e] = bg[e].cl
  BY DEF CleanersOf
<1>3. CleanersOf(bg) = [CleanersOf(bf) EXCEPT ![b] = v.cl]
  BY <1>1 DEF CleanersOf
<1> QED
  BY <1>1, <1>2, <1>3 DEF Exchanged

(* The two kinds of variables may be looked at in either order.            *)
LEMMA GHOther ==
    ASSUME NEW h, NEW S, NEW C, NEW T, NEW B, NEW p, GoodHeap(h, S, C, T, B, p)
    PROVE  GoodHeap(h, T, B, S, C, p)
BY OtherSide DEF GoodHeap

(* A handle taken out of a variable, or out of a view.                     *)
LEMMA TakeCleaner ==
    ASSUME NEW h, NEW C, NEW bf, NEW d \in Cleaners, NEW D, GH(h, C, bf, Empty),
           Puts(C, d, Empty, D), NEW q, q = C[d]
    PROVE  GH(h, D, bf, q)
<1>1. Exchanged(C, d, Empty, D, q)
  BY DEF Exchanged, Puts
<1>2. Good(h.impl, h.ran, Cleaners, C, Buffers, CleanersOf(bf), Empty) /\ h \in HeapType
  BY DEF GH, GoodHeap
<1>3. Good(h.impl, h.ran, Cleaners, D, Buffers, CleanersOf(bf), q)
  BY <1>1, <1>2, Swap
<1> QED
  BY <1>2, <1>3 DEF GH, GoodHeap

(* A handle moved out of a view, and the view replaced by one that owns    *)
(* nothing.                                                                *)
LEMMA TakeView ==
    ASSUME NEW h, NEW C, NEW bf \in Views, NEW b \in Buffers, NEW v \in ViewType, NEW bg,
           GH(h, C, bf, Empty), v.cl = Empty, Puts(bf, b, v, bg), NEW q, q = bf[b].cl
    PROVE  GH(h, C, bg, q)
<1>1. Exchanged(CleanersOf(bf), b, Empty, CleanersOf(bg), q)
  BY ViewsCleaner
<1>2. Good(h.impl, h.ran, Buffers, CleanersOf(bf), Cleaners, C, Empty) /\ h \in HeapType
  BY GHOther DEF GH, GoodHeap
<1>3. Good(h.impl, h.ran, Buffers, CleanersOf(bg), Cleaners, C, q)
  BY <1>1, <1>2, Swap
<1> QED
  BY <1>2, <1>3, GHOther DEF GH, GoodHeap

(* The handle not placed is moved into a variable, or into a view.         *)
LEMMA PutsCleaner ==
    ASSUME NEW h, NEW C, NEW bf, NEW c \in Cleaners, NEW D, NEW p, GH(h, C, bf, p),
           Puts(C, c, p, D), NEW g, g = Release(h, C[c])
    PROVE  GH(g, D, bf, Empty)
<1>1. Exchanged(C, c, p, D, C[c])
  BY DEF Exchanged, Puts
<1> QED
  BY <1>1, PlaceKeeps DEF GH

(* The unplaced handle put into a view: the handle it held is released.    *)
LEMMA PutsView ==
    ASSUME NEW h, NEW C, NEW bf \in Views, NEW b \in Buffers, NEW v \in ViewType, NEW bg,
           GH(h, C, bf, v.cl), Puts(bf, b, v, bg), NEW g, g = Release(h, bf[b].cl)
    PROVE  GH(g, C, bg, Empty)
<1>1. Exchanged(CleanersOf(bf), b, v.cl, CleanersOf(bg), bf[b].cl)
  BY ViewsCleaner
<1>2. GoodHeap(h, Buffers, CleanersOf(bf), Cleaners, C, v.cl)
  BY GHOther DEF GH
<1>3. GoodHeap(g, Buffers, CleanersOf(bg), Cleaners, C, Empty)
  BY <1>1, <1>2, PlaceKeeps
<1> QED
  BY <1>3, GHOther DEF GH

(* share() of a variable, or of a view.                                    *)
LEMMA SharesCleaner ==
    ASSUME NEW h, NEW C, NEW bf, NEW d \in Cleaners, NEW D, NEW p, GH(h, C, bf, Empty),
           p = Promoted(C[d]), Puts(C, d, p, D), NEW g, g = Share(h, C[d])
    PROVE  GH(g, D, bf, p)
<1>1. GoodHeap(h, Cleaners, C, Buffers, CleanersOf(bf), Empty)
  BY DEF GH
<1>2. GoodHeap(g, Cleaners, D, Buffers, CleanersOf(bf), p)
  BY <1>1, ShareKeeps
<1> QED
  BY <1>2 DEF GH

(* share() of a view's cleaner: the view keeps the promoted handle, and    *)
(* the same handle is the unplaced one.                                    *)
LEMMA SharesView ==
    ASSUME NEW h, NEW C, NEW bf \in Views, NEW d \in Buffers, NEW v \in ViewType, NEW bg,
           GH(h, C, bf, Empty), v.cl = Promoted(bf[d].cl), Puts(bf, d, v, bg),
           NEW g, g = Share(h, bf[d].cl)
    PROVE  GH(g, C, bg, v.cl)
<1> DEFINE B == CleanersOf(bf)
           D == CleanersOf(bg)
           p == v.cl
<1>1. GoodHeap(h, Buffers, B, Cleaners, C, Empty)
  BY GHOther DEF GH
<1>2. Exchanged(B, d, p, D, bf[d].cl)
  BY ViewsCleaner
<1>3. B[d] = bf[d].cl
  BY DEF CleanersOf
<1> HIDE DEF B, D, p
<1>4. p = Promoted(B[d]) /\ Puts(B, d, p, D) /\ g = Share(h, B[d])
  BY <1>2, <1>3 DEF Exchanged, Puts, p
<1>5. GoodHeap(g, Buffers, D, Cleaners, C, p)
  BY <1>1, <1>4, ShareKeeps
<1> QED
  BY <1>5, GHOther DEF GH, D, p

(* What a new action has: nothing.                                         *)
LEMMA MakesRaw ==
    ASSUME NEW h, NEW C, NEW bf, NEW a \in Acts, GH(h, C, bf, Empty),
           a \notin ToSet(h.ran), h.impl[a].refs = 0,
           RawPtr(a) \notin HeldBy(h.impl, Cleaners, C, Buffers, CleanersOf(bf), Empty),
           NEW q, q = RawPtr(a)
    PROVE  GH(h, C, bf, q)
<1>1. Good(h.impl, h.ran, Cleaners, C, Buffers, CleanersOf(bf), Empty) /\ h \in HeapType
  BY DEF GH, GoodHeap
<1>2. Number(h.impl, Cleaners, C, Buffers, CleanersOf(bf), Empty, a) = 0
  BY <1>1, NoOwner
<1>3. Good(h.impl, h.ran, Cleaners, C, Buffers, CleanersOf(bf), q)
  BY <1>1, <1>2, NewRaw
<1> QED
  BY <1>1, <1>3 DEF GH, GoodHeap

(* make_lambda_cleaner() with an action nothing else names.                *)
LEMMA MakesImpl ==
    ASSUME NEW h, NEW C, NEW bf, NEW p, NEW a \in Acts, GH(h, C, bf, p),
           a \notin ToSet(h.ran), h.impl[a].refs = 0,
           RawPtr(a) \notin HeldBy(h.impl, Cleaners, C, Buffers, CleanersOf(bf), p),
           NEW q, q = Counted(a), NEW g, g = MakeCounted(h, p, a)
    PROVE  GH(g, C, bf, q)
<1>1. Good(h.impl, h.ran, Cleaners, C, Buffers, CleanersOf(bf), p) /\ h \in HeapType
  BY DEF GH, GoodHeap
<1>2. Number(h.impl, Cleaners, C, Buffers, CleanersOf(bf), p, a) = 0
  BY <1>1, NoOwner
<1> DEFINE r == [refs |-> 1, next |-> p]
           new == [h.impl EXCEPT ![a] = r]
<1>3. Good(new, h.ran, Cleaners, C, Buffers, CleanersOf(bf), q)
  BY <1>1, <1>2, NewImpl
<1>4. p \in Handles /\ r \in [refs : Nat, next : Handles]
  BY <1>1 DEF Good, Shapes
<1>5. g = Written(h, a, r)
  BY DEF MakeCounted, Written
<1>6. IsWritten(g, h, a, r)
  <2> HIDE DEF r
  <2> QED
    BY <1>1, <1>4, <1>5, WriteImpl
<1> QED
  BY <1>3, <1>6 DEF GH, GoodHeap, IsWritten

ViewOK(v, cut) ==
    v.size > 0 => /\ v.off + v.size <= BlockLen
                  /\ v.at \in cut \/ (v.cl # Empty /\ v.cl.act = v.at)
BufferInv ==
    /\ GH(heap, cl, buf, Empty) /\ buf \in Views
    /\ \A b \in Buffers : ViewOK(buf[b], detached)

(* What an action nobody registered has.                                   *)
LEMMA FreshIs ==
    ASSUME BufferInv, NEW a \in Acts, Unregistered(a)
    PROVE  /\ a \notin ToSet(heap.ran) /\ heap.impl[a].refs = 0
           /\ RawPtr(a) \notin HeldBy(heap.impl, Cleaners, cl, Buffers, CleanersOf(buf), Empty)
<1>1. /\ a \notin ToSet(heap.ran) /\ heap.impl[a].refs = 0 /\ RawPtr(a) \notin HandlesHeld
      /\ \A x \in Acts : heap.impl[x].next # RawPtr(a)
  BY DEF Unregistered, IsFresh
<1>2. RawPtr(a) # Empty
  BY NamesIs
<1>3. \A x \in Acts : Nexts(heap.impl)[x] # RawPtr(a)
  BY <1>1, <1>2 DEF Nexts
<1>4. \A b \in Buffers : CleanersOf(buf)[b] = buf[b].cl
  BY DEF CleanersOf
<1>5. RawPtr(a) \notin HeldBy(heap.impl, Cleaners, cl, Buffers, CleanersOf(buf), Empty)
  BY <1>1, <1>2, <1>3, <1>4 DEF HeldBy, HandlesHeld
<1> QED
  BY <1>1, <1>5

(* The types of what the actions write.                                    *)
LEMMA BufferTypes ==
    ASSUME BufferInv
    PROVE  /\ heap \in HeapType /\ cl \in [Cleaners -> Handles]
           /\ \A b \in Buffers : /\ buf[b] \in ViewType
                                 /\ buf[b] = [at |-> buf[b].at, off |-> buf[b].off,
                                              size |-> buf[b].size, cl |-> buf[b].cl]
                                 /\ buf[b].at \in Acts \cup {NoBlock} /\ buf[b].off \in Nat
                                 /\ buf[b].size \in Nat /\ buf[b].cl \in Handles
           /\ NullBuffer \in ViewType /\ NullBuffer.cl = Empty /\ NullBuffer.size = 0
           /\ BlockLen \in Nat \ {0}
<1>1. heap \in HeapType /\ cl \in [Cleaners -> Handles]
  BY DEF BufferInv, GH, GoodHeap, Good, Shapes
<1>2. \A b \in Buffers : buf[b] \in ViewType
  BY DEF BufferInv, Views
<1>3. \A v \in ViewType : /\ v = [at |-> v.at, off |-> v.off, size |-> v.size, cl |-> v.cl]
                          /\ v.at \in Acts \cup {NoBlock} /\ v.off \in Nat
                          /\ v.size \in Nat /\ v.cl \in Handles
  BY DEF ViewType
<1>4. NullBuffer \in ViewType /\ NullBuffer.cl = Empty /\ NullBuffer.size = 0
  BY HandleKinds DEF NullBuffer, ViewType
<1> QED
  BY <1>1, <1>2, <1>3, <1>4, BufferAssumption

(* What the edits of a view yield.                                         *)
LEMMA ViewEdits ==
    ASSUME NEW x \in ViewType, NEW k
    PROVE  [x EXCEPT !.cl = k] = [at |-> x.at, off |-> x.off, size |-> x.size, cl |-> k]
BY DEF ViewType

(* A promoted handle names the same action.                                *)
LEMMA PromotedNames ==
    ASSUME NEW h \in Handles
    PROVE  Promoted(h) \in Handles /\ (h # Empty => Promoted(h) # Empty /\ Promoted(h).act = h.act)
<1>1. CASE h = Empty
  BY <1>1, HandleKinds DEF Promoted
<1>2. ASSUME NEW a \in Acts, h = RawPtr(a) PROVE Promoted(h) = Counted(a) /\ h.act = a
  BY <1>2, HandleKinds DEF Promoted
<1>3. ASSUME NEW a \in Acts, h = Counted(a) PROVE Promoted(h) = Counted(a) /\ h.act = a
  BY <1>3, HandleKinds DEF Promoted
<1> QED
  BY <1>1, <1>2, <1>3, HandleKinds, NamesIs

(* The operations of cleaners, one by one.                                 *)
LEMMA DropCleanerStep ==
    ASSUME BufferInv, NEW c \in Cleaners, DropCleaner(c)
    PROVE  BufferInv'
<1>1. Puts(cl, c, Empty, cl') /\ heap' = Release(heap, cl[c]) /\ buf' = buf /\ detached' = detached
  BY DEF DropCleaner, PutCleaner, Puts
<1>2. GH(heap', cl', buf, Empty)
  BY <1>1, PutsCleaner DEF BufferInv
<1> QED
  BY <1>1, <1>2 DEF BufferInv

(* make_free_cleaner() into a variable.                                    *)
LEMMA MakeRawCleanerStep ==
    ASSUME BufferInv, NEW c \in Cleaners, NEW a \in Acts, MakeRawCleaner(c, a)
    PROVE  BufferInv'
<1>1. /\ Puts(cl, c, RawPtr(a), cl') /\ heap' = Release(heap, cl[c]) /\ buf' = buf
      /\ detached' = detached /\ Unregistered(a)
  BY DEF MakeRawCleaner, PutCleaner, Puts
<1>2. GH(heap, cl, buf, RawPtr(a))
  BY <1>1, FreshIs, MakesRaw DEF BufferInv
<1>3. GH(heap', cl', buf, Empty)
  BY <1>1, <1>2, PutsCleaner
<1> QED
  BY <1>1, <1>3 DEF BufferInv

(* share() of one variable into another.                                   *)
LEMMA ShareCleanerStep ==
    ASSUME BufferInv, NEW c \in Cleaners, NEW d \in Cleaners, ShareCleaner(c, d)
    PROVE  BufferInv'
<1> DEFINE p == Promoted(cl[d])
           D == [cl EXCEPT ![d] = p]
           h == Share(heap, cl[d])
<1>1. /\ Puts(cl, d, p, D) /\ Puts(D, c, p, cl') /\ heap' = Release(h, D[c]) /\ buf' = buf
      /\ detached' = detached
  BY DEF ShareCleaner, PutCleaner, Puts
<1> HIDE DEF D, h
<1>2. GH(h, D, buf, p)
  BY <1>1, SharesCleaner DEF BufferInv, h
<1> HIDE DEF p
<1>3. GH(heap', cl', buf, Empty)
  BY <1>1, <1>2, PutsCleaner
<1> QED
  BY <1>1, <1>3 DEF BufferInv

(* The move of a cleaner.                                                  *)
LEMMA MoveCleanerStep ==
    ASSUME BufferInv, NEW c \in Cleaners, NEW d \in Cleaners, MoveCleaner(c, d)
    PROVE  BufferInv'
<1> DEFINE p == cl[d]
           D == [cl EXCEPT ![d] = Empty]
<1>1. /\ c # d /\ heap' = Release(heap, cl[c]) /\ buf' = buf /\ detached' = detached
      /\ cl' = [cl EXCEPT ![c] = p, ![d] = Empty]
  BY DEF MoveCleaner
<1>2. cl \in [Cleaners -> Handles]
  BY BufferTypes
<1>3. Puts(cl, d, Empty, D) /\ Puts(D, c, p, cl') /\ D[c] = cl[c]
  BY <1>1, <1>2 DEF Puts
<1> HIDE DEF D, p
<1>4. GH(heap, D, buf, p)
  BY <1>3, TakeCleaner DEF BufferInv, p
<1>5. GH(heap', cl', buf, Empty)
  BY <1>1, <1>3, <1>4, PutsCleaner
<1> QED
  BY <1>1, <1>5 DEF BufferInv

(* make_lambda_cleaner() around a variable's cleaner.                      *)
LEMMA MakeCleanerStep ==
    ASSUME BufferInv, NEW c \in Cleaners, NEW d \in Cleaners, NEW a \in Acts, MakeCleaner(c, d, a)
    PROVE  BufferInv'
<1> DEFINE p == cl[d]
           D == [cl EXCEPT ![d] = Empty]
           h == MakeCounted(heap, p, a)
<1>1. /\ Unregistered(a) /\ Puts(cl, d, Empty, D) /\ Puts(D, c, Counted(a), cl')
      /\ heap' = Release(h, D[c]) /\ buf' = buf /\ detached' = detached
  BY DEF MakeCleaner, PutCleaner, Puts
<1>2. cl \in [Cleaners -> Handles]
  BY BufferTypes
<1>3. \A e \in Cleaners : D[e] \in {cl[e], Empty}
  BY <1>2
<1> HIDE DEF D, h
<1>4. GH(heap, D, buf, p)
  BY <1>1, TakeCleaner DEF BufferInv
<1>5. RawPtr(a) \notin HeldBy(heap.impl, Cleaners, D, Buffers, CleanersOf(buf), p)
  BY <1>1, <1>3, FreshIs DEF HeldBy
<1> HIDE DEF p
<1>6. GH(h, D, buf, Counted(a))
  BY <1>1, <1>4, <1>5, FreshIs, MakesImpl DEF h
<1>7. GH(heap', cl', buf, Empty)
  BY <1>1, <1>6, PutsCleaner
<1> QED
  BY <1>1, <1>7 DEF BufferInv

(* The operations of buffers, one by one.                                  *)
LEMMA DropBufferStep ==
    ASSUME BufferInv, NEW b \in Buffers, DropBuffer(b)
    PROVE  BufferInv'
<1>1. /\ Puts(buf, b, NullBuffer, buf') /\ heap' = Release(heap, buf[b].cl) /\ cl' = cl
      /\ detached' = detached
  BY DEF DropBuffer, PutBuffer, Puts
<1>2. /\ NullBuffer \in ViewType /\ NullBuffer.cl = Empty /\ buf \in Views
      /\ GH(heap, cl, buf, Empty) /\ NullBuffer.size = 0
  BY BufferTypes DEF BufferInv
<1>3. GH(heap', cl, buf', Empty)
  BY <1>1, <1>2, PutsView
<1>4. buf' \in Views /\ \A e \in Buffers : ViewOK(buf'[e], detached)
  <2>1. /\ buf' \in Views /\ buf'[b] = NullBuffer
        /\ \A e \in Buffers : e # b => buf'[e] = buf[e]
    BY <1>1, <1>2, ViewsCleaner
  <2>2. ViewOK(NullBuffer, detached)
    BY <1>2 DEF ViewOK
  <2> QED
    BY <2>1, <2>2 DEF BufferInv
<1> QED
  BY <1>1, <1>3, <1>4 DEF BufferInv

(* The construction of a buffer by its size.                               *)
LEMMA NewBufferStep ==
    ASSUME BufferInv, NEW b \in Buffers, NEW a \in Acts, NewBuffer(b, a)
    PROVE  BufferInv'
<1> DEFINE v == [at |-> a, off |-> 0, size |-> BlockLen, cl |-> RawPtr(a)]
<1>1. /\ Puts(buf, b, v, buf') /\ heap' = Release(heap, buf[b].cl) /\ cl' = cl
      /\ detached' = detached /\ Unregistered(a)
  BY DEF NewBuffer, PutBuffer, Puts
<1>2. v \in ViewType /\ v.cl = RawPtr(a) /\ buf \in Views
  BY BufferTypes, HandleKinds DEF BufferInv, ViewType
<1>3. ViewOK(v, detached)
  BY BufferTypes, HandleKinds, NamesIs DEF ViewOK
<1> HIDE DEF v
<1>4. GH(heap, cl, buf, RawPtr(a))
  BY <1>1, FreshIs, MakesRaw DEF BufferInv
<1>5. GH(heap', cl, buf', Empty)
  BY <1>1, <1>2, <1>4, PutsView
<1>6. buf' \in Views /\ \A e \in Buffers : ViewOK(buf'[e], detached)
  <2>1. /\ buf' \in Views /\ buf'[b] = v
        /\ \A e \in Buffers : e # b => buf'[e] = buf[e]
    BY <1>1, <1>2, ViewsCleaner
  <2> QED
    BY <1>3, <2>1 DEF BufferInv
<1> QED
  BY <1>1, <1>5, <1>6 DEF BufferInv

(* The construction of a buffer around memory and a cleaner.               *)
LEMMA WrapBufferStep ==
    ASSUME BufferInv, NEW b \in Buffers, NEW c \in Cleaners, WrapBuffer(b, c)
    PROVE  BufferInv'
<1> DEFINE p == cl[c]
           v == [at |-> p.act, off |-> 0, size |-> BlockLen, cl |-> p]
<1>1. /\ Puts(buf, b, v, buf') /\ heap' = Release(heap, buf[b].cl) /\ Puts(cl, c, Empty, cl')
      /\ detached' = detached /\ p # Empty
  BY DEF WrapBuffer, PutBuffer, Puts
<1>2. p \in Handles /\ p.act \in Acts
  BY <1>1, BufferTypes, HandleKinds
<1>3. v \in ViewType /\ v.cl = p /\ buf \in Views
  BY <1>2, BufferTypes DEF BufferInv, ViewType
<1>4. ViewOK(v, detached)
  BY <1>1, BufferTypes DEF ViewOK
<1>5. GH(heap, cl', buf, p)
  BY <1>1, TakeCleaner DEF BufferInv
<1> HIDE DEF v, p
<1>6. GH(heap', cl', buf', Empty)
  BY <1>1, <1>3, <1>5, PutsView
<1>7. buf' \in Views /\ \A e \in Buffers : ViewOK(buf'[e], detached)
  <2>1. /\ buf' \in Views /\ buf'[b] = v
        /\ \A e \in Buffers : e # b => buf'[e] = buf[e]
    BY <1>1, <1>3, ViewsCleaner
  <2> QED
    BY <1>4, <2>1 DEF BufferInv
<1> QED
  BY <1>1, <1>6, <1>7 DEF BufferInv

\* A buffer moves to another variable, cut to s bytes.
MovedCut(b, d, s) ==
    /\ b # d /\ s \in Nat /\ s <= buf[d].size
    /\ Puts(buf, d, NullBuffer, [buf EXCEPT ![d] = NullBuffer])
    /\ Puts([buf EXCEPT ![d] = NullBuffer], b, Cut(buf[d], buf[d].off, s), buf')
    /\ heap' = Release(heap, buf[b].cl) /\ cl' = cl /\ detached' = detached

(* A buffer moved and trimmed on the way.                                  *)
LEMMA MovedCutStep ==
    ASSUME BufferInv, NEW b \in Buffers, NEW d \in Buffers, NEW s, MovedCut(b, d, s)
    PROVE  BufferInv'
<1> DEFINE p == buf[d].cl
           v == Cut(buf[d], buf[d].off, s)
           mid == [buf EXCEPT ![d] = NullBuffer]
<1>1. /\ Puts(buf, d, NullBuffer, mid) /\ Puts(mid, b, v, buf') /\ b # d
      /\ heap' = Release(heap, buf[b].cl) /\ cl' = cl /\ detached' = detached
      /\ s \in Nat /\ s <= buf[d].size
  BY DEF MovedCut
<1>2. buf \in Views /\ NullBuffer \in ViewType /\ NullBuffer.cl = Empty /\ NullBuffer.size = 0
  BY BufferTypes DEF BufferInv
<1>3. v = [at |-> buf[d].at, off |-> buf[d].off, size |-> s, cl |-> p]
  BY DEF Cut
<1>4. v \in ViewType /\ v.cl = p /\ v.at = buf[d].at /\ v.off = buf[d].off /\ v.size = s
  <2> HIDE DEF p, v
  <2> QED
    BY <1>1, <1>3, BufferTypes DEF ViewType, p
<1> HIDE DEF v, p, mid
<1>5. ViewOK(v, detached)
  <2>1. ViewOK(buf[d], detached)
    BY DEF BufferInv
  <2>2. buf[d].off \in Nat /\ buf[d].size \in Nat /\ BlockLen \in Nat
    BY BufferTypes
  <2>3. s > 0 => buf[d].size > 0 /\ (buf[d].off + buf[d].size <= BlockLen => buf[d].off + s <= BlockLen)
    BY <1>1, <2>2
  <2> QED
    BY <1>4, <2>1, <2>3 DEF ViewOK, p
<1>6. /\ mid \in Views /\ mid[d] = NullBuffer
      /\ \A e \in Buffers : e # d => mid[e] = buf[e]
  BY <1>1, <1>2, ViewsCleaner
<1>7. GH(heap, cl, mid, p)
  BY <1>1, <1>2, TakeView DEF BufferInv, p
<1>8. GH(heap', cl, buf', Empty)
  <2>1. heap' = Release(heap, mid[b].cl)
    BY <1>1, <1>6
  <2> QED
    BY <1>1, <1>4, <1>6, <1>7, <2>1, PutsView
<1>9. buf' \in Views /\ \A e \in Buffers : ViewOK(buf'[e], detached)
  <2>1. /\ buf' \in Views /\ buf'[b] = v
        /\ \A e \in Buffers : e # b => buf'[e] = mid[e]
    BY <1>1, <1>4, <1>6, ViewsCleaner
  <2>2. ViewOK(NullBuffer, detached)
    BY <1>2 DEF ViewOK
  <2> QED
    BY <1>5, <1>6, <2>1, <2>2 DEF BufferInv
<1> QED
  BY <1>1, <1>8, <1>9 DEF BufferInv

(* A part of a buffer, shared with it.                                     *)
LEMMA ViewStep ==
    ASSUME BufferInv, NEW b \in Buffers, NEW d \in Buffers, NEW o \in Nat, NEW s \in Nat,
           View(b, d, o, s), s > 0 => buf[d].size > 0 /\ o + s <= buf[d].off + buf[d].size
    PROVE  BufferInv'
<1> DEFINE x == buf[d]
           p == Promoted(x.cl)
           w == [x EXCEPT !.cl = p]
           u == Cut(x, o, s)
           v == [u EXCEPT !.cl = p]
           mid == [buf EXCEPT ![d] = w]
           h == Share(heap, x.cl)
<1>1. x \in ViewType /\ buf \in Views /\ x.cl \in Handles /\ p \in Handles
  BY BufferTypes, PromotedNames DEF BufferInv
<1>2. /\ buf' = [[buf EXCEPT ![d].cl = Promoted(@)] EXCEPT ![b] = [u EXCEPT !.cl = Promoted(@)]]
      /\ heap' = Release(h, [buf EXCEPT ![d].cl = Promoted(@)][b].cl) /\ cl' = cl
      /\ detached' = detached
  BY DEF View, PutBuffer
<1>3. [buf EXCEPT ![d].cl = Promoted(@)] = mid
  BY <1>1 DEF Views
<1>4. [u EXCEPT !.cl = Promoted(@)] = v
  BY DEF Cut
<1>5. /\ Puts(buf, d, w, mid) /\ Puts(mid, b, v, buf') /\ heap' = Release(h, mid[b].cl)
      /\ cl' = cl /\ detached' = detached
  <2>1. Puts(buf, d, w, mid)
    BY DEF Puts
  <2> HIDE DEF v, w, u, mid, h
  <2>2. buf' = [mid EXCEPT ![b] = v]
    BY <1>2, <1>3, <1>4
  <2>3. heap' = Release(h, mid[b].cl)
    BY <1>2, <1>3
  <2>4. Puts(mid, b, v, buf')
    BY <2>2 DEF Puts
  <2> QED
    BY <1>2, <2>1, <2>3, <2>4
<1>6. /\ w = [at |-> x.at, off |-> x.off, size |-> x.size, cl |-> p]
      /\ v = [at |-> x.at, off |-> o, size |-> s, cl |-> p]
  <2>1. v = [at |-> x.at, off |-> o, size |-> s, cl |-> p]
    BY DEF Cut
  <2>2. w = [at |-> x.at, off |-> x.off, size |-> x.size, cl |-> p]
    <3> HIDE DEF x, p
    <3> QED
      BY <1>1, ViewEdits
  <2> QED
    BY <2>1, <2>2
<1> HIDE DEF v, w, u, mid, h
<1>7. /\ x.at \in Acts \cup {NoBlock} /\ x.off \in Nat /\ x.size \in Nat /\ BlockLen \in Nat
      /\ ViewOK(x, detached)
  BY BufferTypes DEF BufferInv
<1>8. /\ w \in ViewType /\ w.cl = p /\ w.at = x.at /\ w.off = x.off /\ w.size = x.size
      /\ v \in ViewType /\ v.cl = p /\ v.at = x.at /\ v.off = o /\ v.size = s
  <2> HIDE DEF p, x
  <2> QED
    BY <1>1, <1>6, <1>7 DEF ViewType
<1>9. x.cl # Empty => p # Empty /\ p.act = x.cl.act
  BY <1>1, PromotedNames
<1>10. s > 0 => x.size > 0 /\ (x.off + x.size <= BlockLen => o + s <= BlockLen)
  <2>1. s > 0 => x.size > 0 /\ o + s <= x.off + x.size
    OBVIOUS
  <2> HIDE DEF x
  <2> QED
    BY <1>7, <2>1
<1>11. h = Share(heap, buf[d].cl) /\ p = Promoted(buf[d].cl)
  BY DEF h
<1> HIDE DEF x, p
<1>12. ViewOK(w, detached) /\ ViewOK(v, detached)
  BY <1>7, <1>8, <1>9, <1>10 DEF ViewOK
<1>13. GH(h, cl, mid, p)
  BY <1>1, <1>5, <1>8, <1>11, SharesView DEF BufferInv
<1>14. /\ mid \in Views /\ mid[d] = w /\ \A e \in Buffers : e # d => mid[e] = buf[e]
  BY <1>1, <1>5, <1>8, ViewsCleaner
<1>15. GH(heap', cl, buf', Empty)
  BY <1>5, <1>8, <1>13, <1>14, PutsView
<1>16. buf' \in Views /\ \A e \in Buffers : ViewOK(buf'[e], detached)
  <2>1. /\ buf' \in Views /\ buf'[b] = v /\ \A e \in Buffers : e # b => buf'[e] = mid[e]
    BY <1>5, <1>8, <1>14, ViewsCleaner
  <2> QED
    BY <1>12, <1>14, <2>1 DEF BufferInv
<1> QED
  BY <1>5, <1>15, <1>16 DEF BufferInv

\* A view that shrinks in place, by what it loses in front and behind.
ShrinksTo(b, o, s) ==
    /\ Puts(buf, b, Cut(buf[b], o, s), buf')
    /\ heap' = heap /\ cl' = cl /\ detached' = detached
    /\ o \in Nat /\ s \in Nat /\ buf[b].size > 0 /\ o + s <= buf[b].off + buf[b].size

(* A trim in place: the view covers less and owns the same.                *)
LEMMA ShrinkStep ==
    ASSUME BufferInv, NEW b \in Buffers, NEW o, NEW s, ShrinksTo(b, o, s)
    PROVE  BufferInv'
<1> DEFINE x == buf[b]
           v == Cut(x, o, s)
<1>1. /\ Puts(buf, b, v, buf') /\ heap' = heap /\ cl' = cl /\ detached' = detached
      /\ o \in Nat /\ s \in Nat /\ x.size > 0 /\ o + s <= x.off + x.size
  BY DEF ShrinksTo
<1>2. /\ x \in ViewType /\ x.at \in Acts \cup {NoBlock} /\ x.off \in Nat /\ x.size \in Nat
      /\ BlockLen \in Nat /\ x.cl \in Handles /\ ViewOK(x, detached) /\ buf \in Views
  BY BufferTypes DEF BufferInv
<1>3. x = buf[b]
  OBVIOUS
<1> HIDE DEF x
<1>4. v = [at |-> x.at, off |-> o, size |-> s, cl |-> x.cl]
  BY DEF Cut
<1> HIDE DEF v
<1>5. v \in ViewType /\ v.cl = x.cl /\ v.at = x.at /\ v.off = o /\ v.size = s
  BY <1>1, <1>2, <1>4 DEF ViewType
<1>6. ViewOK(v, detached)
  <2>1. x.off + x.size <= BlockLen => o + s <= BlockLen
    BY <1>1, <1>2
  <2> QED
    BY <1>1, <1>2, <1>5, <2>1 DEF ViewOK
<1>7. buf' \in Views /\ buf'[b] = v /\ \A e \in Buffers : e # b => buf'[e] = buf[e]
  BY <1>1, <1>2, <1>5, ViewsCleaner
<1>8. CleanersOf(buf') = CleanersOf(buf)
  BY <1>3, <1>5, <1>7 DEF CleanersOf
<1>9. GH(heap', cl', buf', Empty)
  BY <1>1, <1>8 DEF BufferInv, GH
<1> QED
  BY <1>1, <1>6, <1>7, <1>9 DEF BufferInv

(* detach_cleaner(): the owner is a cleaner from here on, and the view is  *)
(* of memory somebody else looks after.                                    *)
LEMMA DetachCleanerStep ==
    ASSUME BufferInv, NEW b \in Buffers, NEW c \in Cleaners, DetachCleaner(b, c)
    PROVE  BufferInv'
<1> DEFINE x == buf[b]
           p == x.cl
           v == [x EXCEPT !.cl = Empty]
<1>1. /\ x \in ViewType /\ x.at \in Acts \cup {NoBlock} /\ x.off \in Nat /\ x.size \in Nat
      /\ p \in Handles /\ ViewOK(x, detached) /\ buf \in Views
  BY BufferTypes DEF BufferInv
<1>2. /\ Puts(cl, c, p, cl') /\ heap' = Release(heap, cl[c])
      /\ buf' = [buf EXCEPT ![b].cl = Empty] /\ detached' = detached \cup {x.at}
  BY DEF DetachCleaner, PutCleaner, Puts
<1>3. Puts(buf, b, v, buf')
  BY <1>1, <1>2 DEF Puts, Views
<1>4. p = buf[b].cl /\ p = x.cl
  OBVIOUS
<1> HIDE DEF x
<1>5. v = [at |-> x.at, off |-> x.off, size |-> x.size, cl |-> Empty]
  BY <1>1, ViewEdits
<1> HIDE DEF v
<1>6. v \in ViewType /\ v.cl = Empty /\ v.at = x.at /\ v.off = x.off /\ v.size = x.size
  BY <1>1, <1>5, HandleKinds DEF ViewType
<1>7. ViewOK(v, detached') /\ \A y : ViewOK(y, detached) => ViewOK(y, detached')
  BY <1>1, <1>2, <1>6 DEF ViewOK
<1> HIDE DEF p
<1>8. GH(heap, cl, buf', p)
  BY <1>1, <1>3, <1>4, <1>6, TakeView DEF BufferInv
<1>9. GH(heap', cl', buf', Empty)
  BY <1>2, <1>8, PutsCleaner
<1>10. buf' \in Views /\ buf'[b] = v /\ \A e \in Buffers : e # b => buf'[e] = buf[e]
  BY <1>1, <1>3, <1>6, ViewsCleaner
<1>11. \A e \in Buffers : ViewOK(buf'[e], detached')
  <2>1. \A e \in Buffers : ViewOK(buf[e], detached)
    BY DEF BufferInv
  <2> QED
    BY <1>7, <1>10, <2>1
<1> QED
  BY <1>9, <1>10, <1>11 DEF BufferInv

(* At first nothing is registered and nothing is owned.                    *)
LEMMA BufferStarts ==
    ASSUME BufferInit
    PROVE  BufferInv
<1> DEFINE impl == heap.impl
           ran == heap.ran
           B == CleanersOf(buf)
           N == NumberOf(impl, Cleaners, cl, Buffers, B, Empty)
           H == HeldBy(impl, Cleaners, cl, Buffers, B, Empty)
<1>1. /\ heap = [impl |-> [a \in Acts |-> [refs |-> 0, next |-> Empty]], ran |-> <<>>]
      /\ cl = [c \in Cleaners |-> Empty] /\ buf = [b \in Buffers |-> NullBuffer]
  BY DEF BufferInit, EmptyHeap
<1>2. impl \in Impls /\ ran = <<>> /\ ran \in Seq(Acts) /\ heap \in HeapType
  BY <1>1, HandleKinds DEF Impls, HeapType
<1>3. \A a \in Acts : impl[a].refs = 0 /\ impl[a].next = Empty
  BY <1>1
<1>4. /\ \A b \in Buffers : buf[b] = NullBuffer
      /\ NullBuffer \in ViewType /\ NullBuffer.cl = Empty /\ NullBuffer.size = 0
  BY <1>1, HandleKinds DEF NullBuffer, ViewType
<1>5. buf \in Views
  BY <1>1, <1>4 DEF Views
<1>6. \A b \in Buffers : ViewOK(buf[b], detached)
  BY <1>4 DEF ViewOK
<1>7. B = [b \in Buffers |-> Empty]
  BY <1>4 DEF CleanersOf
<1>8. Nexts(impl) = [x \in Acts |-> Empty]
  BY <1>3 DEF Nexts
<1>9. Shapes(impl, ran, Cleaners, cl, Buffers, B, Empty)
  BY <1>1, <1>2, <1>7, HandleKinds, BufferAssumption DEF Shapes
<1>10. H \subseteq {Empty}
  BY <1>1, <1>7, <1>8 DEF HeldBy
<1>11. Typed(impl, ran, N, H)
  BY <1>9, TypedIs
<1>12. \A a \in Acts : N[a] = 0
  <2> HIDE DEF N, H
  <2>1. \A a \in Acts : ~\E h \in H : Names(h, a)
    BY <1>10, NamesIs
  <2>2. \A a \in Acts : N[a] \in Nat /\ ~(N[a] > 0)
    BY <1>11, <2>1 DEF Typed, Tally
  <2> QED
    BY <2>2
<1>13. Acyclic(impl)
  <2> DEFINE zero == [x \in Acts |-> 0]
  <2>1. zero \in [Acts -> 0..0]
    OBVIOUS
  <2>2. Empty.tag # "counted"
    BY HandleKinds
  <2>3. Aged(impl, 0, zero)
    BY <1>3, <2>1, <2>2 DEF Aged
  <2> QED
    BY <2>3 DEF Acyclic
<1>14. ToSet(ran) = {} /\ IsInjective(ran) /\ ChainOrder(impl, ran)
  <2>1. DOMAIN ran = {}
    BY <1>2
  <2> QED
    BY <2>1 DEF ToSet, IsInjective, ChainOrder
<1> HIDE DEF impl, ran, B, N, H
<1>15. Sound(impl, ran, N, H)
  <2>1. NumbersRight(impl, N)
    BY <1>3, <1>12 DEF NumbersRight
  <2>2. GoneForGood(impl, ran, N)
    BY <1>14 DEF GoneForGood
  <2>3. HeldProper(impl, H)
    BY <1>10 DEF HeldProper
  <2>4. FreshClean(impl, ran, N)
    BY <1>3, NamesIs DEF FreshClean
  <2> QED
    BY <1>13, <1>14, <2>1, <2>2, <2>3, <2>4 DEF Sound
<1>16. Good(impl, ran, Cleaners, cl, Buffers, B, Empty)
  BY <1>9, <1>15 DEF Good, N, H
<1>17. GH(heap, cl, buf, Empty)
  BY <1>2, <1>16 DEF GH, GoodHeap, impl, ran, B
<1> QED
  BY <1>5, <1>6, <1>17 DEF BufferInv

(* Every operation keeps the invariant.                                    *)
LEMMA BufferSteps ==
    ASSUME BufferInv, [BufferNext]_bvars
    PROVE  BufferInv'
<1>1. CASE UNCHANGED bvars
  BY <1>1 DEF bvars, BufferInv
<1>2. ASSUME NEW c \in Cleaners,
             \/ DropCleaner(c)
             \/ \E a \in Acts : MakeRawCleaner(c, a)
             \/ \E d \in Cleaners : \/ ShareCleaner(c, d) \/ MoveCleaner(c, d)
                                    \/ \E a \in Acts : MakeCleaner(c, d, a)
      PROVE  BufferInv'
  BY <1>2, DropCleanerStep, MakeRawCleanerStep, ShareCleanerStep, MoveCleanerStep, MakeCleanerStep
<1>3. ASSUME NEW b \in Buffers, DropBuffer(b) PROVE BufferInv'
  BY <1>3, DropBufferStep
<1>4. ASSUME NEW b \in Buffers, NEW a \in Acts, NewBuffer(b, a) PROVE BufferInv'
  BY <1>4, NewBufferStep
<1>5. ASSUME NEW b \in Buffers, NEW c \in Cleaners, WrapBuffer(b, c) \/ DetachCleaner(b, c)
      PROVE  BufferInv'
  BY <1>5, WrapBufferStep, DetachCleanerStep
<1>6. ASSUME NEW b \in Buffers, NEW d \in Buffers, MoveBuffer(b, d) PROVE BufferInv'
  <2> DEFINE x == buf[d]
             mid == [buf EXCEPT ![d] = NullBuffer]
  <2>1. /\ b # d /\ heap' = Release(heap, buf[b].cl) /\ cl' = cl /\ detached' = detached
        /\ buf' = [buf EXCEPT ![b] = x, ![d] = NullBuffer]
    BY <1>6 DEF MoveBuffer
  <2>2. x.size \in Nat /\ Cut(x, x.off, x.size) = x /\ buf \in Views
    BY BufferTypes DEF Cut, BufferInv
  <2>3. buf' = [mid EXCEPT ![b] = x]
    BY <2>1, <2>2 DEF Views
  <2>4. Puts(mid, b, Cut(x, x.off, x.size), buf') /\ Puts(buf, d, NullBuffer, mid)
    BY <2>2, <2>3 DEF Puts
  <2>5. x.size <= x.size
    BY <2>2
  <2>6. MovedCut(b, d, x.size)
    BY <2>1, <2>2, <2>4, <2>5 DEF MovedCut
  <2> QED
    BY <2>6, MovedCutStep
<1>7. ASSUME NEW b \in Buffers, NEW d \in Buffers, FrontOfRvalue(b, d) PROVE BufferInv'
  <2> DEFINE x == buf[d]
             mid == [buf EXCEPT ![d] = NullBuffer]
  <2>1. PICK s \in 0..x.size :
          buf' = [buf EXCEPT ![b] = Cut(x, x.off, s), ![d] = NullBuffer]
    BY <1>7 DEF FrontOfRvalue
  <2>2. b # d /\ heap' = Release(heap, buf[b].cl) /\ cl' = cl /\ detached' = detached
    BY <1>7 DEF FrontOfRvalue
  <2>3. s \in Nat /\ s <= x.size /\ buf \in Views
    <3>1. x.size \in Nat /\ buf \in Views
      BY BufferTypes DEF BufferInv
    <3> HIDE DEF x
    <3> QED
      BY <2>1, <3>1
  <2>4. buf' = [mid EXCEPT ![b] = Cut(x, x.off, s)]
    BY <2>1, <2>2, <2>3 DEF Views
  <2>5. Puts(mid, b, Cut(x, x.off, s), buf') /\ Puts(buf, d, NullBuffer, mid)
    BY <2>4 DEF Puts
  <2>6. MovedCut(b, d, s)
    BY <2>2, <2>3, <2>5 DEF MovedCut
  <2> QED
    BY <2>6, MovedCutStep
<1>8. ASSUME NEW b \in Buffers, NEW d \in Buffers, ShareBuffer(b, d) PROVE BufferInv'
  <2> DEFINE x == buf[d]
  <2>1. x.off \in Nat /\ x.size \in Nat
    BY BufferTypes
  <2>2. View(b, d, x.off, x.size)
    BY <1>8 DEF ShareBuffer
  <2>3. x.size > 0 => x.size > 0 /\ x.off + x.size <= x.off + x.size
    <3> HIDE DEF x
    <3> QED
      BY <2>1
  <2> QED
    BY <2>1, <2>2, <2>3, ViewStep
<1>9. ASSUME NEW b \in Buffers, NEW d \in Buffers, FrontOfLvalue(b, d) PROVE BufferInv'
  <2> DEFINE x == buf[d]
  <2>1. x.off \in Nat /\ x.size \in Nat
    BY BufferTypes
  <2>2. View(b, d, x.off, x.size)
    BY <1>9 DEF FrontOfLvalue
  <2>3. x.size > 0 => x.size > 0 /\ x.off + x.size <= x.off + x.size
    <3> HIDE DEF x
    <3> QED
      BY <2>1
  <2> QED
    BY <2>1, <2>2, <2>3, ViewStep
<1>10. ASSUME NEW b \in Buffers, NEW d \in Buffers, ShareSlice(b, d) PROVE BufferInv'
  <2> DEFINE x == buf[d]
  <2>1. x.off \in Nat /\ x.size \in Nat
    BY BufferTypes
  <2>0. PICK pos \in 0..x.size : \E size \in 0..x.size - pos : View(b, d, x.off + pos, size)
    BY <1>10 DEF ShareSlice
  <2>2. PICK size \in 0..x.size - pos : View(b, d, x.off + pos, size)
    BY <2>0
  <2> DEFINE o == x.off + pos
  <2>3. o \in Nat /\ size \in Nat /\ (size > 0 => x.size > 0 /\ o + size <= x.off + x.size)
    <3> HIDE DEF x
    <3> QED
      BY <2>1, <2>2
  <2>4. View(b, d, o, size)
    BY <2>2
  <2> HIDE DEF o
  <2> QED
    BY <2>3, <2>4, ViewStep
<1>11. ASSUME NEW b \in Buffers, TrimFront(b) PROVE BufferInv'
  <2> DEFINE x == buf[b]
  <2>1. x.off \in Nat /\ x.size \in Nat
    BY BufferTypes
  <2>2. PICK n \in 1..x.size : buf' = [buf EXCEPT ![b] = Cut(x, x.off + n, x.size - n)]
    BY <1>11 DEF TrimFront
  <2> DEFINE o == x.off + n
             s == x.size - n
  <2>3. o \in Nat /\ s \in Nat /\ x.size > 0 /\ o + s <= x.off + x.size
    <3> HIDE DEF x
    <3> QED
      BY <2>1, <2>2
  <2>4. /\ Puts(buf, b, Cut(x, o, s), buf') /\ heap' = heap /\ cl' = cl /\ detached' = detached
    BY <1>11, <2>2 DEF TrimFront, Puts
  <2> HIDE DEF o, s
  <2>5. ShrinksTo(b, o, s)
    BY <2>3, <2>4 DEF ShrinksTo
  <2> QED
    BY <2>5, ShrinkStep
<1>12. ASSUME NEW b \in Buffers, Trim(b) PROVE BufferInv'
  <2> DEFINE x == buf[b]
             o == x.off
  <2>1. o \in Nat /\ x.size \in Nat
    BY BufferTypes
  <2>2. PICK n \in 1..x.size : buf' = [buf EXCEPT ![b] = Cut(x, o, x.size - n)]
    BY <1>12 DEF Trim
  <2> DEFINE s == x.size - n
  <2>3. s \in Nat /\ x.size > 0 /\ o + s <= o + x.size
    <3> HIDE DEF x, o
    <3> QED
      BY <2>1, <2>2
  <2>4. /\ Puts(buf, b, Cut(x, o, s), buf') /\ heap' = heap /\ cl' = cl /\ detached' = detached
    BY <1>12, <2>2 DEF Trim, Puts
  <2> HIDE DEF s
  <2>5. ShrinksTo(b, o, s)
    BY <2>1, <2>3, <2>4 DEF ShrinksTo
  <2> QED
    BY <2>5, ShrinkStep
<1>13. CASE BufferNext
  BY <1>2, <1>3, <1>4, <1>5, <1>6, <1>7, <1>8, <1>9, <1>10, <1>11, <1>12, <1>13 DEF BufferNext
<1> QED
  BY <1>1, <1>13

(* What the invariant says of owners and of views.                         *)
LEMMA BufferInvShows ==
    ASSUME BufferInv
    PROVE  OwnersKeepMemory
<1> DEFINE impl == heap.impl
           ran == heap.ran
           B == CleanersOf(buf)
           N == NumberOf(impl, Cleaners, cl, Buffers, B, Empty)
           H == HeldBy(impl, Cleaners, cl, Buffers, B, Empty)
<1>1. Good(impl, ran, Cleaners, cl, Buffers, B, Empty)
  BY DEF BufferInv, GH, GoodHeap
<1>2. Shapes(impl, ran, Cleaners, cl, Buffers, B, Empty) /\ Sound(impl, ran, N, H)
  BY <1>1 DEF Good
<1>3. Typed(impl, ran, N, H) /\ \A a \in Acts : N[a] = Number(impl, Cleaners, cl, Buffers, B, Empty, a)
  BY <1>2, TypedIs DEF NumberOf
<1>4. \A b \in Buffers : B[b] = buf[b].cl
  BY DEF CleanersOf
<1>5. ASSUME NEW a \in Acts PROVE Owners(a) = N[a]
  <2>1. Naming(Cleaners, cl, a) = {c \in Cleaners : cl[c] \in {RawPtr(a), Counted(a)}}
    BY DEF Naming, Names
  <2>2. Naming(Buffers, B, a) = {b \in Buffers : buf[b].cl \in {RawPtr(a), Counted(a)}}
    BY <1>4 DEF Naming, Names
  <2>3. Naming(Acts, Nexts(impl), a)
          = {x \in Acts : heap.impl[x].refs > 0 /\ heap.impl[x].next \in {RawPtr(a), Counted(a)}}
    BY NamesIs DEF Naming, Names, Nexts
  <2>4. One(Empty, a) = 0
    BY NamesIs DEF One
  <2>5. /\ HandlesTo(Cleaners, cl, a) \in Nat /\ HandlesTo(Buffers, B, a) \in Nat
        /\ HandlesTo(Acts, Nexts(impl), a) \in Nat
    BY <1>2, TypedIs
  <2>6. Owners(a) = HandlesTo(Cleaners, cl, a) + HandlesTo(Buffers, B, a) + HandlesTo(Acts, Nexts(impl), a)
    BY <2>1, <2>2, <2>3 DEF Owners, HandlesTo
  <2> HIDE DEF N, B, impl
  <2>7. N[a] = Number(impl, Cleaners, cl, Buffers, B, Empty, a)
    BY <1>3
  <2> QED
    BY <2>4, <2>5, <2>6, <2>7 DEF Number
<1>6. \A a \in ToSet(ran) : a \in Acts
  BY <1>2 DEF Shapes, ToSet
<1> HIDE DEF N, H, B
<1>7. IsInjective(heap.ran) /\ \A a \in ToSet(heap.ran) : Owners(a) = 0
  BY <1>2, <1>5, <1>6 DEF Sound, GoneForGood
<1>8. ASSUME NEW a \in Acts PROVE heap.impl[a].refs > 0 => Owners(a) = heap.impl[a].refs
  BY <1>2, <1>5 DEF Sound, NumbersRight
<1>9. ASSUME NEW a \in Acts, Owners(a) = 0, a \notin ToSet(heap.ran) PROVE Unregistered(a)
  <2>1. N[a] = 0
    BY <1>5, <1>9
  <2>2. heap.impl[a].refs = 0
    <3>1. heap.impl[a].refs \in Nat
      BY <1>2 DEF Shapes, Impls
    <3>2. ~(heap.impl[a].refs > 0)
      BY <1>2, <2>1 DEF Sound, NumbersRight
    <3> QED
      BY <3>1, <3>2
  <2>3. RawPtr(a) \notin HandlesHeld
    <3>1. RawPtr(a) \notin H
      BY <1>3, <2>1 DEF Typed, Tally, Names
    <3>2. HandlesHeld \subseteq H
      BY <1>4 DEF HandlesHeld, HeldBy, H
    <3> QED
      BY <3>1, <3>2
  <2>4. \A x \in Acts : heap.impl[x].next # RawPtr(a)
    BY <1>2, <1>9, <2>1 DEF Sound, FreshClean, Names
  <2> QED
    BY <1>9, <2>2, <2>3, <2>4 DEF Unregistered, IsFresh
<1>10. \A i, j \in DOMAIN heap.ran :
          heap.impl[heap.ran[i]].next \in {RawPtr(heap.ran[j]), Counted(heap.ran[j])} => i < j
  BY <1>2 DEF Sound, ChainOrder, Names
<1>11. ActionRunsWithTheLastOwner
  BY <1>7, <1>8, <1>9, <1>10 DEF ActionRunsWithTheLastOwner
<1>12. ASSUME NEW b \in Buffers, buf[b].size > 0
       PROVE  /\ buf[b].off + buf[b].size <= BlockLen
              /\ buf[b].at \in detached \/ buf[b].at \notin ToSet(heap.ran)
  <2>1. ViewOK(buf[b], detached)
    BY DEF BufferInv
  <2>2. ASSUME buf[b].cl # Empty, buf[b].cl.act = buf[b].at PROVE buf[b].at \notin ToSet(heap.ran)
    <3>1. buf[b].cl \in Handles /\ buf[b].at \in Acts
      BY <2>2, BufferTypes, HandleKinds
    <3>2. buf[b].cl \in H /\ Names(buf[b].cl, buf[b].at)
      BY <1>4, <2>2, <3>1, NamesIs DEF H, HeldBy
    <3>3. N[buf[b].at] > 0
      BY <1>3, <3>1, <3>2 DEF Typed, Tally
    <3> QED
      BY <1>2, <3>3 DEF Sound, GoneForGood
  <2> QED
    BY <1>12, <2>1, <2>2 DEF ViewOK
<1> QED
  BY <1>11, <1>12 DEF OwnersKeepMemory, ViewsOfLiveMemory

(* Whatever owns an action is counted, an action runs once and when its    *)
(* last owner goes, before what is chained behind it, and no view looks at *)
(* memory that is gone.                                                    *)
THEOREM OwnersOutliveViews == BufferSpec => []OwnersKeepMemory
<1>1. BufferInit => BufferInv
  BY BufferStarts
<1>2. BufferInv /\ [BufferNext]_bvars => BufferInv'
  BY BufferSteps
<1>3. BufferInv => OwnersKeepMemory
  BY BufferInvShows
<1> QED
  BY <1>1, <1>2, <1>3, PTL DEF BufferSpec
=============================================================================
