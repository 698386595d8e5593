------------------------- MODULE ExpiringFifoProofs -------------------------
(***************************************************************************)
(*                                                                         *)
(* What the operations of expiring_fifo do to a list, for lists of any     *)
(* length and entries of any set: every operation keeps the invariant that *)
(* the front is a live entry and that _size counts the live ones.          *)
(*                                                                         *)
(* Two lists are compared through LiveAt: every operation that takes       *)
(* entries away leaves a list that is "Shrunk", in which the live entries  *)
(* that stay have moved down together, so that their order and what they   *)
(* hold is the same.                                                       *)
(***************************************************************************)
EXTENDS ExpiringFifo, FiniteSetTheorems, SequenceTheorems, TLAPS


(* A set of numbers between 0 and L has a greatest one.  (The sets of      *)
(* numbers above each of them are ordered by inclusion, and finite.)       *)
LEMMA Largest ==
  ASSUME NEW L \in Nat, NEW T \in SUBSET (0..L), T # {}
  PROVE  \E n \in T : \A m \in T : m <= n
<1> DEFINE above(n) == (n + 1)..L
           A == {above(n) : n \in T}
           S == 1..L
<1>1. IsFiniteSet(S)
  BY FS_Interval
<1>2. IsWellFoundedOn(StrictSubsetOrdering(S), SUBSET S)
  BY <1>1, FS_StrictSubsetOrderingWellFounded, FS_FiniteSubsetsOfFinite
<1>3. A \subseteq SUBSET S /\ A # {}
  <2>1. \A n \in T : above(n) \subseteq S
    OBVIOUS
  <2> QED
    BY <2>1
<1>4. \E x \in A : \A y \in A : ~(<<y, x>> \in StrictSubsetOrdering(S))
  <2> HIDE DEF A, S
  <2> QED
    BY <1>2, <1>3, WFMin
<1>5. PICK x \in A : \A y \in A : ~(<<y, x>> \in StrictSubsetOrdering(S))
  BY <1>4
<1>6. PICK n \in T : x = above(n)
  BY <1>5
<1>7. ASSUME NEW m \in T, m > n
      PROVE FALSE
  <2>1. above(m) \subseteq above(n)
    BY <1>7
  <2>2. m \in above(n) /\ m \notin above(m)
    BY <1>7
  <2>3. above(m) \in A /\ above(m) # above(n)
    BY <2>2
  <2>4. above(m) \in SUBSET S /\ above(n) \in SUBSET S
    BY <1>3, <2>3
  <2> QED
    BY <1>5, <1>6, <2>1, <2>3, <2>4 DEF StrictSubsetOrdering
<1> QED
  BY <1>7

(* The lists of waiters whose entries are of E.                            *)
Fifos(E) == [list : Seq(E), size : Nat]

(* The front is not an expired entry.                                      *)
LiveFront(f) == f.list # <<>> => FifoFront(f).live

(* expiring_fifo's invariant: that, and _size counts the live entries.     *)
FifoInOrder(f) == LiveFront(f) /\ f.size = Cardinality(LiveAt(f))

(* g is f without its first m entries and without the payloads of R, which *)
(* has all the live entries among them.                                    *)
Shrunk(f, g, m, R) ==
  /\ m \in 0..Len(f.list) /\ Len(g.list) = Len(f.list) - m
  /\ R \subseteq LiveAt(f) /\ \A i \in LiveAt(f) : i <= m => i \in R
  /\ \A j \in 1..Len(g.list) :
        IF j + m \in R THEN ~g.list[j].live ELSE g.list[j] = f.list[j + m]
  /\ LiveFront(g)
  /\ g.size = f.size - Cardinality(R)

(* The live entries are finitely many positions of the list.               *)
LEMMA LiveAtIs ==
  ASSUME NEW E, NEW f \in Fifos(E)
  PROVE  IsFiniteSet(LiveAt(f)) /\ Cardinality(LiveAt(f)) \in Nat /\ LiveAt(f) \subseteq 1..Len(f.list)
<1>1. Len(f.list) \in Nat /\ 1 \in Int
  BY DEF Fifos
<1>2. IsFiniteSet(1..Len(f.list))
  BY <1>1, FS_Interval
<1> QED
  BY <1>2, FS_Subset, FS_CardinalityType DEF LiveAt

(* The loop that drops expired entries at the front stops at the first     *)
(* live one.                                                               *)
LEMMA DropIs ==
  ASSUME NEW E, NEW f \in Fifos(E)
  PROVE  \E n \in 0..Len(f.list) :
            /\ DropExpiredFront(f) = [list |-> SubSeq(f.list, n + 1, Len(f.list)), size |-> f.size]
            /\ \A i \in 1..n : ~f.list[i].live
            /\ n < Len(f.list) => f.list[n + 1].live
<1> DEFINE L == Len(f.list)
           dead == {n \in 0..Len(f.list) : \A i \in 1..n : ~f.list[i].live}
           d == CHOOSE n \in dead : \A m \in dead : m <= n
<1>1. L \in Nat
  BY DEF Fifos
<1>2. 0 \in dead
  BY <1>1
<1>3. \E n \in dead : \A m \in dead : m <= n
  <2>1. dead \in SUBSET (0..L) /\ dead # {}
    BY <1>2
  <2> HIDE DEF dead, L
  <2> QED
    BY <1>1, <2>1, Largest
<1>4. d \in dead /\ \A m \in dead : m <= d
  <2> HIDE DEF dead
  <2> QED
    BY <1>3
<1>5. DropExpiredFront(f) = [list |-> SubSeq(f.list, d + 1, Len(f.list)), size |-> f.size]
  <2>1. DropExpiredFront(f) = [f EXCEPT !.list = SubSeq(f.list, d + 1, Len(f.list))]
    BY DEF DropExpiredFront
  <2> HIDE DEF d
  <2> QED
    BY <2>1 DEF Fifos
<1> HIDE DEF d
<1>6. d \in 0..Len(f.list) /\ \A i \in 1..d : ~f.list[i].live
  BY <1>4
<1>7. ASSUME d < Len(f.list), ~f.list[d + 1].live
      PROVE  FALSE
  <2>1. d + 1 \in 0..Len(f.list)
    BY <1>6, <1>7, <1>1
  <2>2. \A i \in 1..(d + 1) : i \in 1..d \/ i = d + 1
    BY <1>6
  <2>3. d + 1 \in dead
    BY <2>1, <2>2, <1>6, <1>7
  <2> HIDE DEF dead
  <2> QED
    BY <2>3, <1>4, <1>6
<1> QED
  BY <1>5, <1>6, <1>7

(* What is left of a sequence without its first n elements.                *)
LEMMA RestIs ==
  ASSUME NEW E, NEW s \in Seq(E), NEW n \in 0..Len(s)
  PROVE  LET r == SubSeq(s, n + 1, Len(s)) IN
         /\ r \in Seq(E) /\ Len(r) = Len(s) - n
         /\ \A j \in 1..Len(r) : r[j] = s[j + n]
         /\ r # <<>> => n < Len(s)
<1> DEFINE r == SubSeq(s, n + 1, Len(s))
<1>1. Len(s) \in Nat
  OBVIOUS
<1>2. /\ r \in Seq(E)
      /\ Len(r) = IF n + 1 <= Len(s) THEN Len(s) - (n + 1) + 1 ELSE 0
      /\ \A j \in 1..(Len(s) - (n + 1) + 1) : r[j] = s[(n + 1) + j - 1]
  <2>1. n + 1 \in 1..(Len(s) + 1) /\ Len(s) \in (n + 1 - 1)..Len(s)
    BY <1>1
  <2> QED
    BY <2>1, SubSeqProperties
<1> HIDE DEF r
<1>3. Len(r) = Len(s) - n
  BY <1>1, <1>2
<1>4. ASSUME NEW j \in 1..Len(r) PROVE r[j] = s[j + n]
  <2>1. j \in 1..(Len(s) - (n + 1) + 1) /\ (n + 1) + j - 1 = j + n
    BY <1>1, <1>3
  <2> QED
    BY <1>2, <2>1
<1>5. r # <<>> => n < Len(s)
  BY <1>1, <1>2, <1>3
<1> QED
  BY <1>2, <1>3, <1>4, <1>5 DEF r

(* g is f without its first n entries, all of them expired.                *)
Dropped(E, f, g, n) ==
  /\ n \in 0..Len(f.list)
  /\ g \in Fifos(E) /\ g.size = f.size /\ LiveFront(g)
  /\ Len(g.list) = Len(f.list) - n
  /\ \A i \in 1..n : ~f.list[i].live
  /\ \A j \in 1..Len(g.list) : g.list[j] = f.list[j + n]

(* That is what DropExpiredFront() makes of a list.                        *)
LEMMA DroppedIs ==
  ASSUME NEW E, NEW f \in Fifos(E), NEW g, g = DropExpiredFront(f)
  PROVE  \E n : Dropped(E, f, g, n)
<1>1. PICK n \in 0..Len(f.list) :
            /\ g = [list |-> SubSeq(f.list, n + 1, Len(f.list)), size |-> f.size]
            /\ \A i \in 1..n : ~f.list[i].live
            /\ n < Len(f.list) => f.list[n + 1].live
  BY DropIs
<1>2. f.list \in Seq(E) /\ f.size \in Nat
  BY DEF Fifos
<1>3. /\ g.list \in Seq(E) /\ Len(g.list) = Len(f.list) - n
      /\ \A j \in 1..Len(g.list) : g.list[j] = f.list[j + n]
      /\ g.list # <<>> => n < Len(f.list)
  BY <1>1, <1>2, RestIs
<1>4. LiveFront(g)
  <2> SUFFICES ASSUME g.list # <<>> PROVE g.list[1].live
    BY DEF LiveFront, FifoFront
  <2>1. 1 \in 1..Len(g.list) /\ 1 + n = n + 1
    BY <1>2, <1>3
  <2> QED
    BY <1>1, <1>3, <2>1
<1>5. g \in Fifos(E) /\ g.size = f.size
  BY <1>1, <1>2, <1>3 DEF Fifos
<1>6. \A i \in 1..n : ~f.list[i].live
  BY <1>1
<1>7. Dropped(E, f, g, n)
  BY <1>3, <1>4, <1>5, <1>6 DEF Dropped
<1> QED
  BY <1>7

(* The live entries that are left are the live entries not in R, moved     *)
(* down by m.                                                              *)
LEMMA LiveOfShrunk ==
  ASSUME NEW E, NEW f \in Fifos(E), NEW g \in Fifos(E), NEW m, NEW R, Shrunk(f, g, m, R)
  PROVE  /\ \A j : j \in LiveAt(g) <=> j \in 1..Len(g.list) /\ j + m \in LiveAt(f) \ R
         /\ \A j \in LiveAt(g) : j + m \in LiveAt(f) \ R /\ g.list[j] = f.list[j + m]
         /\ \A i \in LiveAt(f) \ R : i - m \in LiveAt(g) /\ (i - m) + m = i
<1>1. /\ m \in 0..Len(f.list) /\ Len(g.list) = Len(f.list) - m /\ Len(f.list) \in Nat
      /\ \A i \in LiveAt(f) : i <= m => i \in R
      /\ \A j \in 1..Len(g.list) : IF j + m \in R THEN ~g.list[j].live ELSE g.list[j] = f.list[j + m]
  <2>1. Len(f.list) \in Nat
    BY DEF Fifos
  <2> QED
    BY <2>1 DEF Shrunk
<1>2. ASSUME NEW j \in 1..Len(g.list)
      PROVE  /\ j \in LiveAt(g) <=> j + m \in LiveAt(f) \ R
             /\ j \in LiveAt(g) => g.list[j] = f.list[j + m]
  <2>1. j + m \in 1..Len(f.list)
    BY <1>1
  <2> QED
    BY <1>1, <2>1 DEF LiveAt
<1>3. ASSUME NEW i \in LiveAt(f) \ R
      PROVE  i - m \in 1..Len(g.list) /\ (i - m) + m = i
  BY <1>1 DEF LiveAt
<1>4. LiveAt(g) \subseteq 1..Len(g.list)
  BY DEF LiveAt
<1>5. ASSUME NEW i \in LiveAt(f) \ R
      PROVE  i - m \in LiveAt(g)
  BY <1>3, <1>2
<1> QED
  BY <1>2, <1>3, <1>4, <1>5

(* Taking entries away keeps the invariant.                                *)
LEMMA ShrunkInOrder ==
  ASSUME NEW E, NEW f \in Fifos(E), NEW g \in Fifos(E), NEW m, NEW R, Shrunk(f, g, m, R),
         FifoInOrder(f)
  PROVE  FifoInOrder(g)
<1> DEFINE S == LiveAt(f) \ R
           p == [j \in LiveAt(g) |-> j + m]
<1>1. /\ \A j \in LiveAt(g) : j + m \in LiveAt(f) \ R
      /\ \A i \in LiveAt(f) \ R : i - m \in LiveAt(g) /\ (i - m) + m = i
  BY LiveOfShrunk
<1>2. LiveAt(g) \subseteq Nat /\ m \in Nat
  BY DEF LiveAt, Shrunk, Fifos
<1>3. p \in Bijection(LiveAt(g), S)
  <2>1. p \in [LiveAt(g) -> S]
    BY <1>1
  <2>2. \A j, k \in LiveAt(g) : p[j] = p[k] => j = k
    BY <1>2
  <2>3. \A i \in S : \E j \in LiveAt(g) : p[j] = i
    <3> SUFFICES ASSUME NEW i \in S PROVE p[i - m] = i /\ i - m \in LiveAt(g)
      OBVIOUS
    <3> QED
      BY <1>1
  <2> HIDE DEF p, S
  <2> QED
    BY <2>1, <2>2, <2>3 DEF Bijection, Injection, Surjection, IsInjective
<1>4. IsFiniteSet(LiveAt(g)) /\ IsFiniteSet(LiveAt(f)) /\ Cardinality(LiveAt(f)) \in Nat
  BY LiveAtIs
<1>5. Cardinality(S) = Cardinality(LiveAt(g))
  <2> HIDE DEF p, S
  <2> QED
    BY <1>3, <1>4, FS_Bijection DEF ExistsBijection
<1>6. Cardinality(S) = Cardinality(LiveAt(f)) - Cardinality(R)
  <2>1. LiveAt(f) \intersect R = R
    BY DEF Shrunk
  <2> QED
    BY <1>4, <2>1, FS_Difference
<1>7. g.size = f.size - Cardinality(R) /\ f.size = Cardinality(LiveAt(f)) /\ LiveFront(g)
  BY DEF Shrunk, FifoInOrder
<1> QED
  BY <1>5, <1>6, <1>7 DEF FifoInOrder

(* The empty list satisfies the invariant.                                 *)
LEMMA EmptyFifoIs ==
  ASSUME NEW E
  PROVE  EmptyFifo \in Fifos(E) /\ FifoInOrder(EmptyFifo) /\ LiveAt(EmptyFifo) = {}
<1>1. EmptyFifo.list = <<>> /\ EmptyFifo.size = 0
  BY DEF EmptyFifo
<1>2. <<>> \in Seq(E) /\ Len(<<>>) = 0
  OBVIOUS
<1>3. LiveAt(EmptyFifo) = {}
  BY <1>1, <1>2 DEF LiveAt
<1> QED
  BY <1>1, <1>2, <1>3, FS_EmptySet DEF Fifos, EmptyFifo, FifoInOrder, LiveFront

(* empty() tells the truth: no size means no entry at all, not only no     *)
(* live one; and the front of a list that is not empty is live.            *)
LEMMA EmptyMeansEmpty ==
  ASSUME NEW E, NEW f \in Fifos(E), FifoInOrder(f)
  PROVE  /\ IsEmpty(f) <=> f.list = <<>>
         /\ IsEmpty(f) => LiveAt(f) = {}
         /\ f.list # <<>> => 1 \in LiveAt(f) /\ FifoFront(f) = f.list[1]
<1>1. IsFiniteSet(LiveAt(f)) /\ f.size = Cardinality(LiveAt(f)) /\ f.list \in Seq(E)
  BY LiveAtIs DEF FifoInOrder, Fifos
<1>2. IsEmpty(f) <=> LiveAt(f) = {}
  BY <1>1, FS_EmptySet DEF IsEmpty
<1>3. f.list = <<>> => LiveAt(f) = {}
  BY DEF LiveAt
<1>4. f.list # <<>> => 1 \in LiveAt(f)
  BY <1>1 DEF LiveAt, FifoInOrder, LiveFront, FifoFront
<1> QED
  BY <1>2, <1>3, <1>4 DEF FifoFront

(* g is f with e at its end.                                               *)
Pushed(E, f, e, g) ==
  /\ g \in Fifos(E) /\ FifoInOrder(g)
  /\ Len(g.list) = Len(f.list) + 1 /\ g.list[Len(f.list) + 1] = e
  /\ \A i \in 1..Len(f.list) : g.list[i] = f.list[i]
  /\ LiveAt(g) = LiveAt(f) \union {Len(f.list) + 1}

(* push_back() adds a live entry behind the others and keeps the           *)
(* invariant.                                                              *)
LEMMA PushBackIs ==
  ASSUME NEW E, NEW f \in Fifos(E), FifoInOrder(f), NEW e \in E, e.live = TRUE,
         NEW g, g = PushBack(f, e)
  PROVE  Pushed(E, f, e, g)
<1> DEFINE k == Len(f.list) + 1
<1>1. f.list \in Seq(E) /\ f.size \in Nat /\ Len(f.list) \in Nat
  BY DEF Fifos
<1>2. g.list = Append(f.list, e) /\ g.size = f.size + 1 /\ g \in Fifos(E)
  BY <1>1 DEF PushBack, Fifos
<1>3. Len(g.list) = k /\ g.list[k] = e /\ \A i \in 1..Len(f.list) : g.list[i] = f.list[i]
  BY <1>1, <1>2
<1>4. LiveAt(g) = LiveAt(f) \union {k}
  <2> SUFFICES ASSUME NEW i \in 1..k PROVE g.list[i].live <=> i = k \/ i \in LiveAt(f)
    BY <1>1, <1>3 DEF LiveAt
  <2>1. i = k \/ i \in 1..Len(f.list)
    BY <1>1
  <2> QED
    BY <1>3, <2>1 DEF LiveAt
<1>5. LiveFront(g)
  <2>1. CASE f.list = <<>>
    <3>1. Len(f.list) = 0
      BY <2>1
    <3> QED
      BY <1>3, <3>1 DEF LiveFront, FifoFront
  <2>2. CASE f.list # <<>>
    <3>1. 1 \in 1..Len(f.list)
      BY <1>1, <2>2
    <3> QED
      BY <1>3, <2>2, <3>1 DEF LiveFront, FifoFront, FifoInOrder
  <2> QED
    BY <2>1, <2>2
<1>6. g.size = Cardinality(LiveAt(g))
  <2>1. k \notin LiveAt(f)
    BY <1>1 DEF LiveAt
  <2>2. IsFiniteSet(LiveAt(f))
    BY LiveAtIs
  <2> HIDE DEF k
  <2>3. Cardinality(LiveAt(f) \union {k}) = Cardinality(LiveAt(f)) + 1
    BY <2>1, <2>2, FS_AddElement
  <2> QED
    BY <1>2, <1>4, <2>3 DEF FifoInOrder
<1> QED
  BY <1>2, <1>3, <1>4, <1>5, <1>6 DEF FifoInOrder, Pushed

(* The timer callback takes one payload away, and the expired entries that *)
(* come to the front.                                                      *)
LEMMA ExpireIs ==
  ASSUME NEW E, NEW f \in Fifos(E), FifoInOrder(f), NEW i \in LiveAt(f),
         \A e \in E : [e EXCEPT !.live = FALSE] \in E /\ [e EXCEPT !.live = FALSE].live = FALSE
  PROVE  Expire(f, i) \in Fifos(E) /\ \E m : Shrunk(f, Expire(f, i), m, {i})
<1> DEFINE g == Expire(f, i)
           s == [f.list EXCEPT ![i].live = FALSE]
           h == [list |-> s, size |-> f.size - 1]
<1>1. f.list \in Seq(E) /\ f.size \in Nat /\ Len(f.list) \in Nat /\ i \in 1..Len(f.list)
  BY DEF Fifos, LiveAt
<1>2. f.size >= 1
  <2>1. Cardinality({i}) <= Cardinality(LiveAt(f)) /\ Cardinality({i}) = 1
    BY LiveAtIs, FS_Subset, FS_Singleton
  <2> QED
    BY <2>1 DEF FifoInOrder
<1>3. /\ s \in Seq(E) /\ Len(s) = Len(f.list) /\ ~s[i].live
      /\ \A j \in 1..Len(f.list) : j # i => s[j] = f.list[j]
  <2>1. f.list[i] \in E
    BY <1>1
  <2>2. s = [f.list EXCEPT ![i] = [f.list[i] EXCEPT !.live = FALSE]]
    OBVIOUS
  <2> QED
    BY <1>1, <2>1, <2>2, ExceptSeq
<1>4. h \in Fifos(E) /\ h.list = s /\ h.size = f.size - 1
  <2> HIDE DEF s
  <2> QED
    BY <1>1, <1>2, <1>3 DEF Fifos
<1>5. g = DropExpiredFront(h)
  BY DEF Expire
<1> HIDE DEF g, h, s
<1>6d. PICK n : Dropped(E, h, g, n)
  BY <1>4, <1>5, DroppedIs
<1>6. /\ n \in 0..Len(h.list)
      /\ g \in Fifos(E) /\ g.size = h.size /\ LiveFront(g)
      /\ Len(g.list) = Len(h.list) - n
      /\ \A j \in 1..n : ~h.list[j].live
      /\ \A j \in 1..Len(g.list) : g.list[j] = h.list[j + n]
  BY <1>6d DEF Dropped
<1>7. \A j \in LiveAt(f) : j <= n => j \in {i}
  BY <1>1, <1>3, <1>4, <1>6 DEF LiveAt
<1>8. ASSUME NEW j \in 1..Len(g.list)
      PROVE  IF j + n \in {i} THEN ~g.list[j].live ELSE g.list[j] = f.list[j + n]
  <2>1. j + n \in 1..Len(f.list)
    BY <1>1, <1>3, <1>4, <1>6
  <2> QED
    BY <1>3, <1>4, <1>6, <2>1
<1>9. Cardinality({i}) = 1
  BY FS_Singleton
<1>10. Shrunk(f, g, n, {i})
  BY <1>3, <1>4, <1>6, <1>7, <1>8, <1>9 DEF Shrunk
<1> QED
  BY <1>6, <1>10 DEF g

(* pop_front() takes the front away, and the expired entries behind it.    *)
LEMMA PopFrontIs ==
  ASSUME NEW E, NEW f \in Fifos(E), FifoInOrder(f), ~IsEmpty(f)
  PROVE  /\ PopFront(f) \in Fifos(E) /\ FifoInOrder(PopFront(f))
         /\ \E m \in 1..Len(f.list) : Shrunk(f, PopFront(f), m, {1})
<1> DEFINE g == PopFront(f)
           h == [list |-> Tail(f.list), size |-> f.size - 1]
<1>1. /\ f.list \in Seq(E) /\ f.size \in Nat /\ Len(f.list) \in Nat
      /\ 1 \in LiveAt(f) /\ f.list # <<>>
  BY EmptyMeansEmpty DEF Fifos
<1>2. f.size >= 1
  BY <1>1 DEF IsEmpty
<1>3. /\ Tail(f.list) \in Seq(E) /\ Len(Tail(f.list)) = Len(f.list) - 1
      /\ \A j \in 1..Len(Tail(f.list)) : Tail(f.list)[j] = f.list[j + 1]
  BY <1>1
<1>4. h \in Fifos(E)
  BY <1>1, <1>2, <1>3 DEF Fifos
<1>d. g = DropExpiredFront(h)
  BY DEF PopFront
<1>5. h.list = Tail(f.list) /\ h.size = f.size - 1
  OBVIOUS
<1> HIDE DEF g, h
<1>6d. PICK n : Dropped(E, h, g, n)
  BY <1>4, <1>d, DroppedIs
<1>6. /\ n \in 0..Len(h.list)
      /\ g \in Fifos(E) /\ g.size = h.size /\ LiveFront(g)
      /\ Len(g.list) = Len(h.list) - n
      /\ \A i \in 1..n : ~h.list[i].live
      /\ \A j \in 1..Len(g.list) : g.list[j] = h.list[j + n]
  BY <1>6d DEF Dropped
<1> DEFINE m == n + 1
<1>7. m \in 1..Len(f.list) /\ Len(g.list) = Len(f.list) - m /\ Len(f.list) >= 1
  BY <1>1, <1>3, <1>5, <1>6
<1>8. ASSUME NEW i \in LiveAt(f), i <= m
      PROVE  i \in {1}
  <2> SUFFICES ASSUME i # 1 PROVE FALSE
    OBVIOUS
  <2>1. i - 1 \in 1..n /\ i - 1 \in 1..Len(h.list) /\ (i - 1) + 1 = i
    BY <1>1, <1>3, <1>5, <1>6, <1>8 DEF LiveAt
  <2> QED
    BY <1>3, <1>5, <1>6, <2>1 DEF LiveAt
<1>9. ASSUME NEW j \in 1..Len(g.list)
      PROVE  j + m # 1 /\ g.list[j] = f.list[j + m]
  <2>1. j + n \in 1..Len(h.list) /\ (j + n) + 1 = j + m /\ j + m # 1
    BY <1>1, <1>3, <1>5, <1>6
  <2> QED
    BY <1>3, <1>5, <1>6, <2>1
<1>10. Cardinality({1}) = 1
  BY FS_Singleton
<1> HIDE DEF m
<1>11. Shrunk(f, g, m, {1})
  <2>1. g.size = f.size - Cardinality({1}) /\ LiveFront(g) /\ m \in 0..Len(f.list)
    BY <1>5, <1>6, <1>7, <1>10
  <2> QED
    BY <1>1, <1>7, <1>8, <1>9, <2>1 DEF Shrunk
<1>12. FifoInOrder(g)
  BY <1>6, <1>11, ShrunkInOrder
<1> QED
  BY <1>6, <1>7, <1>11, <1>12 DEF g
=============================================================================
