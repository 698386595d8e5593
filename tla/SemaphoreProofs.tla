-------------------------- MODULE SemaphoreProofs ---------------------------
(***************************************************************************)
(*                                                                         *)
(* The safety properties of Semaphore, and of the RWLock that is made of   *)
(* one, for any fibers and requests, any initial count and any length of   *)
(* the wait list.                                                          *)
(*                                                                         *)
(* The properties are not inductive by themselves. That no unit is lost    *)
(* rests on the wait list and the futures telling the same story: a fiber  *)
(* waits exactly when the list has one live entry for it, with what it     *)
(* asked for, so that what signal() takes from the counter is what the     *)
(* fibers it answers then hold. SemInv has that, with the list's own       *)
(* invariant of ExpiringFifoProofs and the fact that a broken semaphore    *)
(* has no list. signal()'s loop is given in closed form by GrantLoop; that *)
(* it is the loop is proved first.                                         *)
(*                                                                         *)
(* The rwlock adds that nothing ever times out, so that the front of the   *)
(* list never fits, and that the counter stays between 0 and max_ops.      *)
(***************************************************************************)
EXTENDS RWLock, ExpiringFifoProofs


(* Total(h, S) counts these: h[x] of them for each x of S.                 *)
Units(h, S) == UNION {{x} \X (1..h[x]) : x \in S}

(* What a member of Units is.                                              *)
LEMMA UnitsAre ==
  ASSUME NEW h, NEW S
  PROVE  \A u : u \in Units(h, S) <=> \E x \in S : \E k \in 1..h[x] : u = <<x, k>>
BY DEF Units

(* Total is the cardinality of Units, and a number.                        *)
LEMMA TotalIs ==
  ASSUME NEW h, NEW S, IsFiniteSet(S), \A x \in S : h[x] \in Nat
  PROVE  IsFiniteSet(Units(h, S)) /\ Total(h, S) = Cardinality(Units(h, S)) /\ Total(h, S) \in Nat
<1> DEFINE of == [x \in S |-> {x} \X (1..h[x])]
           R  == {{x} \X (1..h[x]) : x \in S}
<1>1. of \in Surjection(S, R)
  <2>1. of \in [S -> R]
    OBVIOUS
  <2>2. \A r \in R : \E x \in S : of[x] = r
    OBVIOUS
  <2> QED
    BY <2>1, <2>2 DEF Surjection
<1>2. IsFiniteSet(R)
  <2> HIDE DEF of, R
  <2> QED
    BY <1>1, FS_Surjection
<1>3. \A r \in R : IsFiniteSet(r)
  <2> SUFFICES ASSUME NEW x \in S PROVE IsFiniteSet({x} \X (1..h[x]))
    OBVIOUS
  <2>0. 1 \in Int /\ h[x] \in Int
    OBVIOUS
  <2>1. IsFiniteSet({x}) /\ IsFiniteSet(1..h[x])
    BY <2>0, FS_Singleton, FS_Interval
  <2> QED
    BY <2>1, FS_Product
<1>4. IsFiniteSet(UNION R)
  <2> HIDE DEF R
  <2> QED
    BY <1>2, <1>3, FS_UNION
<1> QED
  BY <1>4, FS_CardinalityType DEF Units, Total

(* The total over no one is nothing;                                       *)
LEMMA TotalEmpty == ASSUME NEW h PROVE Total(h, {}) = 0
<1>1. UNION {{x} \X (1..h[x]) : x \in {}} = {}
  OBVIOUS
<1> QED
  BY <1>1, FS_EmptySet DEF Total

(* over one it is its value;                                               *)
LEMMA TotalOfOne ==
  ASSUME NEW h, NEW x, h[x] \in Nat
  PROVE  Total(h, {x}) = h[x]
<1>1. UNION {{y} \X (1..h[y]) : y \in {x}} = {x} \X (1..h[x])
  OBVIOUS
<1>2. IsFiniteSet({x}) /\ Cardinality({x}) = 1
  BY FS_Singleton
<1>3. IsFiniteSet(1..h[x]) /\ Cardinality(1..h[x]) = h[x]
  BY FS_Interval
<1>4. Cardinality({x} \X (1..h[x])) = 1 * h[x]
  BY <1>2, <1>3, FS_Product
<1>5. 1 * h[x] = h[x]
  OBVIOUS
<1> QED
  BY <1>1, <1>4, <1>5 DEF Total

(* it depends on the values over S only;                                   *)
LEMMA TotalAgrees ==
  ASSUME NEW g, NEW h, NEW S, \A x \in S : g[x] = h[x]
  PROVE  Total(g, S) = Total(h, S)
<1>1. {{x} \X (1..g[x]) : x \in S} = {{x} \X (1..h[x]) : x \in S}
  OBVIOUS
<1> QED
  BY <1>1 DEF Total

(* totals over disjoint sets add up;                                       *)
LEMMA TotalOfUnion ==
  ASSUME NEW h, NEW S, NEW T, IsFiniteSet(S), IsFiniteSet(T), S \intersect T = {},
         \A x \in S \union T : h[x] \in Nat
  PROVE  Total(h, S \union T) = Total(h, S) + Total(h, T)
<1> DEFINE a == Units(h, S)
           b == Units(h, T)
<1>1. IsFiniteSet(a) /\ IsFiniteSet(b) /\ Total(h, S) = Cardinality(a) /\ Total(h, T) = Cardinality(b)
  BY TotalIs
<1>2. Units(h, S \union T) = a \union b
  BY DEF Units
<1>3. a \intersect b = {}
  BY UnitsAre
<1>4. Total(h, S \union T) = Cardinality(a \union b)
  BY <1>2 DEF Total, Units
<1> HIDE DEF a, b
<1>5. Cardinality(a \union b) = Cardinality(a) + Cardinality(b) - 0
  BY <1>1, <1>3, FS_Union, FS_EmptySet
<1>6. Cardinality(a) \in Nat /\ Cardinality(b) \in Nat
  BY <1>1, FS_CardinalityType
<1> QED
  BY <1>1, <1>4, <1>5, <1>6

(* one more adds its value,                                                *)
LEMMA TotalWith ==
  ASSUME NEW h, NEW S, IsFiniteSet(S), NEW x, x \notin S, \A y \in S \union {x} : h[y] \in Nat
  PROVE  Total(h, S \union {x}) = Total(h, S) + h[x]
<1>1. IsFiniteSet({x}) /\ S \intersect {x} = {}
  BY FS_Singleton
<1>2. Total(h, {x}) = h[x]
  BY TotalOfOne
<1> QED
  BY <1>1, <1>2, TotalOfUnion

(* one less takes it away;                                                 *)
LEMMA TotalWithout ==
  ASSUME NEW h, NEW S, IsFiniteSet(S), NEW x \in S, \A y \in S : h[y] \in Nat
  PROVE  Total(h, S \ {x}) = Total(h, S) - h[x] /\ Total(h, S \ {x}) \in Nat /\ Total(h, S) \in Nat
<1> DEFINE R == S \ {x}
<1>1. IsFiniteSet(R) /\ x \notin R /\ S = R \union {x}
  BY FS_RemoveElement
<1>2. Total(h, S) = Total(h, R) + h[x]
  BY <1>1, TotalWith
<1>3. Total(h, R) \in Nat
  BY <1>1, TotalIs
<1> QED
  BY <1>2, <1>3

(* a part is no more than the whole;                                       *)
LEMMA TotalOfSubset ==
  ASSUME NEW h, NEW S, NEW T, IsFiniteSet(S), T \subseteq S, \A x \in S : h[x] \in Nat
  PROVE  Total(h, T) <= Total(h, S) /\ Total(h, T) \in Nat /\ Total(h, S) \in Nat
<1>1. IsFiniteSet(T)
  BY FS_Subset
<1>2. Units(h, T) \subseteq Units(h, S)
  BY DEF Units
<1> QED
  BY <1>1, <1>2, TotalIs, FS_Subset

(* and renaming the members does not matter.                               *)
LEMMA TotalOfImage ==
  ASSUME NEW g, NEW h, NEW S, NEW T, IsFiniteSet(S), NEW p \in Bijection(S, T),
         \A x \in S : h[x] \in Nat /\ g[p[x]] = h[x]
  PROVE  Total(g, T) = Total(h, S)
<1> DEFINE a == Units(h, S)
           b == Units(g, T)
           q == [u \in a |-> <<p[u[1]], u[2]>>]
<1>0. p \in [S -> T] /\ (\A x, y \in S : p[x] = p[y] => x = y) /\ \A t \in T : \E x \in S : p[x] = t
  BY DEF Bijection, Injection, Surjection, IsInjective
<1>1. \A u \in a : u[1] \in S /\ u[2] \in 1..h[u[1]] /\ u = <<u[1], u[2]>>
  BY UnitsAre
<1>2. q \in [a -> b]
  <2> SUFFICES ASSUME NEW u \in a PROVE <<p[u[1]], u[2]>> \in b
    OBVIOUS
  <2>1. p[u[1]] \in T /\ u[2] \in 1..g[p[u[1]]]
    BY <1>0, <1>1
  <2> QED
    BY <2>1, UnitsAre
<1>3. ASSUME NEW u \in a, NEW v \in a, q[u] = q[v]
      PROVE  u = v
  <2>1. p[u[1]] = p[v[1]] /\ u[2] = v[2]
    BY <1>3
  <2>2. u[1] = v[1]
    BY <2>1, <1>0, <1>1
  <2> QED
    BY <2>1, <2>2, <1>1
<1>4. ASSUME NEW w \in b
      PROVE  \E u \in a : q[u] = w
  <2>0. PICK t \in T : \E k \in 1..g[t] : w = <<t, k>>
    BY UnitsAre
  <2>1. PICK k \in 1..g[t] : w = <<t, k>>
    BY <2>0
  <2>2. PICK x \in S : p[x] = t
    BY <1>0
  <2>3. <<x, k>> \in a
    BY <2>1, <2>2, UnitsAre
  <2> QED
    BY <2>1, <2>2, <2>3
<1> HIDE DEF q, a, b
<1>5. q \in Bijection(a, b)
  BY <1>2, <1>3, <1>4 DEF Bijection, Injection, Surjection, IsInjective
<1>6. IsFiniteSet(a) /\ Total(h, S) = Cardinality(a)
  BY TotalIs DEF a
<1>7. Cardinality(b) = Cardinality(a)
  BY <1>5, <1>6, FS_Bijection DEF ExistsBijection
<1> QED
  BY <1>6, <1>7 DEF b, Total, Units

(* The total when one value changes.                                       *)
LEMMA TotalChanged ==
  ASSUME NEW S, IsFiniteSet(S), NEW h \in [S -> Nat], NEW k \in [S -> Nat], NEW x \in S,
         \A y \in S \ {x} : k[y] = h[y]
  PROVE  Total(k, S) = Total(h, S) - h[x] + k[x]
<1> DEFINE R == S \ {x}
<1>1. IsFiniteSet(R) /\ x \notin R /\ R \union {x} = S
  BY FS_RemoveElement
<1>2. \A y \in S : k[y] \in Nat /\ h[y] \in Nat
  OBVIOUS
<1>3. Total(k, S) = Total(k, R) + k[x]
  BY <1>1, <1>2, TotalWith
<1>4. Total(k, R) = Total(h, R)
  BY TotalAgrees
<1>5. Total(h, R) = Total(h, S) - h[x] /\ Total(h, R) \in Nat /\ Total(h, S) \in Nat
  BY <1>2, TotalWithout
<1> QED
  BY <1>2, <1>3, <1>4, <1>5


(* As many as there are, when each of them has one.                        *)
LEMMA TotalOfOnes ==
  ASSUME NEW h, NEW S, IsFiniteSet(S), \A x \in S : h[x] = 1
  PROVE  Total(h, S) = Cardinality(S)
<1> DEFINE a == Units(h, S)
           p == [x \in S |-> <<x, 1>>]
<1>1. IsFiniteSet(a) /\ Total(h, S) = Cardinality(a)
  BY TotalIs
<1>2. \A u : u \in a <=> \E x \in S : u = <<x, 1>>
  <2>1. \A x \in S : 1..h[x] = {1}
    OBVIOUS
  <2> QED
    BY <2>1 DEF Units
<1> HIDE DEF a
<1>3. p \in Bijection(S, a)
  <2>1. p \in [S -> a]
    BY <1>2
  <2>2. \A x, y \in S : p[x] = p[y] => x = y
    OBVIOUS
  <2>3. \A u \in a : \E x \in S : p[x] = u
    BY <1>2
  <2> HIDE DEF p
  <2> QED
    BY <2>1, <2>2, <2>3 DEF Bijection, Injection, Surjection, IsInjective
<1> HIDE DEF p
<1> QED
  BY <1>1, <1>3, FS_Bijection DEF ExistsBijection
------------------------------------------------------------------------------
(* The entries of _wait_list.                                              *)
Entries == [fiber : Fibers, nr : Nat, timed : BOOLEAN, live : BOOLEAN]

(* An entry without its payload is still an entry.                         *)
LEMMA EntryExpires ==
  \A e \in Entries : [e EXCEPT !.live = FALSE] \in Entries /\ [e EXCEPT !.live = FALSE].live = FALSE
BY DEF Entries

(* Sizes gives what the live entries asked for.                            *)
LEMMA SizesAre ==
  ASSUME NEW q \in Fifos(Entries)
  PROVE  \A i \in LiveAt(q) : Sizes(q)[i] = q.list[i].nr /\ Sizes(q)[i] \in Nat
<1> SUFFICES ASSUME NEW i \in LiveAt(q)
             PROVE  Sizes(q)[i] = q.list[i].nr /\ q.list[i].nr \in Nat
  OBVIOUS
<1>1. i \in 1..Len(q.list) /\ q.list[i] \in Entries
  BY DEF LiveAt, Fifos
<1> QED
  BY <1>1 DEF Sizes, Entries

(* The entries that signal() reaches: those before one it reaches are      *)
(* reached too, and one is reached when what it and those before it ask    *)
(* for is there.                                                           *)
LEMMA GrantedIs ==
  ASSUME NEW q \in Fifos(Entries), NEW c \in Int
  PROVE  LET G == Granted(c, q)
             upTo(i) == LiveAt(q) \intersect 1..i IN
         /\ G \subseteq LiveAt(q) /\ IsFiniteSet(G)
         /\ \A i \in LiveAt(q) : Total(Sizes(q), upTo(i)) \in Nat
                                 /\ (i \in G <=> c >= 0 /\ c >= Total(Sizes(q), upTo(i)))
         /\ \A i \in G, j \in LiveAt(q) : j <= i => j \in G
         /\ Total(Sizes(q), G) \in Nat
<1> DEFINE G == Granted(c, q)
           upTo(i) == LiveAt(q) \intersect 1..i
<1>1. IsFiniteSet(LiveAt(q)) /\ LiveAt(q) \subseteq 1..Len(q.list) /\ Len(q.list) \in Nat
  BY LiveAtIs DEF Fifos
<1>2. G \subseteq LiveAt(q) /\ IsFiniteSet(G)
  BY <1>1, FS_Subset DEF Granted
<1>3. ASSUME NEW i \in LiveAt(q)
      PROVE  Total(Sizes(q), upTo(i)) \in Nat /\ (i \in G <=> c >= 0 /\ c >= Total(Sizes(q), upTo(i)))
  <2>1. Total(Sizes(q), upTo(i)) \in Nat
    BY <1>1, SizesAre, TotalOfSubset
  <2> QED
    BY <2>1 DEF Granted, HasAvailableUnits
<1>4. ASSUME NEW i \in G, NEW j \in LiveAt(q), j <= i
      PROVE  j \in G
  <2>1. upTo(j) \subseteq upTo(i)
    BY <1>1, <1>2, <1>4
  <2>2. upTo(i) \subseteq LiveAt(q) /\ IsFiniteSet(upTo(i)) /\ i \in LiveAt(q)
    BY <1>1, <1>2, FS_Subset
  <2>3. Total(Sizes(q), upTo(j)) <= Total(Sizes(q), upTo(i))
    BY <2>1, <2>2, SizesAre, TotalOfSubset
  <2> HIDE DEF upTo, G
  <2> QED
    BY <2>2, <2>3, <1>3, <1>4
<1>5. Total(Sizes(q), G) \in Nat
  BY <1>1, <1>2, SizesAre, TotalOfSubset
<1> QED
  BY <1>2, <1>3, <1>4, <1>5

(* The loop takes exactly these out of the list and their units from the   *)
(* counter.                                                                *)
LEMMA GrantLoopIs ==
  ASSUME NEW q \in Fifos(Entries), FifoInOrder(q), NEW c \in Int
  PROVE  LET s == GrantLoop(c, q)
             G == Granted(c, q) IN
         /\ s.fifo \in Fifos(Entries) /\ \E m : Shrunk(q, s.fifo, m, G)
         /\ s.count = c - Total(Sizes(q), G)
         /\ s.woken = {q.list[i].fiber : i \in G}
<1> DEFINE s == GrantLoop(c, q)
           G == Granted(c, q)
           last == CHOOSE i \in G : \A j \in G : j <= i
           h == [list |-> SubSeq(q.list, last + 1, Len(q.list)), size |-> q.size - Cardinality(G)]
<1>1. G \subseteq LiveAt(q) /\ \A i \in G, j \in LiveAt(q) : j <= i => j \in G
  BY GrantedIs
<1>2. /\ q.list \in Seq(Entries) /\ Len(q.list) \in Nat /\ q.size \in Nat
      /\ LiveAt(q) \subseteq 1..Len(q.list) /\ IsFiniteSet(LiveAt(q))
  BY LiveAtIs DEF Fifos
<1>3. s.count = c - Total(Sizes(q), G) /\ s.woken = {q.list[i].fiber : i \in G}
  BY DEF GrantLoop
<1>4. s.fifo = IF G = {} THEN q ELSE DropExpiredFront(h)
  BY DEF GrantLoop
<1> HIDE DEF s, G
<1>5. CASE G = {}
  <2>1. s.fifo = q
    BY <1>4, <1>5
  <2>2. Cardinality(G) = 0
    BY <1>5, FS_EmptySet
  <2>3. Shrunk(q, q, 0, G)
    BY <1>2, <1>5, <2>2 DEF Shrunk, FifoInOrder
  <2> QED
    BY <1>3, <2>1, <2>3 DEF s, G
<1>6. CASE G # {}
  <2>1. last \in G /\ \A j \in G : j <= last
    <3>1. \E i \in G : \A j \in G : j <= i
      <4>1. G \in SUBSET (0..Len(q.list))
        BY <1>1, <1>2
      <4> QED
        BY <4>1, <1>2, <1>6, Largest
    <3> QED
      BY <3>1
  <2> HIDE DEF last
  <2>2. last \in 0..Len(q.list)
    BY <2>1, <1>1, <1>2
  <2>3. q.size - Cardinality(G) \in Nat
    <3>1. Cardinality(G) <= Cardinality(LiveAt(q)) /\ IsFiniteSet(G)
      BY <1>1, <1>2, FS_Subset
    <3> QED
      BY <3>1, <1>2, FS_CardinalityType DEF FifoInOrder
  <2>4. /\ h.list \in Seq(Entries) /\ Len(h.list) = Len(q.list) - last
        /\ \A j \in 1..Len(h.list) : h.list[j] = q.list[j + last]
        /\ h.size = q.size - Cardinality(G)
    BY <1>2, <2>2, RestIs
  <2>5. h \in Fifos(Entries)
    BY <2>3, <2>4 DEF Fifos
  <2>6. s.fifo = DropExpiredFront(h)
    BY <1>4, <1>6
  <2> HIDE DEF h
  <2>7d. PICK n : Dropped(Entries, h, s.fifo, n)
    BY <2>5, <2>6, DroppedIs
  <2>7. /\ n \in 0..Len(h.list)
        /\ s.fifo \in Fifos(Entries) /\ s.fifo.size = h.size /\ LiveFront(s.fifo)
        /\ Len(s.fifo.list) = Len(h.list) - n
        /\ \A i \in 1..n : ~h.list[i].live
        /\ \A j \in 1..Len(s.fifo.list) : s.fifo.list[j] = h.list[j + n]
    BY <2>7d DEF Dropped
  <2> DEFINE m == last + n
  <2>8. m \in 0..Len(q.list) /\ Len(s.fifo.list) = Len(q.list) - m
    BY <1>2, <2>2, <2>4, <2>7
  <2>9. ASSUME NEW i \in LiveAt(q), i <= m
        PROVE  i \in G
    <3>1. CASE i <= last
      BY <1>1, <2>1, <3>1
    <3>2. CASE i > last
      <4>1. i - last \in 1..n /\ i - last \in 1..Len(h.list) /\ (i - last) + last = i
        BY <1>2, <2>2, <2>4, <2>7, <2>9, <3>2
      <4>2. ~q.list[i].live
        BY <2>4, <2>7, <4>1
      <4> QED
        BY <4>2 DEF LiveAt
    <3> QED
      BY <1>2, <2>2, <3>1, <3>2
  <2>10. ASSUME NEW j \in 1..Len(s.fifo.list)
         PROVE  j + m \notin G /\ s.fifo.list[j] = q.list[j + m]
    <3>1. j + m > last /\ j + n \in 1..Len(h.list) /\ (j + n) + last = j + m
      BY <1>2, <2>2, <2>4, <2>7
    <3>2. j + m \notin G
      BY <2>1, <2>2, <3>1
    <3> QED
      BY <2>4, <2>7, <3>1, <3>2
  <2> HIDE DEF m
  <2>11. Shrunk(q, s.fifo, m, G)
    BY <1>1, <2>4, <2>7, <2>8, <2>9, <2>10 DEF Shrunk
  <2> QED
    BY <1>3, <2>7, <2>11 DEF s, G
<1> QED
  BY <1>5, <1>6

(* The entries S of p are the entries T, m further on, of q.               *)
MovesUp(q, p, m, R, S, T) ==
  /\ T \subseteq LiveAt(q) \ R /\ IsFiniteSet(S) /\ IsFiniteSet(T)
  /\ Cardinality(T) = Cardinality(S)
  /\ Total(Sizes(q), T) = Total(Sizes(p), S)
  /\ \A j \in S : p.list[j] = q.list[j + m]

(* That is so when p is q without its first m entries.                     *)
LEMMA MovedUp ==
  ASSUME NEW q \in Fifos(Entries), NEW p \in Fifos(Entries), NEW m, NEW R, Shrunk(q, p, m, R),
         NEW S \in SUBSET LiveAt(p), NEW T, T = {j + m : j \in S}
  PROVE  MovesUp(q, p, m, R, S, T)
<1> DEFINE b == [j \in S |-> j + m]
<1>1. /\ \A j \in LiveAt(p) : j + m \in LiveAt(q) \ R /\ p.list[j] = q.list[j + m]
  BY LiveOfShrunk
<1>2. IsFiniteSet(LiveAt(p)) /\ LiveAt(p) \subseteq Nat /\ m \in Nat
  BY LiveAtIs DEF Fifos, Shrunk, LiveAt
<1>3. IsFiniteSet(S)
  BY <1>2, FS_Subset
<1>4. b \in Bijection(S, T)
  <2>1. b \in [S -> T] /\ \A t \in T : \E j \in S : b[j] = t
    OBVIOUS
  <2>2. \A i, j \in S : b[i] = b[j] => i = j
    BY <1>2
  <2> HIDE DEF b
  <2> QED
    BY <2>1, <2>2 DEF Bijection, Injection, Surjection, IsInjective
<1>5. \A j \in S : Sizes(p)[j] \in Nat /\ Sizes(q)[b[j]] = Sizes(p)[j]
  <2> SUFFICES ASSUME NEW j \in S PROVE Sizes(p)[j] \in Nat /\ Sizes(q)[j + m] = Sizes(p)[j]
    OBVIOUS
  <2>1. j \in LiveAt(p) /\ j + m \in LiveAt(q) /\ p.list[j] = q.list[j + m]
    BY <1>1
  <2> QED
    BY <2>1, SizesAre
<1>6. T \subseteq LiveAt(q) \ R
  BY <1>1
<1> HIDE DEF b
<1>7. Cardinality(T) = Cardinality(S) /\ IsFiniteSet(T)
  BY <1>3, <1>4, FS_Bijection DEF ExistsBijection
<1>8. Total(Sizes(q), T) = Total(Sizes(p), S)
  BY <1>3, <1>4, <1>5, TotalOfImage
<1> QED
  BY <1>1, <1>3, <1>6, <1>7, <1>8 DEF MovesUp

(* The loop stops when there is no waiter or the first one's request does  *)
(* not fit,                                                                *)
LEMMA LoopStops ==
  ASSUME NEW q \in Fifos(Entries), FifoInOrder(q), NEW c \in Int,
         IsEmpty(q) \/ ~HasAvailableUnits(c, FifoFront(q).nr)
  PROVE  GrantLoop(c, q) = [count |-> c, fifo |-> q, woken |-> {}]
<1> DEFINE G == Granted(c, q)
<1>1. /\ G \subseteq LiveAt(q)
      /\ \A i \in G, j \in LiveAt(q) : j <= i => j \in G
      /\ \A i \in LiveAt(q) :
            (i \in G <=> c >= 0 /\ c >= Total(Sizes(q), LiveAt(q) \intersect 1..i))
  BY GrantedIs
<1>2. LiveAt(q) \subseteq 1..Len(q.list) /\ Len(q.list) \in Nat
  BY LiveAtIs DEF Fifos
<1> HIDE DEF G
<1>3. G = {}
  <2>1. CASE IsEmpty(q)
    BY <1>1, <2>1, EmptyMeansEmpty
  <2>2. CASE ~IsEmpty(q)
    <3>1. 1 \in LiveAt(q) /\ FifoFront(q) = q.list[1]
      BY <2>2, EmptyMeansEmpty
    <3>2. LiveAt(q) \intersect 1..1 = {1}
      BY <1>2, <3>1
    <3>3. Sizes(q)[1] = q.list[1].nr /\ Sizes(q)[1] \in Nat
      BY <3>1, SizesAre
    <3>4. Total(Sizes(q), {1}) = Sizes(q)[1]
      BY <3>3, TotalOfOne
    <3>5. 1 \notin G
      BY <1>1, <2>2, <3>1, <3>2, <3>3, <3>4 DEF HasAvailableUnits
    <3>6. \A i \in G : 1 <= i
      BY <1>1, <1>2
    <3> QED
      BY <1>1, <3>1, <3>5, <3>6
  <2> QED
    BY <2>1, <2>2
<1>4. Total(Sizes(q), G) = 0
  BY <1>3, TotalEmpty
<1> QED
  BY <1>3, <1>4 DEF GrantLoop, G

(* and else it goes round once more, without that waiter.                  *)
LEMMA LoopTurns ==
  ASSUME NEW q \in Fifos(Entries), FifoInOrder(q), NEW c \in Int,
         ~IsEmpty(q), HasAvailableUnits(c, FifoFront(q).nr),
         NEW p, p = PopFront(q), NEW d, d = c - FifoFront(q).nr
  PROVE  GrantLoop(c, q) = [count |-> GrantLoop(d, p).count,
                            fifo  |-> GrantLoop(d, p).fifo,
                            woken |-> {FifoFront(q).fiber} \union GrantLoop(d, p).woken]
<1> DEFINE G == Granted(c, q)
           H == Granted(d, p)
           nr == FifoFront(q).nr
<1>1. /\ G \subseteq LiveAt(q) /\ IsFiniteSet(G)
      /\ \A i \in G, j \in LiveAt(q) : j <= i => j \in G
      /\ \A i \in LiveAt(q) : Total(Sizes(q), LiveAt(q) \intersect 1..i) \in Nat
      /\ \A i \in LiveAt(q) :
            (i \in G <=> c >= 0 /\ c >= Total(Sizes(q), LiveAt(q) \intersect 1..i))
  BY GrantedIs
<1>2. LiveAt(q) \subseteq 1..Len(q.list) /\ IsFiniteSet(LiveAt(q)) /\ Len(q.list) \in Nat /\ q.list \in Seq(Entries)
      /\ q.size \in Nat
  BY LiveAtIs DEF Fifos
<1>3. 1 \in LiveAt(q) /\ FifoFront(q) = q.list[1]
  BY EmptyMeansEmpty
<1>4. nr \in Nat /\ Sizes(q)[1] = nr /\ c >= 0 /\ c >= nr /\ d = c - nr
  BY <1>3, SizesAre DEF HasAvailableUnits
<1> HIDE DEF nr
<1>5. d \in Int /\ d >= 0
  BY <1>4
<1>6. p \in Fifos(Entries) /\ FifoInOrder(p) /\ \E m \in 1..Len(q.list) : Shrunk(q, p, m, {1})
  BY PopFrontIs
<1>7. PICK m \in 1..Len(q.list) : Shrunk(q, p, m, {1})
  BY <1>6
<1>8. /\ H \subseteq LiveAt(p) /\ IsFiniteSet(H)
      /\ \A i \in LiveAt(p) : Total(Sizes(p), LiveAt(p) \intersect 1..i) \in Nat
      /\ \A i \in LiveAt(p) :
            (i \in H <=> d >= 0 /\ d >= Total(Sizes(p), LiveAt(p) \intersect 1..i))
  BY <1>5, <1>6, GrantedIs
<1>9. LiveAt(p) \subseteq 1..Len(p.list) /\ Len(p.list) \in Nat /\ p.list \in Seq(Entries)
      /\ Len(p.list) = Len(q.list) - m /\ p.size = q.size - 1
  <2>1. Cardinality({1}) = 1
    BY FS_Singleton
  <2>2. Len(p.list) = Len(q.list) - m /\ p.size = q.size - Cardinality({1})
    BY <1>7 DEF Shrunk
  <2>3. LiveAt(p) \subseteq 1..Len(p.list) /\ Len(p.list) \in Nat /\ p.list \in Seq(Entries)
    BY <1>6, LiveAtIs DEF Fifos
  <2> QED
    BY <2>1, <2>2, <2>3
<1>10. /\ \A j : j \in LiveAt(p) <=> j \in 1..Len(p.list) /\ j + m \in LiveAt(q) \ {1}
       /\ \A i \in LiveAt(q) \ {1} : i - m \in LiveAt(p) /\ (i - m) + m = i
  <2>1. p \in Fifos(Entries) /\ Shrunk(q, p, m, {1})
    BY <1>6, <1>7
  <2> QED
    BY <2>1, LiveOfShrunk
<1> HIDE DEF G, H
<1>11. ASSUME NEW j \in LiveAt(p)
       PROVE  j \in H <=> j + m \in G
  <2> DEFINE S == LiveAt(p) \intersect 1..j
             U == LiveAt(q) \intersect 1..(j + m)
             T == {k + m : k \in S}
  <2>1. Total(Sizes(q), T) = Total(Sizes(p), S)
    <3>1. T = {k + m : k \in S} /\ S \in SUBSET LiveAt(p)
      OBVIOUS
    <3> HIDE DEF S, T
    <3>2. MovesUp(q, p, m, {1}, S, T)
      BY <1>6, <1>7, <3>1, MovedUp
    <3> QED
      BY <3>2 DEF MovesUp
  <2>2. T = U \ {1}
    <3>1. ASSUME NEW k \in S PROVE k + m \in U \ {1}
      BY <1>9, <1>10, <3>1
    <3>2. ASSUME NEW i \in U \ {1} PROVE i - m \in S /\ (i - m) + m = i
      BY <1>2, <1>9, <1>10, <3>2
    <3> QED
      BY <3>1, <3>2
  <2>3. /\ 1 \in U /\ IsFiniteSet(U) /\ \A i \in U : Sizes(q)[i] \in Nat
    BY <1>2, <1>3, <1>9, SizesAre, FS_Subset
  <2>4. Total(Sizes(q), U \ {1}) = Total(Sizes(q), U) - Sizes(q)[1] /\ Total(Sizes(q), U) \in Nat
    BY <2>3, TotalWithout
  <2>5. j + m \in LiveAt(q)
    BY <1>10
  <2>6. /\ j \in H <=> d >= 0 /\ d >= Total(Sizes(p), S)
        /\ j + m \in G <=> c >= 0 /\ c >= Total(Sizes(q), U)
    BY <1>1, <1>8, <2>5
  <2> HIDE DEF S, U, T
  <2> QED
    BY <1>4, <2>1, <2>2, <2>4, <2>6
<1>12. 1 \in G
  <2>1. LiveAt(q) \intersect 1..1 = {1}
    BY <1>2, <1>3
  <2>2. Total(Sizes(q), {1}) = nr
    BY <1>4, TotalOfOne
  <2> QED
    BY <1>1, <1>3, <1>4, <2>1, <2>2
<1> DEFINE T == {j + m : j \in H}
<1>13. T = G \ {1}
  <2>1. ASSUME NEW j \in H PROVE j + m \in G \ {1}
    BY <1>8, <1>10, <1>11, <2>1
  <2>2. ASSUME NEW i \in G \ {1} PROVE i - m \in H /\ (i - m) + m = i
    BY <1>1, <1>10, <1>11, <2>2
  <2> QED
    BY <2>1, <2>2
<1>14. /\ T \subseteq LiveAt(q) \ {1} /\ IsFiniteSet(H) /\ IsFiniteSet(T)
       /\ Cardinality(T) = Cardinality(H) /\ Total(Sizes(q), T) = Total(Sizes(p), H)
       /\ \A j \in H : p.list[j] = q.list[j + m]
  <2>1. T = {j + m : j \in H} /\ H \in SUBSET LiveAt(p)
    BY <1>8
  <2> HIDE DEF T
  <2>2. MovesUp(q, p, m, {1}, H, T)
    BY <1>6, <1>7, <2>1, MovedUp
  <2> QED
    BY <1>8, <2>2 DEF MovesUp
<1> HIDE DEF T
<1>15. c - Total(Sizes(q), G) = d - Total(Sizes(p), H)
  <2>1. \A i \in G : Sizes(q)[i] \in Nat
    BY <1>1, SizesAre
  <2>2. Total(Sizes(q), G \ {1}) = Total(Sizes(q), G) - Sizes(q)[1] /\ Total(Sizes(q), G) \in Nat
    BY <1>1, <1>12, <2>1, TotalWithout
  <2> QED
    BY <1>4, <1>13, <1>14, <2>2
<1>16. Cardinality(G) = Cardinality(H) + 1 /\ Cardinality(H) \in Nat
  <2>1. Cardinality(G \ {1}) = Cardinality(G) - 1 /\ Cardinality(G) \in Nat /\ Cardinality(H) \in Nat
    BY <1>1, <1>8, <1>12, FS_RemoveElement, FS_CardinalityType
  <2> QED
    BY <1>13, <1>14, <2>1
<1>17. {q.list[i].fiber : i \in G} = {FifoFront(q).fiber} \union {p.list[j].fiber : j \in H}
  <2>1. {q.list[i].fiber : i \in T} = {p.list[j].fiber : j \in H}
    BY <1>14 DEF T
  <2>2. G = {1} \union T
    BY <1>12, <1>13
  <2> QED
    BY <1>3, <2>1, <2>2
<1> DEFINE lastG == CHOOSE i \in G : \A j \in G : j <= i
           lastH == CHOOSE i \in H : \A j \in H : j <= i
           atG == [list |-> SubSeq(q.list, lastG + 1, Len(q.list)), size |-> q.size - Cardinality(G)]
           atH == [list |-> SubSeq(p.list, lastH + 1, Len(p.list)), size |-> p.size - Cardinality(H)]
<1>18. GrantLoop(c, q).fifo = DropExpiredFront(atG)
  BY <1>12 DEF GrantLoop, G
<1>19. GrantLoop(d, p).fifo = IF H = {} THEN p ELSE DropExpiredFront(atH)
  BY DEF GrantLoop, H
<1>20. lastG \in G /\ \A j \in G : j <= lastG
  <2>1. G \in SUBSET (0..Len(q.list)) /\ G # {}
    BY <1>1, <1>2, <1>12
  <2>2. \E i \in G : \A j \in G : j <= i
    BY <1>2, <2>1, Largest
  <2> QED
    BY <2>2
<1>21. H # {} => lastH \in H /\ \A j \in H : j <= lastH
  <2> SUFFICES ASSUME H # {} PROVE lastH \in H /\ \A j \in H : j <= lastH
    OBVIOUS
  <2>1. H \in SUBSET (0..Len(p.list))
    BY <1>8, <1>9
  <2>2. \E i \in H : \A j \in H : j <= i
    BY <1>9, <2>1, Largest
  <2> QED
    BY <2>2
<1>22. GrantLoop(c, q).fifo = GrantLoop(d, p).fifo
  <2>1. CASE H = {}
    <3>1. G = {1} /\ Cardinality(H) = 0
      BY <1>12, <1>13, <1>14, <2>1, FS_EmptySet DEF T
    <3>2. lastG = 1
      BY <1>20, <3>1
    <3>3. SubSeq(q.list, 2, Len(q.list)) = Tail(q.list)
      <4>1. q.list # <<>>
        BY <1>2, <1>3
      <4> QED
        BY <1>2, <4>1
    <3>4. atG = [list |-> Tail(q.list), size |-> q.size - 1]
      <4>1. q.size - Cardinality(G) = q.size - 1
        BY <1>16, <3>1
      <4> HIDE DEF lastG
      <4>2. lastG + 1 = 2
        BY <3>2
      <4> QED
        BY <3>3, <4>1, <4>2
    <3> HIDE DEF atG
    <3>5. GrantLoop(c, q).fifo = PopFront(q)
      BY <1>18, <3>4 DEF PopFront
    <3> QED
      BY <1>19, <2>1, <3>5
  <2>2. CASE H # {}
    <3> HIDE DEF lastG, lastH
    <3>1. lastG = lastH + m /\ lastH \in 1..Len(p.list) /\ lastG \in 1..Len(q.list)
      <4>1. lastH + m \in G
        BY <1>8, <1>11, <1>21, <2>2
      <4>2. lastG # 1
        BY <1>2, <1>9, <1>20, <1>21, <2>2, <4>1, <1>8
      <4>3. lastG - m \in H /\ (lastG - m) + m = lastG
        BY <1>1, <1>10, <1>11, <1>20, <4>2
      <4>4. lastG - m <= lastH /\ lastH + m <= lastG
        BY <1>20, <1>21, <2>2, <4>1, <4>3
      <4>5. lastH \in 1..Len(p.list) /\ lastG \in 1..Len(q.list)
        BY <1>1, <1>2, <1>8, <1>9, <1>20, <1>21, <2>2
      <4> QED
        BY <4>4, <4>5
    <3>2. SubSeq(q.list, lastG + 1, Len(q.list)) = SubSeq(p.list, lastH + 1, Len(p.list))
      <4> DEFINE s == SubSeq(q.list, lastG + 1, Len(q.list))
                 t == SubSeq(p.list, lastH + 1, Len(p.list))
      <4>1. lastG \in 0..Len(q.list) /\ lastH \in 0..Len(p.list)
        BY <3>1, <1>2, <1>9
      <4>2. /\ s \in Seq(Entries) /\ Len(s) = Len(q.list) - lastG
            /\ \A j \in 1..Len(s) : s[j] = q.list[j + lastG]
        BY <1>2, <4>1, RestIs
      <4>3. /\ t \in Seq(Entries) /\ Len(t) = Len(p.list) - lastH
            /\ \A j \in 1..Len(t) : t[j] = p.list[j + lastH]
        BY <1>9, <4>1, RestIs
      <4> HIDE DEF s, t
      <4>4. Len(s) = Len(t)
        BY <1>2, <1>9, <3>1, <4>2, <4>3
      <4>5. ASSUME NEW j \in 1..Len(s) PROVE s[j] = t[j]
        <5>1. /\ j + lastH \in 1..Len(p.list) /\ (j + lastH) + m = j + lastG
              /\ j + lastG > lastG
          BY <1>9, <3>1, <4>3, <4>4
        <5>2. (j + lastH) + m # 1
          BY <3>1, <5>1
        <5>3. p.list[j + lastH] = q.list[(j + lastH) + m]
          BY <1>7, <5>1, <5>2 DEF Shrunk
        <5> QED
          BY <4>2, <4>3, <4>4, <5>1, <5>3
      <4>6. s = t
        BY <4>2, <4>3, <4>4, <4>5, SeqEqual
      <4> QED
        BY <4>6 DEF s, t
    <3>3. q.size - Cardinality(G) = p.size - Cardinality(H)
      BY <1>2, <1>9, <1>16
    <3>4. atG = atH
      BY <3>2, <3>3
    <3> HIDE DEF atG, atH
    <3> QED
      BY <1>18, <1>19, <2>2, <3>4
  <2> QED
    BY <2>1, <2>2
<1>23. /\ GrantLoop(d, p).count = d - Total(Sizes(p), H)
       /\ GrantLoop(d, p).woken = {p.list[j].fiber : j \in H}
       /\ GrantLoop(c, q) = [count |-> c - Total(Sizes(q), G), fifo |-> GrantLoop(c, q).fifo,
                             woken |-> {q.list[i].fiber : i \in G}]
  BY DEF GrantLoop, G, H
<1> QED
  BY <1>15, <1>17, <1>22, <1>23

(* GrantLoop is the while loop of signal(): as long as there is a waiter   *)
(* and the request of the one at the front fits, one turn takes its units  *)
(* from the counter, answers it and pops it.                               *)
THEOREM GrantLoopIsTheLoop ==
  \A q \in Fifos(Entries), c \in Int :
     FifoInOrder(q) =>
       GrantLoop(c, q) =
         IF ~IsEmpty(q) /\ HasAvailableUnits(c, FifoFront(q).nr)
         THEN LET next == GrantLoop(c - FifoFront(q).nr, PopFront(q))
              IN  [next EXCEPT !.woken = {FifoFront(q).fiber} \union @]
         ELSE [count |-> c, fifo |-> q, woken |-> {}]
<1> SUFFICES ASSUME NEW q \in Fifos(Entries), NEW c \in Int, FifoInOrder(q)
             PROVE  GrantLoop(c, q) =
               IF ~IsEmpty(q) /\ HasAvailableUnits(c, FifoFront(q).nr)
               THEN LET next == GrantLoop(c - FifoFront(q).nr, PopFront(q))
                    IN  [next EXCEPT !.woken = {FifoFront(q).fiber} \union @]
               ELSE [count |-> c, fifo |-> q, woken |-> {}]
  OBVIOUS
<1>1. CASE ~(~IsEmpty(q) /\ HasAvailableUnits(c, FifoFront(q).nr))
  BY <1>1, LoopStops
<1>2. CASE ~IsEmpty(q) /\ HasAvailableUnits(c, FifoFront(q).nr)
  <2> DEFINE next == GrantLoop(c - FifoFront(q).nr, PopFront(q))
  <2>1. GrantLoop(c, q) = [count |-> next.count, fifo |-> next.fifo,
                           woken |-> {FifoFront(q).fiber} \union next.woken]
    BY <1>2, LoopTurns
  <2>2. next = [count |-> next.count, fifo |-> next.fifo, woken |-> next.woken]
    BY DEF GrantLoop
  <2> HIDE DEF next
  <2>3. [next EXCEPT !.woken = {FifoFront(q).fiber} \union @] =
           [count |-> next.count, fifo |-> next.fifo, woken |-> {FifoFront(q).fiber} \union next.woken]
    BY <2>2
  <2> QED
    BY <1>2, <2>1, <2>3 DEF next
<1> QED
  BY <1>1, <1>2
------------------------------------------------------------------------------
(* The types of the variables; the entries of the list are given exactly.  *)
SemTypeOK ==
  /\ count \in Int /\ ex \in BOOLEAN /\ supply \in Int
  /\ fifo \in Fifos(Entries)
  /\ fut \in [Fibers -> Futures]
  /\ asked \in [Fibers -> Nat] /\ held \in [Fibers -> Nat]

(* No fiber has two live entries,                                          *)
OneEntryEach ==
  \A i, j \in LiveAt(fifo) : fifo.list[i].fiber = fifo.list[j].fiber => i = j

(* a fiber waits exactly when it has one,                                  *)
EntriesWait ==
  \A f \in Fibers : fut[f] = "waiting" <=> \E i \in LiveAt(fifo) : fifo.list[i].fiber = f

(* and the entry has what the fiber asked for.                             *)
EntriesAsk ==
  \A i \in LiveAt(fifo) : asked[fifo.list[i].fiber] = fifo.list[i].nr

(* The wait list and the futures agree.                                    *)
ListInv == FifoInOrder(fifo) /\ OneEntryEach /\ EntriesWait /\ EntriesAsk

(* The inductive invariant.                                                *)
SemInv == SemTypeOK /\ ListInv /\ BrokenKeepsNobody /\ UnitsConserved

(* The totals of UnitsConserved are over finite sets.                      *)
LEMMA ReadyFinite ==
  ASSUME SemTypeOK
  PROVE  IsFiniteSet(Ready) /\ IsFiniteSet(Fibers) /\ Ready \subseteq Fibers
         /\ Total(asked, Ready) \in Nat /\ Total(held, Fibers) \in Nat
<1>1. IsFiniteSet(Fibers) /\ Ready \subseteq Fibers
  BY SemaphoreAssumption DEF Ready
<1>2. IsFiniteSet(Ready)
  BY <1>1, FS_Subset
<1>3. \A f \in Fibers : asked[f] \in Nat /\ held[f] \in Nat
  BY DEF SemTypeOK
<1> QED
  BY <1>1, <1>2, <1>3, TotalIs

(* What a live entry holds.                                                *)
LEMMA EntryIs ==
  ASSUME SemTypeOK
  PROVE \A i \in LiveAt(fifo) : fifo.list[i].fiber \in Fibers /\ fifo.list[i].nr \in Nat
<1> SUFFICES ASSUME NEW i \in LiveAt(fifo) PROVE fifo.list[i] \in Entries
  BY DEF Entries
<1> QED
  BY DEF SemTypeOK, LiveAt, Fifos

(* The list and the futures still agree when some entries leave the list   *)
(* and exactly their fibers stop waiting.                                  *)
LEMMA LeaveKeeps ==
  ASSUME SemTypeOK, ListInv, fifo' \in Fifos(Entries), NEW m, NEW R, Shrunk(fifo, fifo', m, R),
         \A f \in Fibers : fut'[f] = "waiting" <=>
            fut[f] = "waiting" /\ f \notin {fifo.list[i].fiber : i \in R},
         \A f \in Fibers : fut'[f] = "waiting" => asked'[f] = asked[f]
  PROVE  ListInv'
<1>1. /\ \A j : j \in LiveAt(fifo') <=> j \in 1..Len(fifo'.list) /\ j + m \in LiveAt(fifo) \ R
      /\ \A j \in LiveAt(fifo') : j + m \in LiveAt(fifo) \ R /\ fifo'.list[j] = fifo.list[j + m]
      /\ \A i \in LiveAt(fifo) \ R : i - m \in LiveAt(fifo') /\ (i - m) + m = i
  BY LiveOfShrunk DEF SemTypeOK
<1>2. FifoInOrder(fifo')
  BY ShrunkInOrder DEF SemTypeOK, ListInv
<1>3. m \in Nat /\ LiveAt(fifo') \subseteq Nat /\ R \subseteq LiveAt(fifo)
  BY DEF Shrunk, LiveAt, SemTypeOK, Fifos
<1>4. OneEntryEach'
  <2> SUFFICES ASSUME NEW i \in LiveAt(fifo'), NEW j \in LiveAt(fifo'),
                      fifo'.list[i].fiber = fifo'.list[j].fiber
               PROVE  i = j
    BY DEF OneEntryEach
  <2>1. i + m = j + m
    BY <1>1 DEF ListInv, OneEntryEach
  <2> QED
    BY <1>3, <2>1
<1>5. ASSUME NEW f \in Fibers
      PROVE  fut'[f] = "waiting" <=> \E j \in LiveAt(fifo') : fifo'.list[j].fiber = f
  <2>1. ASSUME fut'[f] = "waiting"
        PROVE  \E j \in LiveAt(fifo') : fifo'.list[j].fiber = f
    <3>1. PICK i \in LiveAt(fifo) : fifo.list[i].fiber = f
      BY <2>1 DEF ListInv, EntriesWait
    <3>2. i \in LiveAt(fifo) \ R
      BY <2>1, <3>1
    <3>3. i - m \in LiveAt(fifo') /\ fifo'.list[i - m] = fifo.list[i]
      BY <1>1, <3>2
    <3> QED
      BY <3>1, <3>3
  <2>2. ASSUME NEW j \in LiveAt(fifo'), fifo'.list[j].fiber = f
        PROVE  fut'[f] = "waiting"
    <3>1. j + m \in LiveAt(fifo) \ R /\ fifo.list[j + m].fiber = f
      BY <1>1, <2>2
    <3>2. f \notin {fifo.list[i].fiber : i \in R}
      BY <1>3, <3>1 DEF ListInv, OneEntryEach
    <3> QED
      BY <3>1, <3>2 DEF ListInv, EntriesWait
  <2> QED
    BY <2>1, <2>2
<1>6. ASSUME NEW j \in LiveAt(fifo')
      PROVE  asked'[fifo'.list[j].fiber] = fifo'.list[j].nr
  <2>1. fifo.list[j + m].fiber \in Fibers /\ j + m \in LiveAt(fifo) /\ fifo'.list[j] = fifo.list[j + m]
    BY <1>1, EntryIs
  <2>2. fut'[fifo'.list[j].fiber] = "waiting"
    BY <1>5, <2>1
  <2> QED
    BY <2>1, <2>2 DEF ListInv, EntriesAsk
<1>7. EntriesWait'
  BY <1>5 DEF EntriesWait
<1>8. EntriesAsk'
  BY <1>6 DEF EntriesAsk
<1> QED
  BY <1>2, <1>4, <1>7, <1>8 DEF ListInv

(* The fibers that a signal reaches asked for what their entries say.      *)
LEMMA WokenAsked ==
  ASSUME SemTypeOK, ListInv, NEW c \in Int
  PROVE  LET G == Granted(c, fifo)
             W == {fifo.list[i].fiber : i \in G} IN
         /\ W \subseteq Fibers /\ IsFiniteSet(W)
         /\ \A f \in W : fut[f] = "waiting"
         /\ Total(asked, W) = Total(Sizes(fifo), G)
<1> DEFINE G == Granted(c, fifo)
           W == {fifo.list[i].fiber : i \in G}
           p == [i \in G |-> fifo.list[i].fiber]
<1>1. G \subseteq LiveAt(fifo) /\ IsFiniteSet(G)
  BY GrantedIs DEF SemTypeOK
<1> HIDE DEF G
<1>2. p \in Bijection(G, W)
  <2>1. p \in [G -> W]
    OBVIOUS
  <2>2. \A i, j \in G : p[i] = p[j] => i = j
    BY <1>1 DEF ListInv, OneEntryEach
  <2>3. \A w \in W : \E i \in G : p[i] = w
    OBVIOUS
  <2> HIDE DEF p, W
  <2> QED
    BY <2>1, <2>2, <2>3 DEF Bijection, Injection, Surjection, IsInjective
<1>3. \A i \in G : Sizes(fifo)[i] \in Nat /\ asked[p[i]] = Sizes(fifo)[i]
  BY <1>1, SizesAre DEF ListInv, EntriesAsk, SemTypeOK
<1>4. Total(asked, W) = Total(Sizes(fifo), G) /\ IsFiniteSet(W)
  <2> HIDE DEF p, W
  <2> QED
    BY <1>1, <1>2, <1>3, TotalOfImage, FS_Bijection DEF ExistsBijection
<1>5. W \subseteq Fibers /\ \A f \in W : fut[f] = "waiting"
  BY <1>1, EntryIs DEF ListInv, EntriesWait
<1> QED
  BY <1>4, <1>5 DEF G

(* What signal(n) leaves behind, called by a fiber that makes the futures  *)
(* f0: it hands out some of the units, and the list agrees with the        *)
(* futures.                                                                *)
Served(nr, f0) ==
  /\ fut' \in [Fibers -> Futures] /\ fifo' \in Fifos(Entries) /\ count' \in Int
  /\ ListInv'
  /\ ex => count' = count /\ fifo' = fifo
  /\ ~ex => count' + Total(asked', Ready') = count + nr + Total(asked, {f \in Fibers : f0[f] = "ready"})

(* f0 is fut, but for fibers that act on their granted request.            *)
GivesUp(f0) ==
  /\ f0 \in [Fibers -> Futures]
  /\ \A f \in Fibers : f0[f] = fut[f] \/ (fut[f] = "ready" /\ f0[f] = "none")

(* signal() serves,                                                        *)
LEMMA SignalServes ==
  ASSUME SemInv, NEW nr \in Nat, NEW f0, GivesUp(f0), Signal(nr, f0),
         \A f \in Fibers : f0[f] \in {"waiting", "ready"} => asked'[f] = asked[f]
  PROVE  Served(nr, f0)
<1> DEFINE c == count + nr
           G == Granted(c, fifo)
           W == {fifo.list[i].fiber : i \in G}
           R0 == {f \in Fibers : f0[f] = "ready"}
<1> USE DEF SemInv
<1>0. /\ fifo \in Fifos(Entries) /\ FifoInOrder(fifo) /\ c \in Int /\ fut \in [Fibers -> Futures]
      /\ asked \in [Fibers -> Nat]
  BY DEF SemTypeOK, ListInv
<1>1. CASE ex
  <2>1. fut' = f0 /\ count' = count /\ fifo' = fifo
    BY <1>1 DEF Signal
  <2>2. LiveAt(fifo) = {} /\ fifo = EmptyFifo
    BY <1>1, EmptyFifoIs DEF BrokenKeepsNobody
  <2>3. \A f \in Fibers : fut'[f] # "waiting"
    BY <2>1, <2>2 DEF GivesUp, ListInv, EntriesWait
  <2>4. ListInv'
    BY <1>0, <2>1, <2>2, <2>3 DEF ListInv, OneEntryEach, EntriesWait, EntriesAsk
  <2> QED
    BY <1>0, <1>1, <2>1, <2>4 DEF Served, GivesUp, SemTypeOK
<1>2. CASE ~ex
  <2>1. /\ count' = GrantLoop(c, fifo).count
        /\ fifo' = GrantLoop(c, fifo).fifo
        /\ fut' = [f \in Fibers |-> IF f \in GrantLoop(c, fifo).woken THEN "ready" ELSE f0[f]]
    BY <1>2 DEF Signal
  <2> HIDE DEF c
  <2>2. /\ GrantLoop(c, fifo).fifo \in Fifos(Entries)
        /\ \E m : Shrunk(fifo, GrantLoop(c, fifo).fifo, m, G)
        /\ GrantLoop(c, fifo).count = c - Total(Sizes(fifo), G)
        /\ GrantLoop(c, fifo).woken = W
    BY <1>0, GrantLoopIs
  <2>3. PICK m : Shrunk(fifo, fifo', m, G)
    BY <2>1, <2>2
  <2>4. /\ W \subseteq Fibers /\ IsFiniteSet(W) /\ \A f \in W : fut[f] = "waiting"
        /\ Total(asked, W) = Total(Sizes(fifo), G)
    BY <1>0, WokenAsked
  <2>5. Total(Sizes(fifo), G) \in Nat
    BY <1>0, GrantedIs
  <2>6. fut' = [f \in Fibers |-> IF f \in W THEN "ready" ELSE f0[f]]
    BY <2>1, <2>2
  <2>7. fifo' \in Fifos(Entries) /\ count' = c - Total(Sizes(fifo), G)
    BY <2>1, <2>2
  <2>8. fut' \in [Fibers -> Futures]
    BY <2>6 DEF GivesUp, Futures
  <2>9. \A f \in Fibers : fut'[f] = "waiting" <=> fut[f] = "waiting" /\ f \notin W
    BY <2>6 DEF GivesUp
  <2>10. \A f \in Fibers : fut'[f] = "waiting" => asked'[f] = asked[f]
    BY <2>6, <2>4
  <2>11. ListInv'
    <3> HIDE DEF G
    <3> QED
      BY <2>3, <2>7, <2>9, <2>10, LeaveKeeps
  <2>12. Ready' = R0 \union W /\ R0 \intersect W = {}
    BY <2>4, <2>6 DEF Ready, GivesUp
  <2>13. \A f \in R0 \union W : asked'[f] = asked[f] /\ asked[f] \in Nat
    BY <1>0, <2>4 DEF GivesUp
  <2>14. IsFiniteSet(R0)
    BY SemaphoreAssumption, FS_Subset
  <2> HIDE DEF G, W, R0
  <2>15. Total(asked', Ready') = Total(asked, R0) + Total(asked, W)
    BY <2>4, <2>12, <2>13, <2>14, TotalAgrees, TotalOfUnion
  <2>16. Total(asked, R0) \in Nat
    BY <2>13, <2>14, TotalIs
  <2>17. count' \in Int
    BY <1>0, <2>5, <2>7
  <2>18. count' + Total(asked', Ready') = count + nr + Total(asked, R0)
    BY <2>4, <2>5, <2>7, <2>15, <2>16 DEF c, SemTypeOK
  <2> QED
    BY <1>2, <2>7, <2>8, <2>11, <2>17, <2>18 DEF Served, R0
<1> QED
  BY <1>1, <1>2

(* and so does the destructor of a units object.                           *)
LEMMA DropServes ==
  ASSUME SemInv, NEW n \in Nat, NEW f0, GivesUp(f0), DropUnits(n, f0),
         \A f \in Fibers : f0[f] \in {"waiting", "ready"} => asked'[f] = asked[f]
  PROVE  Served(n, f0)
<1>1. CASE n > 0
  BY <1>1, SignalServes DEF DropUnits
<1>2. CASE n = 0
  <2>1. fut' = f0 /\ count' = count /\ fifo' = fifo
    BY <1>2 DEF DropUnits
  <2>2. /\ fifo \in Fifos(Entries) /\ count \in Int /\ fut \in [Fibers -> Futures]
        /\ asked \in [Fibers -> Nat]
    BY DEF SemInv, SemTypeOK
  <2>3. \A f \in Fibers : fut'[f] = "waiting" <=> fut[f] = "waiting"
    BY <2>1 DEF GivesUp
  <2>4. ListInv'
    <3>1. FifoInOrder(fifo') /\ OneEntryEach'
      BY <2>1 DEF SemInv, ListInv, OneEntryEach
    <3>2. EntriesWait'
      BY <2>1, <2>3 DEF SemInv, ListInv, EntriesWait
    <3>3. EntriesAsk'
      <4> SUFFICES ASSUME NEW i \in LiveAt(fifo) PROVE asked'[fifo.list[i].fiber] = fifo.list[i].nr
        BY <2>1 DEF EntriesAsk
      <4>1. fifo.list[i].fiber \in Fibers
        BY EntryIs DEF SemInv
      <4>2. f0[fifo.list[i].fiber] = "waiting"
        BY <4>1, <2>1, <2>3 DEF SemInv, ListInv, EntriesWait
      <4> QED
        BY <4>1, <4>2 DEF SemInv, ListInv, EntriesAsk
    <3> QED
      BY <3>1, <3>2, <3>3 DEF ListInv
  <2>5. Ready' = {f \in Fibers : f0[f] = "ready"}
    BY <2>1 DEF Ready
  <2>6. Total(asked', Ready') = Total(asked, {f \in Fibers : f0[f] = "ready"})
    BY <2>5, TotalAgrees
  <2> QED
    BY <1>2, <2>1, <2>2, <2>4, <2>6 DEF Served, GivesUp
<1> QED
  BY <1>1, <1>2

(* A step that serves keeps the invariant when the units that came to the  *)
(* counter left somebody else, or are new.                                 *)
LEMMA ServedKeeps ==
  ASSUME SemInv, NEW n \in Nat, NEW f0, GivesUp(f0), Served(n, f0), ex' = ex,
         asked' \in [Fibers -> Nat], held' \in [Fibers -> Nat], supply' \in Int,
         ~ex => supply' - supply = n + (Total(asked, {f \in Fibers : f0[f] = "ready"}) - Total(asked, Ready))
                                     + (Total(held', Fibers) - Total(held, Fibers))
  PROVE  SemInv'
<1>1. SemTypeOK'
  BY DEF SemTypeOK, Served, SemInv
<1>2. BrokenKeepsNobody'
  BY DEF BrokenKeepsNobody, Served, SemInv
<1>3. UnitsConserved'
  <2> SUFFICES ASSUME ~ex PROVE count' + Total(asked', Ready') + Total(held', Fibers) = supply'
    BY DEF UnitsConserved
  <2>1. /\ Total(asked, Ready) \in Nat /\ Total(held, Fibers) \in Nat
        /\ Total(asked', Ready') \in Nat /\ Total(held', Fibers) \in Nat
    <3>1. IsFiniteSet(Fibers) /\ IsFiniteSet(Ready')
      BY SemaphoreAssumption, FS_Subset DEF Ready
    <3>2. \A f \in Fibers : asked'[f] \in Nat /\ held'[f] \in Nat
      OBVIOUS
    <3>3. Ready' \subseteq Fibers
      BY DEF Ready
    <3> QED
      BY <3>1, <3>2, <3>3, TotalIs, ReadyFinite DEF SemInv
  <2> DEFINE t0 == Total(asked, {f \in Fibers : f0[f] = "ready"})
  <2>2. t0 \in Nat
    <3>1. IsFiniteSet({f \in Fibers : f0[f] = "ready"})
      BY SemaphoreAssumption, FS_Subset
    <3>2. \A f \in Fibers : asked[f] \in Nat
      BY DEF SemInv, SemTypeOK
    <3> QED
      BY <3>1, <3>2, TotalIs
  <2>3. count' + Total(asked', Ready') = count + n + t0 /\ count' \in Int
    BY DEF Served
  <2>4. count + Total(asked, Ready) + Total(held, Fibers) = supply /\ count \in Int /\ supply \in Int
    BY DEF SemInv, UnitsConserved, SemTypeOK
  <2>5. supply' - supply = n + (t0 - Total(asked, Ready)) + (Total(held', Fibers) - Total(held, Fibers))
    OBVIOUS
  <2> HIDE DEF t0
  <2> QED
    BY <2>1, <2>2, <2>3, <2>4, <2>5
<1> QED
  BY <1>1, <1>2, <1>3 DEF SemInv, Served

(* The callers that act on no granted request,                             *)
LEMMA NobodyGivesUp == ASSUME SemInv PROVE GivesUp(fut)
BY DEF GivesUp, SemInv, SemTypeOK

(* and the one that does.                                                  *)
LEMMA OneGivesUp ==
  ASSUME SemInv, NEW f \in Fibers, fut[f] = "ready"
  PROVE  LET f0 == [fut EXCEPT ![f] = "none"]
             R0 == {g \in Fibers : f0[g] = "ready"} IN
         /\ GivesUp(f0) /\ \A g \in Fibers : f0[g] \in {"waiting", "ready"} => g # f
         /\ Total(asked, R0) = Total(asked, Ready) - asked[f]
<1> DEFINE f0 == [fut EXCEPT ![f] = "none"]
           R0 == {g \in Fibers : f0[g] = "ready"}
<1>1. fut \in [Fibers -> Futures]
  BY DEF SemInv, SemTypeOK
<1>2. \A g \in Fibers : f0[g] = IF g = f THEN "none" ELSE fut[g]
  BY <1>1
<1>3. f0 \in [Fibers -> Futures]
  BY <1>1 DEF Futures
<1> HIDE DEF f0
<1>4. R0 = Ready \ {f} /\ f \in Ready
  BY <1>2 DEF Ready
<1>5. IsFiniteSet(Ready) /\ \A g \in Ready : asked[g] \in Nat
  BY ReadyFinite DEF SemInv, SemTypeOK
<1>6. Total(asked, R0) = Total(asked, Ready) - asked[f]
  BY <1>4, <1>5, TotalWithout
<1> QED
  BY <1>2, <1>3, <1>6 DEF GivesUp, f0

(* Every action keeps the invariant: signal(nr) by a fiber that took nr,   *)
LEMMA GiveBackKeeps ==
  ASSUME SemInv, NEW f \in Fibers, GiveBack(f)
  PROVE  SemInv'
<1> DEFINE f0 == [fut EXCEPT ![f] = "none"]
           R0 == {g \in Fibers : f0[g] = "ready"}
<1>1. /\ fut[f] = "ready" /\ Signal(asked[f], f0) /\ asked' = [asked EXCEPT ![f] = 0]
      /\ ex' = ex /\ held' = held /\ supply' = supply
  BY DEF GiveBack
<1>2. asked \in [Fibers -> Nat] /\ held \in [Fibers -> Nat] /\ supply \in Int
  BY DEF SemInv, SemTypeOK
<1>3. /\ GivesUp(f0) /\ \A g \in Fibers : f0[g] \in {"waiting", "ready"} => g # f
      /\ Total(asked, R0) = Total(asked, Ready) - asked[f]
  BY <1>1, OneGivesUp
<1> HIDE DEF f0
<1>4. Served(asked[f], f0)
  BY <1>1, <1>2, <1>3, SignalServes
<1>5. Total(asked, Ready) \in Nat /\ Total(held, Fibers) \in Nat /\ asked[f] \in Nat
  BY <1>2, ReadyFinite DEF SemInv
<1>6. supply' - supply = asked[f] + (Total(asked, R0) - Total(asked, Ready))
                                   + (Total(held', Fibers) - Total(held, Fibers))
  BY <1>1, <1>2, <1>3, <1>5
<1> QED
  BY <1>1, <1>2, <1>3, <1>4, <1>6, ServedKeeps

(* get_units()'s continuation,                                             *)
LEMMA TakeUnitsKeeps ==
  ASSUME SemInv, NEW f \in Fibers, TakeUnits(f)
  PROVE  SemInv'
<1> DEFINE f0 == [fut EXCEPT ![f] = "none"]
           R0 == {g \in Fibers : f0[g] = "ready"}
<1>1. /\ fut[f] = "ready" /\ DropUnits(held[f], f0) /\ asked' = [asked EXCEPT ![f] = 0]
      /\ ex' = ex /\ held' = [held EXCEPT ![f] = asked[f]] /\ supply' = supply
  BY DEF TakeUnits
<1>2. /\ asked \in [Fibers -> Nat] /\ held \in [Fibers -> Nat] /\ supply \in Int
      /\ asked[f] \in Nat /\ held[f] \in Nat
  BY DEF SemInv, SemTypeOK
<1>3. /\ GivesUp(f0) /\ \A g \in Fibers : f0[g] \in {"waiting", "ready"} => g # f
      /\ Total(asked, R0) = Total(asked, Ready) - asked[f]
  BY <1>1, OneGivesUp
<1> HIDE DEF f0
<1>4. Served(held[f], f0)
  BY <1>1, <1>2, <1>3, DropServes
<1>5. Total(held', Fibers) = Total(held, Fibers) - held[f] + asked[f]
  <2>1. /\ IsFiniteSet(Fibers) /\ held' \in [Fibers -> Nat] /\ held'[f] = asked[f]
        /\ \A g \in Fibers \ {f} : held'[g] = held[g]
    BY <1>1, <1>2, SemaphoreAssumption
  <2> QED
    BY <1>2, <2>1, TotalChanged
<1>6. Total(asked, Ready) \in Nat /\ Total(held, Fibers) \in Nat
  BY ReadyFinite DEF SemInv
<1>7. supply' - supply = held[f] + (Total(asked, R0) - Total(asked, Ready))
                                  + (Total(held', Fibers) - Total(held, Fibers))
  BY <1>1, <1>2, <1>3, <1>5, <1>6
<1>8. asked' \in [Fibers -> Nat] /\ held' \in [Fibers -> Nat] /\ supply' \in Int
  BY <1>1, <1>2
<1> QED
  BY <1>1, <1>2, <1>3, <1>4, <1>7, <1>8, ServedKeeps

(* signal(nr) by somebody else,                                            *)
LEMMA DepositKeeps == ASSUME SemInv, NEW nr \in Nat, Deposit(nr) PROVE SemInv'
<1>1. Signal(nr, fut) /\ supply' = (IF ex THEN supply ELSE supply + nr) /\ ex' = ex /\ asked' = asked /\ held' = held
  BY DEF Deposit
<1>2. asked \in [Fibers -> Nat] /\ held \in [Fibers -> Nat] /\ supply \in Int
  BY DEF SemInv, SemTypeOK
<1>3. GivesUp(fut)
  BY NobodyGivesUp
<1>4. Served(nr, fut)
  BY <1>1, <1>3, SignalServes
<1>5. Total(asked, Ready) \in Nat /\ Total(held, Fibers) \in Nat
  BY ReadyFinite DEF SemInv
<1>6. ~ex => supply' - supply = nr + (Total(asked, {f \in Fibers : fut[f] = "ready"}) - Total(asked, Ready))
                                   + (Total(held', Fibers) - Total(held, Fibers))
  BY <1>1, <1>2, <1>5 DEF Ready
<1> QED
  BY <1>1, <1>2, <1>3, <1>4, <1>6, ServedKeeps

(* ~semaphore_units,                                                       *)
LEMMA DestroyUnitsKeeps ==
  ASSUME SemInv, NEW f \in Fibers, DestroyUnits(f)
  PROVE  SemInv'
<1>1. /\ DropUnits(held[f], fut) /\ held' = [held EXCEPT ![f] = 0]
      /\ ex' = ex /\ asked' = asked /\ supply' = supply
  BY DEF DestroyUnits
<1>2. asked \in [Fibers -> Nat] /\ held \in [Fibers -> Nat] /\ supply \in Int /\ held[f] \in Nat
  BY DEF SemInv, SemTypeOK
<1>3. GivesUp(fut)
  BY NobodyGivesUp
<1>4. Served(held[f], fut)
  BY <1>1, <1>2, <1>3, DropServes
<1>5. Total(asked, Ready) \in Nat /\ Total(held, Fibers) \in Nat
  BY ReadyFinite DEF SemInv
<1>6. Total(held', Fibers) = Total(held, Fibers) - held[f] + 0
  <2>1. /\ IsFiniteSet(Fibers) /\ held' \in [Fibers -> Nat] /\ held'[f] = 0
        /\ \A g \in Fibers \ {f} : held'[g] = held[g]
    BY <1>1, <1>2, SemaphoreAssumption
  <2> QED
    BY <1>2, <2>1, TotalChanged
<1>7. supply' - supply = held[f] + (Total(asked, {g \in Fibers : fut[g] = "ready"}) - Total(asked, Ready))
                                   + (Total(held', Fibers) - Total(held, Fibers))
  BY <1>1, <1>2, <1>5, <1>6 DEF Ready
<1>8. held' \in [Fibers -> Nat]
  BY <1>1, <1>2
<1> QED
  BY <1>1, <1>2, <1>3, <1>4, <1>7, <1>8, ServedKeeps

(* the move assignment,                                                    *)
LEMMA MoveUnitsKeeps ==
  ASSUME SemInv, NEW f \in Fibers, NEW g \in Fibers, MoveUnits(f, g)
  PROVE  SemInv'
<1> DEFINE h == [held EXCEPT ![f] = held[g]]
<1>1. /\ f # g /\ DropUnits(held[f], fut) /\ held' = [held EXCEPT ![f] = held[g], ![g] = 0]
      /\ ex' = ex /\ asked' = asked /\ supply' = supply
  BY DEF MoveUnits
<1>2. /\ asked \in [Fibers -> Nat] /\ held \in [Fibers -> Nat] /\ supply \in Int
      /\ held[f] \in Nat /\ held[g] \in Nat
  BY DEF SemInv, SemTypeOK
<1>3. GivesUp(fut)
  BY NobodyGivesUp
<1>4. Served(held[f], fut)
  BY <1>1, <1>2, <1>3, DropServes
<1>5. Total(asked, Ready) \in Nat /\ Total(held, Fibers) \in Nat
  BY ReadyFinite DEF SemInv
<1>6. h \in [Fibers -> Nat] /\ h[g] = held[g] /\ held' = [h EXCEPT ![g] = 0]
  BY <1>1, <1>2
<1>f. IsFiniteSet(Fibers) /\ h[f] = held[g] /\ \A k \in Fibers \ {f} : h[k] = held[k]
  BY <1>2, SemaphoreAssumption
<1> HIDE DEF h
<1>7. Total(h, Fibers) = Total(held, Fibers) - held[f] + held[g]
  BY <1>2, <1>6, <1>f, TotalChanged
<1>8. Total(held', Fibers) = Total(h, Fibers) - h[g] + 0
  <2>1. /\ IsFiniteSet(Fibers) /\ h \in [Fibers -> Nat] /\ held' \in [Fibers -> Nat] /\ held'[g] = 0
        /\ \A y \in Fibers \ {g} : held'[y] = h[y]
    BY <1>6, <1>f
  <2>2. Total(held', Fibers) = Total(h, Fibers) - h[g] + held'[g]
    BY <2>1, TotalChanged
  <2> QED
    BY <2>1, <2>2
<1>9. supply' - supply = held[f] + (Total(asked, {k \in Fibers : fut[k] = "ready"}) - Total(asked, Ready))
                                   + (Total(held', Fibers) - Total(held, Fibers))
  BY <1>1, <1>2, <1>5, <1>6, <1>7, <1>8 DEF Ready
<1>10. held' \in [Fibers -> Nat]
  BY <1>6
<1> QED
  BY <1>1, <1>2, <1>3, <1>4, <1>9, <1>10, ServedKeeps

(* consume_units(),                                                        *)
LEMMA ConsumeKeeps ==
  ASSUME SemInv, NEW f \in Fibers, NEW nr \in Nat, Consume(f, nr)
  PROVE  SemInv'
<1>1. /\ held[f] = 0 /\ count' = (IF ex THEN count ELSE count - nr) /\ held' = [held EXCEPT ![f] = nr]
      /\ ex' = ex /\ fifo' = fifo /\ fut' = fut /\ asked' = asked /\ supply' = supply
  BY DEF Consume
<1>2. held \in [Fibers -> Nat] /\ count \in Int /\ supply \in Int
  BY DEF SemInv, SemTypeOK
<1>3. SemTypeOK' /\ ListInv'
  BY <1>1, <1>2 DEF SemInv, SemTypeOK, ListInv, OneEntryEach, EntriesWait, EntriesAsk
<1>4. BrokenKeepsNobody'
  BY <1>1 DEF SemInv, BrokenKeepsNobody
<1>5. UnitsConserved'
  <2> SUFFICES ASSUME ~ex PROVE count' + Total(asked', Ready') + Total(held', Fibers) = supply'
    BY <1>1 DEF UnitsConserved
  <2>1. IsFiniteSet(Fibers) /\ held' \in [Fibers -> Nat] /\ held'[f] = nr /\ \A g \in Fibers \ {f} : held'[g] = held[g]
    BY <1>1, <1>2, SemaphoreAssumption
  <2>2. Total(held', Fibers) = Total(held, Fibers) - held[f] + held'[f]
    BY <1>2, <2>1, TotalChanged
  <2>3. Ready' = Ready
    BY <1>1 DEF Ready
  <2>4. Total(asked, Ready) \in Nat /\ Total(held, Fibers) \in Nat
    BY ReadyFinite DEF SemInv
  <2>5. count + Total(asked, Ready) + Total(held, Fibers) = supply
    BY DEF SemInv, UnitsConserved
  <2> QED
    BY <1>1, <1>2, <2>1, <2>2, <2>3, <2>4, <2>5
<1> QED
  BY <1>3, <1>4, <1>5 DEF SemInv

(* release(),                                                              *)
LEMMA ReleaseUnitsKeeps ==
  ASSUME SemInv, NEW f \in Fibers, ReleaseUnits(f)
  PROVE  SemInv'
<1>1. /\ held' = [held EXCEPT ![f] = 0] /\ supply' = (IF ex THEN supply ELSE supply - held[f])
      /\ count' = count /\ ex' = ex /\ fifo' = fifo /\ fut' = fut /\ asked' = asked
  BY DEF ReleaseUnits
<1>2. held \in [Fibers -> Nat] /\ count \in Int /\ supply \in Int
  BY DEF SemInv, SemTypeOK
<1>3. SemTypeOK' /\ ListInv'
  BY <1>1, <1>2 DEF SemInv, SemTypeOK, ListInv, OneEntryEach, EntriesWait, EntriesAsk
<1>4. BrokenKeepsNobody'
  BY <1>1 DEF SemInv, BrokenKeepsNobody
<1>5. UnitsConserved'
  <2> SUFFICES ASSUME ~ex PROVE count' + Total(asked', Ready') + Total(held', Fibers) = supply'
    BY <1>1 DEF UnitsConserved
  <2>1. IsFiniteSet(Fibers) /\ held' \in [Fibers -> Nat] /\ held'[f] = 0 /\ \A g \in Fibers \ {f} : held'[g] = held[g]
    BY <1>1, <1>2, SemaphoreAssumption
  <2>2. Total(held', Fibers) = Total(held, Fibers) - held[f] + held'[f]
    BY <1>2, <2>1, TotalChanged
  <2>3. Ready' = Ready
    BY <1>1 DEF Ready
  <2>4. Total(asked, Ready) \in Nat /\ Total(held, Fibers) \in Nat /\ held[f] \in Nat
    BY <1>2, ReadyFinite DEF SemInv
  <2>5. count + Total(asked, Ready) + Total(held, Fibers) = supply
    BY DEF SemInv, UnitsConserved
  <2> QED
    BY <1>1, <1>2, <2>1, <2>2, <2>3, <2>4, <2>5
<1> QED
  BY <1>3, <1>4, <1>5 DEF SemInv

(* wait() and try_wait() that find the units: the request is granted at    *)
(* once.                                                                   *)
Proceeds(f, nr) ==
  /\ Callable(f) /\ MayProceed(nr)
  /\ count' = count - nr
  /\ asked' = [asked EXCEPT ![f] = nr]
  /\ fut' = [fut EXCEPT ![f] = "ready"]
  /\ UNCHANGED <<ex, fifo, held, supply>>

(* They keep the invariant,                                                *)
LEMMA ProceedsKeeps ==
  ASSUME SemInv, NEW f \in Fibers, NEW nr \in Nat, Proceeds(f, nr)
  PROVE  SemInv'
<1>1. /\ fut[f] \notin {"waiting", "ready"} /\ count >= 0 /\ count >= nr /\ count' = count - nr
      /\ asked' = [asked EXCEPT ![f] = nr] /\ fut' = [fut EXCEPT ![f] = "ready"]
      /\ ex' = ex /\ fifo' = fifo /\ held' = held /\ supply' = supply
  BY DEF Proceeds, Callable, MayProceed, HasAvailableUnits
<1>2. asked \in [Fibers -> Nat] /\ fut \in [Fibers -> Futures] /\ count \in Int
  BY DEF SemInv, SemTypeOK
<1>3. SemTypeOK'
  <2>1. fut' \in [Fibers -> Futures]
    BY <1>1, <1>2 DEF Futures
  <2> QED
    BY <1>1, <1>2, <2>1 DEF SemInv, SemTypeOK
<1>4. ListInv'
  <2>1. \A g \in Fibers : fut'[g] = "waiting" <=> fut[g] = "waiting"
    BY <1>1, <1>2
  <2>2. \A g \in Fibers : fut[g] = "waiting" => asked'[g] = asked[g]
    BY <1>1, <1>2
  <2>3. \A i \in LiveAt(fifo) : asked'[fifo.list[i].fiber] = fifo.list[i].nr
    BY <2>2, EntryIs DEF SemInv, ListInv, EntriesWait, EntriesAsk
  <2> QED
    BY <1>1, <2>1, <2>3 DEF SemInv, ListInv, OneEntryEach, EntriesWait, EntriesAsk
<1>5. BrokenKeepsNobody'
  BY <1>1, <1>2 DEF SemInv, BrokenKeepsNobody
<1>6. UnitsConserved'
  <2> SUFFICES ASSUME ~ex PROVE count' + Total(asked', Ready') + Total(held', Fibers) = supply'
    BY <1>1 DEF UnitsConserved
  <2>1. Ready' = Ready \union {f} /\ f \notin Ready
    BY <1>1, <1>2 DEF Ready
  <2>2. \A g \in Ready \union {f} : asked'[g] \in Nat
    BY <1>1, <1>2 DEF Ready
  <2>3. (\A g \in Ready : asked'[g] = asked[g]) /\ asked'[f] = nr
    BY <1>1, <1>2 DEF Ready
  <2>4. IsFiniteSet(Ready) /\ Total(asked, Ready) \in Nat /\ Total(held, Fibers) \in Nat
    BY ReadyFinite DEF SemInv
  <2>5. Total(asked', Ready \union {f}) = Total(asked', Ready) + asked'[f]
    BY <2>1, <2>2, <2>4, TotalWith
  <2>6. Total(asked', Ready) = Total(asked, Ready)
    BY <2>3, TotalAgrees
  <2>7. count + Total(asked, Ready) + Total(held, Fibers) = supply /\ count \in Int
    BY DEF SemInv, UnitsConserved, SemTypeOK
  <2> QED
    BY <1>1, <2>1, <2>3, <2>4, <2>5, <2>6, <2>7
<1> QED
  BY <1>3, <1>4, <1>5, <1>6 DEF SemInv

(* and so does wait() on a broken semaphore.                               *)
LEMMA WaitFailsKeeps ==
  ASSUME SemInv, NEW f \in Fibers, Callable(f), fut' = [fut EXCEPT ![f] = "failed"],
         UNCHANGED <<count, fifo, asked, ex, held, supply>>
  PROVE  SemInv'
<1>1. fut \in [Fibers -> Futures] /\ fut[f] \notin {"waiting", "ready"}
  BY DEF SemInv, SemTypeOK, Callable
<1>2. SemTypeOK'
  <2>1. fut' \in [Fibers -> Futures]
    BY <1>1 DEF Futures
  <2> QED
    BY <2>1 DEF SemInv, SemTypeOK
<1>3. ListInv'
  <2>1. \A g \in Fibers : fut'[g] = "waiting" <=> fut[g] = "waiting"
    BY <1>1
  <2> QED
    BY <2>1 DEF SemInv, ListInv, OneEntryEach, EntriesWait, EntriesAsk
<1>4. Ready' = Ready
  BY <1>1 DEF Ready
<1>5. BrokenKeepsNobody' /\ UnitsConserved'
  BY <1>4 DEF SemInv, BrokenKeepsNobody, UnitsConserved
<1> QED
  BY <1>2, <1>3, <1>5 DEF SemInv

(* wait() that must wait.                                                  *)
Queues(f, nr, timed) ==
  /\ Callable(f) /\ ~MayProceed(nr) /\ ~ex
  /\ asked' = [asked EXCEPT ![f] = nr]
  /\ fut' = [fut EXCEPT ![f] = "waiting"]
  /\ fifo' = PushBack(fifo, [fiber |-> f, nr |-> nr, timed |-> timed, live |-> TRUE])
  /\ UNCHANGED <<count, ex, held, supply>>

(* The new entry is the only one of its fiber.                             *)
LEMMA QueuesKeeps ==
  ASSUME SemInv, NEW f \in Fibers, NEW nr \in Nat, NEW timed \in BOOLEAN, Queues(f, nr, timed)
  PROVE  SemInv'
<1> DEFINE e == [fiber |-> f, nr |-> nr, timed |-> timed, live |-> TRUE]
           k == Len(fifo.list) + 1
<1>1. /\ fut[f] \notin {"waiting", "ready"} /\ ~ex
      /\ asked' = [asked EXCEPT ![f] = nr] /\ fut' = [fut EXCEPT ![f] = "waiting"]
      /\ fifo' = PushBack(fifo, e)
      /\ ex' = ex /\ count' = count /\ held' = held /\ supply' = supply
  BY DEF Queues, Callable
<1>2. /\ asked \in [Fibers -> Nat] /\ fut \in [Fibers -> Futures] /\ fifo \in Fifos(Entries)
      /\ FifoInOrder(fifo) /\ Len(fifo.list) \in Nat
  BY DEF SemInv, SemTypeOK, ListInv, Fifos
<1>3. e \in Entries /\ e.live = TRUE /\ e.fiber = f /\ e.nr = nr
  BY DEF Entries
<1> HIDE DEF e
<1>4. /\ fifo' \in Fifos(Entries) /\ FifoInOrder(fifo')
      /\ Len(fifo'.list) = Len(fifo.list) + 1 /\ fifo'.list[k] = e
      /\ \A i \in 1..Len(fifo.list) : fifo'.list[i] = fifo.list[i]
      /\ LiveAt(fifo') = LiveAt(fifo) \union {k}
  <2>1. fifo' = PushBack(fifo, e)
    BY <1>1
  <2>2. fifo \in Fifos(Entries) /\ FifoInOrder(fifo) /\ e \in Entries /\ e.live = TRUE
    BY <1>2, <1>3
  <2>3. Pushed(Entries, fifo, e, fifo')
    BY <2>1, <2>2, PushBackIs
  <2> QED
    BY <2>3 DEF Pushed
<1>5. LiveAt(fifo) \subseteq 1..Len(fifo.list) /\ k \notin LiveAt(fifo)
  BY <1>2 DEF LiveAt
<1> HIDE DEF k
<1>6. \A i \in LiveAt(fifo) : fifo'.list[i] = fifo.list[i] /\ fifo.list[i].fiber \in Fibers
                               /\ fifo.list[i].fiber # f
  BY <1>1, <1>4, <1>5, EntryIs DEF SemInv, ListInv, EntriesWait
<1>7. SemTypeOK'
  <2>1. fut' \in [Fibers -> Futures] /\ asked' \in [Fibers -> Nat]
    BY <1>1, <1>2 DEF Futures
  <2> QED
    BY <1>1, <1>4, <2>1 DEF SemInv, SemTypeOK
<1>8. OneEntryEach'
  BY <1>3, <1>4, <1>6 DEF SemInv, ListInv, OneEntryEach
<1>9. EntriesWait'
  <2> SUFFICES ASSUME NEW g \in Fibers
               PROVE  fut'[g] = "waiting" <=> \E i \in LiveAt(fifo') : fifo'.list[i].fiber = g
    BY DEF EntriesWait
  <2>1. CASE g = f
    BY <1>1, <1>2, <1>3, <1>4, <2>1
  <2>2. CASE g # f
    <3>1. fut'[g] = fut[g]
      BY <1>1, <1>2, <2>2
    <3> QED
      BY <1>3, <1>4, <1>6, <2>2, <3>1 DEF SemInv, ListInv, EntriesWait
  <2> QED
    BY <2>1, <2>2
<1>10. EntriesAsk'
  <2> SUFFICES ASSUME NEW i \in LiveAt(fifo') PROVE asked'[fifo'.list[i].fiber] = fifo'.list[i].nr
    BY DEF EntriesAsk
  <2>1. CASE i = k
    BY <1>1, <1>2, <1>3, <1>4, <2>1
  <2>2. CASE i \in LiveAt(fifo)
    BY <1>1, <1>2, <1>6, <2>2 DEF SemInv, ListInv, EntriesAsk
  <2> QED
    BY <1>4, <2>1, <2>2
<1>11. BrokenKeepsNobody'
  BY <1>1 DEF BrokenKeepsNobody
<1>12. UnitsConserved'
  <2>1. Ready' = Ready
    BY <1>1, <1>2 DEF Ready
  <2>2. \A g \in Ready : asked'[g] = asked[g]
    BY <1>1, <1>2 DEF Ready
  <2>3. Total(asked', Ready) = Total(asked, Ready)
    BY <2>2, TotalAgrees
  <2> QED
    BY <1>1, <2>1, <2>3 DEF SemInv, UnitsConserved
<1> QED
  BY <1>4, <1>7, <1>8, <1>9, <1>10, <1>11, <1>12 DEF SemInv, ListInv

(* The timer callback takes the entry of the fiber it fails.               *)
LEMMA TimeOutKeeps ==
  ASSUME SemInv, NEW i \in 1..Len(fifo.list), TimeOut(i)
  PROVE  SemInv'
<1> DEFINE f == fifo.list[i].fiber
<1>1. /\ i \in LiveAt(fifo) /\ fut' = [fut EXCEPT ![f] = "failed"] /\ asked' = [asked EXCEPT ![f] = 0]
      /\ fifo' = Expire(fifo, i)
      /\ ex' = ex /\ count' = count /\ held' = held /\ supply' = supply
  BY DEF TimeOut, Expirable
<1>2. /\ asked \in [Fibers -> Nat] /\ fut \in [Fibers -> Futures] /\ fifo \in Fifos(Entries)
      /\ FifoInOrder(fifo) /\ f \in Fibers /\ fut[f] = "waiting"
  BY <1>1, EntryIs DEF SemInv, SemTypeOK, ListInv, EntriesWait
<1>3. fifo' \in Fifos(Entries) /\ \E m : Shrunk(fifo, fifo', m, {i})
  BY <1>1, <1>2, EntryExpires, ExpireIs
<1>4. ListInv'
  <2>0. PICK m : Shrunk(fifo, fifo', m, {i})
    BY <1>3
  <2>1. {fifo.list[j].fiber : j \in {i}} = {f}
    OBVIOUS
  <2> HIDE DEF f
  <2>2. \A g \in Fibers : fut'[g] = "waiting" <=> fut[g] = "waiting" /\ g \notin {fifo.list[j].fiber : j \in {i}}
    BY <1>1, <1>2, <2>1
  <2>3. \A g \in Fibers : fut'[g] = "waiting" => asked'[g] = asked[g]
    BY <1>1, <1>2
  <2> QED
    BY <1>3, <2>0, <2>2, <2>3, LeaveKeeps DEF SemInv
<1> HIDE DEF f
<1>5. SemTypeOK'
  <2>1. fut' \in [Fibers -> Futures] /\ asked' \in [Fibers -> Nat]
    BY <1>1, <1>2 DEF Futures
  <2> QED
    BY <1>1, <1>3, <2>1 DEF SemInv, SemTypeOK
<1>6. ~ex
  BY <1>1, EmptyFifoIs DEF SemInv, BrokenKeepsNobody
<1>7. UnitsConserved'
  <2>1. Ready' = Ready
    BY <1>1, <1>2 DEF Ready
  <2>2. \A g \in Ready : asked'[g] = asked[g]
    BY <1>1, <1>2 DEF Ready
  <2>3. Total(asked', Ready) = Total(asked, Ready)
    BY <2>2, TotalAgrees
  <2> QED
    BY <1>1, <2>1, <2>3 DEF SemInv, UnitsConserved
<1> QED
  BY <1>1, <1>4, <1>5, <1>6, <1>7 DEF SemInv, BrokenKeepsNobody

(* broken() empties the list and fails everybody in it.                    *)
LEMMA BrokenKeeps == ASSUME SemInv, Broken PROVE SemInv'
<1>1. /\ ex' = TRUE /\ count' = 0 /\ fifo' = EmptyFifo /\ held' = held /\ supply' = supply
      /\ fut' = [f \in Fibers |-> IF f \in Queued THEN "failed" ELSE fut[f]]
      /\ asked' = [f \in Fibers |-> IF f \in Queued THEN 0 ELSE asked[f]]
  BY DEF Broken
<1>2. asked \in [Fibers -> Nat] /\ fut \in [Fibers -> Futures]
  BY DEF SemInv, SemTypeOK
<1>3. fifo' \in Fifos(Entries) /\ FifoInOrder(fifo') /\ LiveAt(fifo') = {}
  BY <1>1, EmptyFifoIs
<1>4. \A f \in Fibers : fut'[f] # "waiting"
  BY <1>1, <1>2 DEF Queued, SemInv, ListInv, EntriesWait
<1>5. ListInv'
  BY <1>3, <1>4 DEF ListInv, OneEntryEach, EntriesWait, EntriesAsk
<1>6. SemTypeOK'
  <2>1. fut' \in [Fibers -> Futures] /\ asked' \in [Fibers -> Nat]
    BY <1>1, <1>2 DEF Futures
  <2> QED
    BY <1>1, <1>3, <2>1 DEF SemInv, SemTypeOK
<1> QED
  BY <1>1, <1>5, <1>6 DEF SemInv, BrokenKeepsNobody, UnitsConserved

(* So every step keeps the invariant,                                      *)
LEMMA SemSteps == ASSUME SemInv, [SemNext]_semVars PROVE SemInv'
<1>0. Requests \subseteq Nat
  BY SemaphoreAssumption
<1>1. CASE UNCHANGED semVars
  <2>1. Ready' = Ready
    BY <1>1 DEF Ready, semVars
  <2> QED
    BY <1>1, <2>1 DEF semVars, SemInv, SemTypeOK, ListInv, OneEntryEach, EntriesWait, EntriesAsk,
                      BrokenKeepsNobody, UnitsConserved
<1>2. ASSUME NEW f \in Fibers, NEW nr \in Requests, NEW timed \in BOOLEAN, Wait(f, nr, timed)
      PROVE  SemInv'
  <2>1. CASE MayProceed(nr)
    <3>1. Proceeds(f, nr)
      BY <1>2, <2>1 DEF Wait, Proceeds
    <3> QED
      BY <1>0, <3>1, ProceedsKeeps
  <2>2. CASE ~MayProceed(nr) /\ ex
    <3>1. /\ Callable(f) /\ fut' = [fut EXCEPT ![f] = "failed"]
          /\ UNCHANGED <<count, fifo, asked, ex, held, supply>>
      BY <1>2, <2>2 DEF Wait
    <3> QED
      BY <3>1, WaitFailsKeeps
  <2>3. CASE ~MayProceed(nr) /\ ~ex
    <3>1. Queues(f, nr, timed)
      BY <1>2, <2>3 DEF Wait, Queues
    <3> QED
      BY <1>0, <3>1, QueuesKeeps
  <2> QED
    BY <2>1, <2>2, <2>3
<1>3. ASSUME NEW f \in Fibers, NEW nr \in Requests, TryWait(f, nr)
      PROVE  SemInv'
  <2>1. Proceeds(f, nr)
    BY <1>3 DEF TryWait, Proceeds
  <2> QED
    BY <1>0, <2>1, ProceedsKeeps
<1>4. ASSUME NEW f \in Fibers, NEW nr \in Requests, Consume(f, nr)
      PROVE  SemInv'
  BY <1>0, <1>4, ConsumeKeeps
<1>5. ASSUME NEW nr \in Requests, Deposit(nr)
      PROVE  SemInv'
  BY <1>0, <1>5, DepositKeeps
<1> QED
  BY <1>1, <1>2, <1>3, <1>4, <1>5, GiveBackKeeps, TakeUnitsKeeps, DestroyUnitsKeeps,
     ReleaseUnitsKeeps, MoveUnitsKeeps, TimeOutKeeps, BrokenKeeps DEF SemNext

(* and it holds at the start.                                              *)
LEMMA SemStarts == ASSUME SemInit PROVE SemInv
<1>1. /\ count = InitCount /\ ex = FALSE /\ fifo = EmptyFifo /\ supply = InitCount
      /\ fut = [f \in Fibers |-> "none"] /\ asked = [f \in Fibers |-> 0] /\ held = [f \in Fibers |-> 0]
  BY DEF SemInit
<1>2. fifo \in Fifos(Entries) /\ FifoInOrder(fifo) /\ LiveAt(fifo) = {}
  BY <1>1, EmptyFifoIs
<1>3. SemTypeOK
  <2>1. fut \in [Fibers -> Futures] /\ asked \in [Fibers -> Nat] /\ held \in [Fibers -> Nat]
    BY <1>1 DEF Futures
  <2>2. count \in Int /\ supply \in Int
    BY <1>1, SemaphoreAssumption
  <2> QED
    BY <1>1, <1>2, <2>1, <2>2 DEF SemTypeOK
<1>4. ListInv
  BY <1>1, <1>2 DEF ListInv, OneEntryEach, EntriesWait, EntriesAsk
<1>5. Ready = {} /\ Total(asked, Ready) = 0
  BY <1>1, TotalEmpty DEF Ready
<1>6. Total(held, Fibers) = 0
  <2>1. UNION {{x} \X (1..held[x]) : x \in Fibers} = {}
    BY <1>1
  <2> QED
    BY <2>1, FS_EmptySet DEF Total
<1>7. UnitsConserved
  BY <1>1, <1>5, <1>6, SemaphoreAssumption DEF UnitsConserved
<1> QED
  BY <1>1, <1>3, <1>4, <1>7 DEF SemInv, BrokenKeepsNobody

(* The inductive invariant holds in every state.                           *)
LEMMA SemInvIsInvariant == SemSpec => []SemInv
<1>1. SemInit => SemInv
  BY SemStarts
<1>2. SemInv /\ [SemNext]_semVars => SemInv'
  BY SemSteps
<1> QED
  BY <1>1, <1>2, PTL DEF SemSpec

(* Type correctness.                                                       *)
THEOREM SemTypesCorrect == SemSpec => []SemTypeOK
<1>1. SemInv => SemTypeOK
  BY DEF SemInv
<1> QED
  BY <1>1, SemInvIsInvariant, PTL

(* Nobody waits on a broken semaphore and it has no units, whatever is     *)
(* signalled to it after broken().                                         *)
THEOREM BrokenStaysQuiet == SemSpec => []BrokenKeepsNobody
<1>1. SemInv => BrokenKeepsNobody
  BY DEF SemInv
<1> QED
  BY <1>1, SemInvIsInvariant, PTL

(* No unit is lost or made by any sequence of waits, timeouts, signals,    *)
(* moves and destructions, before broken().                                *)
THEOREM UnitsAreConserved == SemSpec => []UnitsConserved
<1>1. SemInv => UnitsConserved
  BY DEF SemInv
<1> QED
  BY <1>1, SemInvIsInvariant, PTL

(* The invariant says all that WaitersAreQueued says.                      *)
LEMMA OneEntryPerWaiter == ASSUME SemInv PROVE WaitersAreQueued
<1> DEFINE p == [i \in LiveAt(fifo) |-> fifo.list[i].fiber]
<1>1. FrontNeverExpired
  BY DEF SemInv, ListInv, FifoInOrder, LiveFront, FrontNeverExpired
<1>2. \A f \in Fibers : fut[f] = "waiting" <=> f \in Queued
  BY DEF SemInv, ListInv, EntriesWait, Queued
<1>3. p \in Bijection(LiveAt(fifo), Queued)
  <2>1. p \in [LiveAt(fifo) -> Queued]
    BY DEF Queued
  <2>2. \A i, j \in LiveAt(fifo) : p[i] = p[j] => i = j
    BY DEF SemInv, ListInv, OneEntryEach
  <2>3. \A f \in Queued : \E i \in LiveAt(fifo) : p[i] = f
    BY DEF Queued
  <2> HIDE DEF p
  <2> QED
    BY <2>1, <2>2, <2>3 DEF Bijection, Injection, Surjection, IsInjective
<1>4. IsFiniteSet(LiveAt(fifo))
  BY LiveAtIs DEF SemInv, SemTypeOK
<1> HIDE DEF p
<1>5. Cardinality(Queued) = Cardinality(LiveAt(fifo))
  BY <1>3, <1>4, FS_Bijection DEF ExistsBijection
<1> QED
  BY <1>1, <1>2, <1>5 DEF WaitersAreQueued

(* Every waiter has one live entry in _wait_list and every live entry is a *)
(* waiter's; front() never reads a payload that is gone, and empty()       *)
(* answers for the live entries.                                           *)
THEOREM WaitersStayQueued == SemSpec => []WaitersAreQueued
<1>1. SemInv => WaitersAreQueued
  BY OneEntryPerWaiter
<1> QED
  BY <1>1, SemInvIsInvariant, PTL

(* This step grants to nobody while somebody before him stays waiting.     *)
InOrder ==
  \A f \in Fibers :
     (fut'[f] = "ready" /\ fut[f] # "ready") =>
       \A i \in LiveAt(fifo) :
          (f \in Queued => \A j \in LiveAt(fifo) : fifo.list[j].fiber = f => i < j)
             => fut'[fifo.list[i].fiber] # "waiting"

(* signal() grants from the front, and stops at a waiter whose request     *)
(* does not fit.                                                           *)
LEMMA SignalInOrder ==
  ASSUME SemInv, NEW nr \in Nat, NEW f0, GivesUp(f0), Signal(nr, f0)
  PROVE  InOrder /\ ~FrontFits'
<1> DEFINE c == count + nr
           G == Granted(c, fifo)
           W == {fifo.list[i].fiber : i \in G}
<1>0. fifo \in Fifos(Entries) /\ FifoInOrder(fifo) /\ c \in Int /\ fut \in [Fibers -> Futures]
  BY DEF SemInv, SemTypeOK, ListInv
<1>1. CASE ex
  <2>1. fut' = f0 /\ count' = count /\ fifo' = fifo /\ fifo.size = 0
    BY <1>1 DEF Signal, SemInv, BrokenKeepsNobody, EmptyFifo
  <2> QED
    BY <2>1 DEF GivesUp, InOrder, FrontFits, IsEmpty
<1>2. CASE ~ex
  <2>1. /\ count' = GrantLoop(c, fifo).count
        /\ fifo' = GrantLoop(c, fifo).fifo
        /\ fut' = [f \in Fibers |-> IF f \in GrantLoop(c, fifo).woken THEN "ready" ELSE f0[f]]
    BY <1>2 DEF Signal
  <2> HIDE DEF c
  <2>2. /\ GrantLoop(c, fifo).fifo \in Fifos(Entries)
        /\ \E m : Shrunk(fifo, GrantLoop(c, fifo).fifo, m, G)
        /\ GrantLoop(c, fifo).count = c - Total(Sizes(fifo), G)
        /\ GrantLoop(c, fifo).woken = W
    BY <1>0, GrantLoopIs
  <2>3. PICK m : Shrunk(fifo, fifo', m, G)
    BY <2>1, <2>2
  <2>4. fut' = [f \in Fibers |-> IF f \in W THEN "ready" ELSE f0[f]]
    BY <2>1, <2>2
  <2>5. fifo' \in Fifos(Entries) /\ count' = c - Total(Sizes(fifo), G)
    BY <2>1, <2>2
  <2>6. /\ G \subseteq LiveAt(fifo) /\ IsFiniteSet(G) /\ Total(Sizes(fifo), G) \in Nat
        /\ \A i \in G, j \in LiveAt(fifo) : j <= i => j \in G
        /\ \A i \in LiveAt(fifo) :
              (i \in G <=> c >= 0 /\ c >= Total(Sizes(fifo), LiveAt(fifo) \intersect 1..i))
    BY <1>0, GrantedIs
  <2>7. LiveAt(fifo) \subseteq 1..Len(fifo.list) /\ Len(fifo.list) \in Nat
    BY <1>0, LiveAtIs DEF Fifos
  <2> HIDE DEF G
  <2>8. InOrder
    <3> SUFFICES ASSUME NEW f \in Fibers, fut'[f] = "ready", fut[f] # "ready",
                        NEW i \in LiveAt(fifo),
                        f \in Queued => \A j \in LiveAt(fifo) : fifo.list[j].fiber = f => i < j
                 PROVE  fut'[fifo.list[i].fiber] # "waiting"
      BY DEF InOrder
    <3>1. f \in W
      BY <2>4 DEF GivesUp
    <3>2. PICK j \in G : fifo.list[j].fiber = f
      BY <3>1
    <3>3. i < j
      BY <2>6, <3>2 DEF Queued
    <3>4. i \in G
      BY <2>6, <2>7, <3>3
    <3>5. fifo.list[i].fiber \in Fibers
      BY EntryIs DEF SemInv
    <3> QED
      BY <2>4, <3>4, <3>5
  <2>9. ~FrontFits'
    <3> SUFFICES ASSUME ~IsEmpty(fifo'), HasAvailableUnits(count', FifoFront(fifo').nr)
                 PROVE  FALSE
      BY DEF FrontFits
    <3>1. FifoInOrder(fifo')
      BY <1>0, <2>3, <2>5, ShrunkInOrder
    <3>2. 1 \in LiveAt(fifo') /\ FifoFront(fifo') = fifo'.list[1]
      BY <2>5, <3>1, EmptyMeansEmpty
    <3> DEFINE k == m + 1
               S == LiveAt(fifo) \intersect 1..k
    <3>3. k \in LiveAt(fifo) \ G /\ fifo'.list[1] = fifo.list[k]
      <4>1. 1 + m \in LiveAt(fifo) \ G /\ fifo'.list[1] = fifo.list[1 + m]
        BY <1>0, <2>3, <2>5, <3>2, LiveOfShrunk
      <4>2. 1 + m = k
        BY <1>0, <2>3 DEF Shrunk, Fifos
      <4> QED
        BY <4>1, <4>2
    <3>4. S = G \union {k}
      <4>1. m \in Nat /\ \A i \in LiveAt(fifo) : i <= m => i \in G
        BY <1>0, <2>3 DEF Shrunk, Fifos
      <4>2. \A i \in G : i \in Nat /\ i < k
        BY <2>6, <2>7, <3>3, <4>1
      <4>3. \A i \in S : i = k \/ i \in G
        BY <2>7, <4>1
      <4>4. \A i \in G : i \in S
        BY <2>6, <2>7, <4>1, <4>2
      <4> QED
        BY <3>3, <4>1, <4>3, <4>4
    <3> HIDE DEF k, S
    <3>5. Sizes(fifo)[k] = fifo.list[k].nr /\ \A i \in LiveAt(fifo) : Sizes(fifo)[i] \in Nat
      BY <1>0, <3>3, SizesAre
    <3>6. Total(Sizes(fifo), S) = Total(Sizes(fifo), G) + Sizes(fifo)[k]
      <4>1. k \notin G /\ \A i \in G \union {k} : Sizes(fifo)[i] \in Nat
        BY <2>6, <3>3, <3>5
      <4> QED
        BY <2>6, <3>4, <4>1, TotalWith
    <3>7. ~(c >= 0 /\ c >= Total(Sizes(fifo), S))
      BY <2>6, <3>3 DEF S
    <3>8. count' >= 0 /\ count' >= Sizes(fifo)[k] /\ Sizes(fifo)[k] \in Nat
      BY <3>2, <3>3, <3>5 DEF HasAvailableUnits
    <3> QED
      BY <1>0, <2>5, <2>6, <3>6, <3>7, <3>8
  <2> QED
    BY <2>8, <2>9
<1> QED
  BY <1>1, <1>2

(* A step that grants nothing grants in order.                             *)
LEMMA NobodyReady ==
  ASSUME \A f \in Fibers : fut'[f] = "ready" => fut[f] = "ready"
  PROVE  InOrder
BY DEF InOrder

(* The destructor of a units object does what signal() does, or nothing.   *)
LEMMA DropInOrder ==
  ASSUME SemInv, NEW n \in Nat, NEW f0, GivesUp(f0), DropUnits(n, f0)
  PROVE  InOrder /\ (FrontFits' => FrontFits)
<1>1. CASE n > 0
  BY <1>1, SignalInOrder DEF DropUnits
<1>2. CASE ~(n > 0)
  <2>1. fut' = f0 /\ count' = count /\ fifo' = fifo
    BY <1>2 DEF DropUnits
  <2>2. \A f \in Fibers : fut'[f] = "ready" => fut[f] = "ready"
    BY <2>1 DEF GivesUp
  <2>3. FrontFits' => FrontFits
    BY <2>1 DEF FrontFits
  <2> QED
    BY <2>2, <2>3, NobodyReady
<1> QED
  BY <1>1, <1>2

(* A request that must wait goes behind the others; when it is the first   *)
(* one it does not fit.                                                    *)
LEMMA QueuesInOrder ==
  ASSUME SemInv, NEW f \in Fibers, NEW nr \in Nat, NEW timed \in BOOLEAN, Queues(f, nr, timed)
  PROVE  InOrder /\ (FrontFits' => FrontFits)
<1> DEFINE e == [fiber |-> f, nr |-> nr, timed |-> timed, live |-> TRUE]
<1>1. /\ fut' = [fut EXCEPT ![f] = "waiting"] /\ fifo' = PushBack(fifo, e) /\ count' = count
      /\ ~MayProceed(nr)
  BY DEF Queues
<1>2. fut \in [Fibers -> Futures] /\ fifo \in Fifos(Entries) /\ FifoInOrder(fifo)
  BY DEF SemInv, SemTypeOK, ListInv
<1>3. InOrder
  <2>1. \A g \in Fibers : fut'[g] = "ready" => fut[g] = "ready"
    BY <1>1, <1>2
  <2> QED
    BY <2>1, NobodyReady
<1>4. e \in Entries /\ e.live = TRUE /\ e.nr = nr
  BY DEF Entries
<1> HIDE DEF e
<1>5. Pushed(Entries, fifo, e, fifo')
  BY <1>1, <1>2, <1>4, PushBackIs
<1>6. CASE IsEmpty(fifo)
  <2>1. Len(fifo.list) = 0
    BY <1>2, <1>6, EmptyMeansEmpty
  <2>2. FifoFront(fifo') = e
    BY <1>5, <2>1 DEF Pushed, FifoFront
  <2> QED
    BY <1>1, <1>3, <1>4, <1>6, <2>2 DEF FrontFits, MayProceed
<1>7. CASE ~IsEmpty(fifo)
  <2>1. 1 \in LiveAt(fifo)
    BY <1>2, <1>7, EmptyMeansEmpty
  <2>2. 1 \in 1..Len(fifo.list)
    BY <2>1 DEF LiveAt
  <2>3. FifoFront(fifo') = FifoFront(fifo)
    BY <1>5, <2>2 DEF Pushed, FifoFront
  <2> QED
    BY <1>1, <1>3, <1>7, <2>3 DEF FrontFits
<1> QED
  BY <1>6, <1>7

(* Both action properties, for every step.                                 *)
LEMMA StepsInOrder ==
  ASSUME SemInv, [SemNext]_semVars
  PROVE  /\ InOrder
         /\ (FrontFits' /\ ~FrontFits) => \E i \in Expirable(fifo) : TimeOut(i)
<1> DEFINE Good == InOrder /\ ((FrontFits' /\ ~FrontFits) => \E i \in Expirable(fifo) : TimeOut(i))
<1> SUFFICES Good
  OBVIOUS
<1>0. /\ Requests \subseteq Nat /\ fut \in [Fibers -> Futures] /\ fifo \in Fifos(Entries)
      /\ FifoInOrder(fifo) /\ count \in Int
      /\ \A f \in Fibers : held[f] \in Nat /\ asked[f] \in Nat
  BY SemaphoreAssumption DEF SemInv, SemTypeOK, ListInv
<1>a. ASSUME \A f \in Fibers : fut'[f] = "ready" => fut[f] = "ready", count' = count, fifo' = fifo
      PROVE  Good
  <2>1. FrontFits' => FrontFits
    BY <1>a DEF FrontFits
  <2> QED
    BY <1>a, <2>1, NobodyReady
<1>b. ASSUME NEW f \in Fibers, NEW nr \in Nat, Proceeds(f, nr)
      PROVE  Good
  <2>1. IsEmpty(fifo) /\ fifo' = fifo
    BY <1>b DEF Proceeds, MayProceed
  <2>2. LiveAt(fifo) = {}
    BY <1>0, <2>1, EmptyMeansEmpty
  <2> QED
    BY <2>1, <2>2 DEF InOrder, FrontFits
<1>c. ASSUME InOrder, FrontFits' => FrontFits
      PROVE  Good
  BY <1>c
<1> HIDE DEF Good
<1>1. CASE UNCHANGED semVars
  BY <1>1, <1>a DEF semVars
<1>2. ASSUME NEW f \in Fibers, NEW nr \in Requests, NEW timed \in BOOLEAN, Wait(f, nr, timed)
      PROVE  Good
  <2>1. CASE MayProceed(nr)
    <3>1. Proceeds(f, nr)
      BY <1>2, <2>1 DEF Wait, Proceeds
    <3> QED
      BY <1>0, <3>1, <1>b
  <2>2. CASE ~MayProceed(nr) /\ ex
    <3>1. fut' = [fut EXCEPT ![f] = "failed"] /\ count' = count /\ fifo' = fifo
      BY <1>2, <2>2 DEF Wait
    <3>2. \A g \in Fibers : fut'[g] = "ready" => fut[g] = "ready"
      BY <1>0, <3>1
    <3> QED
      BY <3>1, <3>2, <1>a
  <2>3. CASE ~MayProceed(nr) /\ ~ex
    <3>1. Queues(f, nr, timed)
      BY <1>2, <2>3 DEF Wait, Queues
    <3> QED
      BY <1>0, <3>1, <1>c, QueuesInOrder
  <2> QED
    BY <2>1, <2>2, <2>3
<1>3. ASSUME NEW f \in Fibers, NEW nr \in Requests, TryWait(f, nr)
      PROVE  Good
  <2>1. Proceeds(f, nr)
    BY <1>3 DEF TryWait, Proceeds
  <2> QED
    BY <1>0, <2>1, <1>b
<1>4. ASSUME NEW f \in Fibers, NEW nr \in Requests, Consume(f, nr)
      PROVE  Good
  <2>1. fut' = fut /\ fifo' = fifo /\ count' = IF ex THEN count ELSE count - nr
    BY <1>4 DEF Consume
  <2>2. InOrder
    BY <2>1, NobodyReady
  <2>3. ASSUME ~IsEmpty(fifo)
        PROVE  FifoFront(fifo).nr \in Nat
    BY <1>0, <2>3, EmptyMeansEmpty, EntryIs DEF SemInv
  <2>4. count' <= count /\ count' \in Int
    BY <1>0, <2>1
  <2>5. FrontFits' => FrontFits
    BY <1>0, <2>1, <2>3, <2>4 DEF FrontFits, HasAvailableUnits
  <2> QED
    BY <2>2, <2>5, <1>c
<1>5. ASSUME NEW nr \in Requests, Deposit(nr)
      PROVE  Good
  <2>1. Signal(nr, fut) /\ GivesUp(fut) /\ nr \in Nat
    BY <1>0, <1>5, NobodyGivesUp DEF Deposit
  <2> QED
    BY <2>1, <1>c, SignalInOrder
<1>6. ASSUME NEW f \in Fibers, GiveBack(f)
      PROVE  Good
  <2>1. fut[f] = "ready" /\ Signal(asked[f], [fut EXCEPT ![f] = "none"])
    BY <1>6 DEF GiveBack
  <2>2. GivesUp([fut EXCEPT ![f] = "none"])
    BY <2>1, OneGivesUp
  <2> QED
    BY <1>0, <2>1, <2>2, <1>c, SignalInOrder
<1>7. ASSUME NEW f \in Fibers, TakeUnits(f)
      PROVE  Good
  <2>1. fut[f] = "ready" /\ DropUnits(held[f], [fut EXCEPT ![f] = "none"])
    BY <1>7 DEF TakeUnits
  <2>2. GivesUp([fut EXCEPT ![f] = "none"])
    BY <2>1, OneGivesUp
  <2> QED
    BY <1>0, <2>1, <2>2, <1>c, DropInOrder
<1>8. ASSUME NEW f \in Fibers, DestroyUnits(f)
      PROVE  Good
  <2>1. DropUnits(held[f], fut) /\ GivesUp(fut)
    BY <1>8, NobodyGivesUp DEF DestroyUnits
  <2> QED
    BY <1>0, <2>1, <1>c, DropInOrder
<1>9. ASSUME NEW f \in Fibers, ReleaseUnits(f)
      PROVE  Good
  BY <1>9, <1>a DEF ReleaseUnits
<1>10. ASSUME NEW f \in Fibers, NEW g \in Fibers, MoveUnits(f, g)
      PROVE  Good
  <2>1. DropUnits(held[f], fut) /\ GivesUp(fut)
    BY <1>10, NobodyGivesUp DEF MoveUnits
  <2> QED
    BY <1>0, <2>1, <1>c, DropInOrder
<1>11. ASSUME NEW i \in 1..Len(fifo.list), TimeOut(i)
      PROVE  Good
  <2>1. \E j \in Expirable(fifo) : TimeOut(j)
    BY <1>11 DEF TimeOut
  <2>2. fut' = [fut EXCEPT ![fifo.list[i].fiber] = "failed"]
    BY <1>11 DEF TimeOut
  <2>3. \A f \in Fibers : fut'[f] = "ready" => fut[f] = "ready"
    BY <1>0, <2>2
  <2>4. InOrder
    BY <2>3, NobodyReady
  <2> QED
    BY <2>1, <2>4 DEF Good
<1>12. ASSUME Broken
      PROVE  Good
  <2>1. fifo' = EmptyFifo /\ fut' = [f \in Fibers |-> IF f \in Queued THEN "failed" ELSE fut[f]]
    BY <1>12 DEF Broken
  <2>2. \A f \in Fibers : fut'[f] = "ready" => fut[f] = "ready"
    BY <2>1
  <2>3. ~FrontFits'
    BY <2>1 DEF FrontFits, IsEmpty, EmptyFifo
  <2> QED
    BY <2>2, <2>3, <1>c, NobodyReady
<1> QED
  BY <1>1, <1>2, <1>3, <1>4, <1>5, <1>6, <1>7, <1>8, <1>9, <1>10, <1>11, <1>12 DEF SemNext

(* Requests are granted first come, first served: no call answers a waiter *)
(* past one that came before it.                                           *)
THEOREM GrantsStayInOrder == SemSpec => GrantsInOrder
<1>1. SemInv /\ [SemNext]_semVars =>
      [\A f \in Fibers :
        (fut'[f] = "ready" /\ fut[f] # "ready") =>
          LET ahead == {i \in LiveAt(fifo) : f \in Queued =>
                          \A j \in LiveAt(fifo) :
                             fifo.list[j].fiber = f => i < j}
          IN  \A i \in ahead : fut'[fifo.list[i].fiber] # "waiting"]_semVars
  BY StepsInOrder DEF InOrder
<1> QED
  BY <1>1, SemInvIsInvariant, PTL DEF SemSpec, GrantsInOrder

(* No call leaves a waiter at the front of the list whose request fits,    *)
(* but for the timeout of the waiter in front of it: signal()'s loop and   *)
(* wait()'s own check are enough.                                          *)
THEOREM OnlyAnExpiryStrands == SemSpec => OnlyExpiryStrands
<1>1. SemInv /\ [SemNext]_semVars =>
      [(FrontFits' /\ ~FrontFits) => \E i \in Expirable(fifo) : TimeOut(i)]_semVars
  BY StepsInOrder
<1> QED
  BY <1>1, SemInvIsInvariant, PTL DEF SemSpec, OnlyExpiryStrands
------------------------------------------------------------------------------
(* An rwlock never breaks its semaphore, uses no units object, and never   *)
(* takes more than there is.                                               *)
RWTypes ==
  /\ ~ex /\ count >= 0 /\ supply = max_ops /\ held = [f \in Fibers |-> 0]
  /\ \A f \in Fibers : fut[f] # "none" => asked[f] \in {1, max_ops}
  /\ \A f \in Fibers : fut[f] # "failed"

(* The inductive invariant of the rwlock: that of its semaphore; and the   *)
(* front of the list does not fit, for nothing times out.                  *)
RWInv == SemInv /\ RWTypes /\ ~FrontFits

(* All the units are in the counter or with the fibers inside.             *)
LEMMA UnitsInside ==
  ASSUME RWInv
  PROVE  /\ count + Total(asked, Ready) = max_ops /\ max_ops \in Nat /\ count \in Nat
         /\ Total(asked, Ready) \in Nat /\ IsFiniteSet(Ready)
         /\ \A f \in Ready : asked[f] \in {1, max_ops} /\ asked[f] \in Nat /\ f \in Fibers
<1>1. UNION {{f} \X (1..held[f]) : f \in Fibers} = {}
  BY DEF RWInv, RWTypes
<1>2. Total(held, Fibers) = 0
  BY <1>1, FS_EmptySet DEF Total
<1>3. Total(asked, Ready) \in Nat /\ IsFiniteSet(Ready)
  BY ReadyFinite DEF RWInv, SemInv
<1>4. count + Total(asked, Ready) + Total(held, Fibers) = supply /\ count \in Int /\ count >= 0
  BY DEF RWInv, RWTypes, SemInv, UnitsConserved, SemTypeOK
<1>5. \A f \in Ready : asked[f] \in {1, max_ops} /\ asked[f] \in Nat /\ f \in Fibers
  BY DEF RWInv, RWTypes, SemInv, SemTypeOK, Ready
<1>6. max_ops \in Nat /\ supply = max_ops
  BY SemaphoreAssumption DEF max_ops, RWInv, RWTypes
<1> QED
  BY <1>2, <1>3, <1>4, <1>5, <1>6

(* Nobody is inside with a writer.                                         *)
LEMMA WriterIsAlone ==
  ASSUME RWInv, NEW f \in Fibers, NEW g \in Fibers, fut[f] = "ready", asked[f] = max_ops, f # g
  PROVE  fut[g] # "ready"
<1> SUFFICES ASSUME fut[g] = "ready" PROVE FALSE
  OBVIOUS
<1>1. /\ count + Total(asked, Ready) = max_ops /\ max_ops \in Nat /\ count \in Nat
      /\ Total(asked, Ready) \in Nat /\ IsFiniteSet(Ready)
      /\ \A h \in Ready : asked[h] \in Nat
      /\ asked[g] >= 1
  BY UnitsInside, RWLockAssumption DEF Ready
<1>2. f \in Ready /\ g \in Ready \ {f}
  BY DEF Ready
<1>3. Total(asked, Ready \ {f}) = Total(asked, Ready) - asked[f]
  BY <1>1, <1>2, TotalWithout
<1>4. /\ Total(asked, (Ready \ {f}) \ {g}) = Total(asked, Ready \ {f}) - asked[g]
      /\ Total(asked, (Ready \ {f}) \ {g}) \in Nat
  BY <1>1, <1>2, FS_RemoveElement, TotalWithout
<1> QED
  BY <1>1, <1>2, <1>3, <1>4

(* What the abstract lock asks of those inside.                            *)
HoldCompatible == Lock!Compatible(Hold)

(* It holds, for the writer's units are all of them.                       *)
LEMMA InsideCompatible == RWInv => HoldCompatible
<1> SUFFICES ASSUME RWInv, NEW f \in Fibers, NEW g \in Fibers, Hold[f] = "exclusive", g # f
             PROVE  Hold[g] = "none"
  BY DEF HoldCompatible, Lock!Compatible
<1>1. fut[f] = "ready" /\ asked[f] = max_ops
  BY DEF Hold, AccessOf
<1> QED
  BY <1>1, WriterIsAlone DEF Hold

(* The counter does not go below zero when what is there is handed out.    *)
LEMMA SignalKeepsCount ==
  ASSUME SemInv, ~ex, count >= 0, NEW nr \in Nat, NEW f0, Signal(nr, f0)
  PROVE  count' >= 0
<1> DEFINE c == count + nr
           G == Granted(c, fifo)
<1>1. fifo \in Fifos(Entries) /\ FifoInOrder(fifo) /\ c \in Int /\ c >= 0
  BY DEF SemInv, SemTypeOK, ListInv
<1>2. count' = GrantLoop(c, fifo).count
  BY DEF Signal
<1> HIDE DEF c
<1>3. count' = c - Total(Sizes(fifo), G)
  BY <1>1, <1>2, GrantLoopIs
<1>4. /\ G \subseteq LiveAt(fifo)
      /\ \A i \in G, j \in LiveAt(fifo) : j <= i => j \in G
      /\ \A i \in LiveAt(fifo) : Total(Sizes(fifo), LiveAt(fifo) \intersect 1..i) \in Nat
      /\ \A i \in LiveAt(fifo) :
            (i \in G <=> c >= 0 /\ c >= Total(Sizes(fifo), LiveAt(fifo) \intersect 1..i))
  BY <1>1, GrantedIs
<1>5. LiveAt(fifo) \subseteq 1..Len(fifo.list) /\ Len(fifo.list) \in Nat
  BY <1>1, LiveAtIs DEF Fifos
<1> HIDE DEF G
<1>6. CASE G = {}
  BY <1>1, <1>3, <1>6, TotalEmpty
<1>7. CASE G # {}
  <2>1. G \in SUBSET (0..Len(fifo.list))
    BY <1>4, <1>5
  <2>2. PICK i \in G : \A j \in G : j <= i
    BY <2>1, <1>5, <1>7, Largest
  <2>3. LiveAt(fifo) \intersect 1..i = G
    <3>1. \A j \in G : j \in 1..i
      BY <1>4, <1>5, <2>2
    <3>2. \A j \in LiveAt(fifo) : j \in 1..i => j \in G
      BY <1>4, <1>5, <2>2
    <3> QED
      BY <1>4, <3>1, <3>2
  <2>4. i \in LiveAt(fifo) /\ c >= Total(Sizes(fifo), G) /\ Total(Sizes(fifo), G) \in Nat
    BY <1>4, <2>2, <2>3
  <2> QED
    BY <1>1, <1>3, <2>4
<1> QED
  BY <1>6, <1>7

(* Who is granted by signal() was waiting; nobody starts to wait.          *)
LEMMA SignalAnswersWaiters ==
  ASSUME SemInv, ~ex, NEW nr \in Nat, NEW f0, GivesUp(f0), Signal(nr, f0)
  PROVE  \E W \in SUBSET Fibers :
            /\ \A g \in W : fut[g] = "waiting"
            /\ fut' = [g \in Fibers |-> IF g \in W THEN "ready" ELSE f0[g]]
<1> DEFINE c == count + nr
           W == {fifo.list[i].fiber : i \in Granted(c, fifo)}
<1>1. fifo \in Fifos(Entries) /\ FifoInOrder(fifo) /\ c \in Int /\ SemTypeOK /\ ListInv
  BY DEF SemInv, SemTypeOK, ListInv
<1>2. fut' = [f \in Fibers |-> IF f \in GrantLoop(c, fifo).woken THEN "ready" ELSE f0[f]]
  BY DEF Signal
<1> HIDE DEF c
<1>3. GrantLoop(c, fifo).woken = W
  BY <1>1, GrantLoopIs
<1>4. W \subseteq Fibers /\ \A g \in W : fut[g] = "waiting"
  BY <1>1, WokenAsked
<1> HIDE DEF W
<1> QED
  BY <1>2, <1>3, <1>4

(* What the lock() and try_lock() calls do,                                *)
LEMMA LockAsks ==
  ASSUME RWInv, NEW f \in Fibers, NEW nr \in {1, max_ops}, Wait(f, nr, FALSE) \/ TryWait(f, nr), SemInv'
  PROVE  /\ RWTypes'
         /\ fut[f] = "none" /\ asked' = [asked EXCEPT ![f] = nr]
         /\ \/ fut' = [fut EXCEPT ![f] = "ready"]
            \/ fut' = [fut EXCEPT ![f] = "waiting"]
<1>1. /\ nr \in Nat /\ nr > 0 /\ ~ex /\ count \in Int /\ count >= 0
      /\ fut \in [Fibers -> Futures] /\ asked \in [Fibers -> Nat]
  BY UnitsInside, RWLockAssumption DEF RWInv, RWTypes, SemInv, SemTypeOK
<1>2. fut[f] = "none"
  <2>1. Callable(f) /\ fut[f] # "failed" /\ fut[f] \in Futures
    BY <1>1 DEF Wait, TryWait, RWInv, RWTypes
  <2> QED
    BY <2>1 DEF Callable, Futures
<1>3. /\ asked' = [asked EXCEPT ![f] = nr]
      /\ ex' = ex /\ held' = held /\ supply' = supply
      /\ \/ fut' = [fut EXCEPT ![f] = "ready"] /\ MayProceed(nr) /\ count' = count - nr
         \/ fut' = [fut EXCEPT ![f] = "waiting"] /\ count' = count
  BY <1>1 DEF Wait, TryWait
<1>4. count' >= 0
  BY <1>1, <1>3 DEF MayProceed, HasAvailableUnits
<1>5. /\ \A g \in Fibers : fut'[g] # "none" => asked'[g] \in {1, max_ops}
      /\ \A g \in Fibers : fut'[g] # "failed"
  BY <1>1, <1>3 DEF RWInv, RWTypes
<1> QED
  BY <1>2, <1>3, <1>4, <1>5 DEF RWInv, RWTypes

(* and what the unlock() calls do.                                         *)
LEMMA UnlockGrants ==
  ASSUME RWInv, NEW f \in Fibers, GiveBack(f)
  PROVE  /\ RWTypes' /\ fut[f] = "ready" /\ asked' = [asked EXCEPT ![f] = 0]
         /\ \E W \in SUBSET Fibers :
               /\ \A g \in W : fut[g] = "waiting"
               /\ fut' = [g \in Fibers |-> IF g \in W THEN "ready" ELSE IF g = f THEN "none" ELSE fut[g]]
<1> DEFINE f0 == [fut EXCEPT ![f] = "none"]
<1>1. /\ SemInv /\ ~ex /\ count >= 0 /\ fut \in [Fibers -> Futures] /\ asked \in [Fibers -> Nat]
      /\ asked[f] \in Nat
  BY DEF RWInv, RWTypes, SemInv, SemTypeOK
<1>2. /\ fut[f] = "ready" /\ Signal(asked[f], f0) /\ asked' = [asked EXCEPT ![f] = 0]
      /\ ex' = ex /\ held' = held /\ supply' = supply
  BY DEF GiveBack
<1>3. GivesUp(f0)
  BY <1>1, <1>2, OneGivesUp
<1>4. \A g \in Fibers : f0[g] = IF g = f THEN "none" ELSE fut[g]
  BY <1>1
<1> HIDE DEF f0
<1>5. count' >= 0
  BY <1>1, <1>2, SignalKeepsCount
<1>6. PICK W \in SUBSET Fibers :
            /\ \A g \in W : fut[g] = "waiting"
            /\ fut' = [g \in Fibers |-> IF g \in W THEN "ready" ELSE f0[g]]
  BY <1>1, <1>2, <1>3, SignalAnswersWaiters
<1>7. fut' = [g \in Fibers |-> IF g \in W THEN "ready" ELSE IF g = f THEN "none" ELSE fut[g]]
  BY <1>4, <1>6
<1>8. ASSUME NEW g \in Fibers
      PROVE  /\ fut'[g] # "none" => asked'[g] \in {1, max_ops}
             /\ fut'[g] # "failed"
  <2>1. g = f => fut'[g] = "none"
    BY <1>2, <1>6, <1>7
  <2> QED
    BY <1>1, <1>2, <1>6, <1>7, <2>1 DEF RWInv, RWTypes
<1> QED
  BY <1>2, <1>5, <1>6, <1>7, <1>8 DEF RWInv, RWTypes

(* The rwlock's calls are calls of its semaphore.                          *)
LEMMA RWNextIs ==
  ASSUME RWNext
  PROVE  /\ SemNext
         /\ \E f \in Fibers : \/ \E nr \in {1, max_ops} : Wait(f, nr, FALSE) \/ TryWait(f, nr)
                              \/ GiveBack(f)
<1>1. {1, max_ops} \subseteq Requests
  BY RWLockAssumption
<1>2. PICK f \in Fibers : \/ \E nr \in {1, max_ops} : Wait(f, nr, FALSE) \/ TryWait(f, nr)
                          \/ GiveBack(f)
  BY DEF RWNext, ReadLock, WriteLock, TryReadLock, TryWriteLock, ReadUnlock, WriteUnlock
<1>3. SemNext
  BY <1>1, <1>2 DEF SemNext
<1> QED
  BY <1>2, <1>3

(* The invariant holds at the start,                                       *)
LEMMA RWStarts == ASSUME SemInit PROVE RWInv
<1>1. SemInv
  BY SemStarts
<1>2. count = InitCount /\ ex = FALSE /\ fifo = EmptyFifo /\ supply = InitCount
  BY DEF SemInit
<1>3. fut = [f \in Fibers |-> "none"] /\ held = [f \in Fibers |-> 0]
  BY DEF SemInit
<1>4. RWTypes
  BY <1>2, <1>3, SemaphoreAssumption DEF RWTypes, max_ops
<1>5. ~FrontFits
  BY <1>2 DEF FrontFits, IsEmpty, EmptyFifo
<1> QED
  BY <1>1, <1>4, <1>5 DEF RWInv

(* and every call keeps it.                                                *)
LEMMA RWSteps == ASSUME RWInv, [RWNext]_semVars PROVE RWInv'
<1>1. CASE UNCHANGED semVars
  <2>1. SemInv'
    BY <1>1, SemSteps DEF RWInv
  <2>2. RWTypes' /\ ~FrontFits'
    BY <1>1 DEF RWInv, RWTypes, FrontFits, semVars
  <2> QED
    BY <2>1, <2>2 DEF RWInv
<1>2. CASE RWNext
  <2>1. SemNext
    BY <1>2, RWNextIs
  <2>2. SemInv'
    BY <2>1, SemSteps DEF RWInv
  <2>3. RWTypes'
    BY <1>2, <2>2, RWNextIs, LockAsks, UnlockGrants
  <2>4. ASSUME NEW i \in Expirable(fifo), TimeOut(i)
        PROVE  FALSE
    <3>1. fut' = [fut EXCEPT ![fifo.list[i].fiber] = "failed"] /\ i \in LiveAt(fifo)
      BY <2>4 DEF TimeOut, Expirable
    <3>2. fifo.list[i].fiber \in Fibers /\ fut \in [Fibers -> Futures]
      BY <3>1, EntryIs DEF RWInv, SemInv, SemTypeOK
    <3>3. fut'[fifo.list[i].fiber] = "failed"
      BY <3>1, <3>2
    <3> QED
      BY <2>3, <3>2, <3>3 DEF RWTypes
  <2>5. ~FrontFits'
    BY <2>1, <2>4, StepsInOrder DEF RWInv
  <2> QED
    BY <2>2, <2>3, <2>5 DEF RWInv
<1> QED
  BY <1>1, <1>2

(* So it holds in every state.                                             *)
LEMMA RWInvIsInvariant == RWSpec => []RWInv
<1>1. SemInit => RWInv
  BY RWStarts
<1>2. RWInv /\ [RWNext]_semVars => RWInv'
  BY RWSteps
<1> QED
  BY <1>1, <1>2, PTL DEF RWSpec

(* A reader that waits does so because of a writer: the readers inside     *)
(* could take all the units only if there were as many as units, and one   *)
(* of the fibers is waiting.                                               *)
LEMMA SomebodyInside == ASSUME RWInv PROVE RWFrontIsBlocked
<1> SUFFICES ASSUME fifo.list # <<>>
             PROVE  \E f \in Fibers : fut[f] = "ready"
                       /\ "exclusive" \in {AccessOf(f), AccessOf(FifoFront(fifo).fiber)}
  BY DEF RWFrontIsBlocked
<1> DEFINE g == FifoFront(fifo).fiber
           nr == FifoFront(fifo).nr
<1>1. fifo \in Fifos(Entries) /\ FifoInOrder(fifo)
  BY DEF RWInv, SemInv, SemTypeOK, ListInv
<1>2. 1 \in LiveAt(fifo) /\ FifoFront(fifo) = fifo.list[1] /\ ~IsEmpty(fifo)
  BY <1>1, EmptyMeansEmpty
<1>3. g \in Fibers /\ fut[g] = "waiting" /\ asked[g] = nr
  BY <1>2, EntryIs DEF RWInv, SemInv, ListInv, EntriesWait, EntriesAsk
<1>4. nr \in {1, max_ops}
  BY <1>3 DEF RWInv, RWTypes
<1>5. ~HasAvailableUnits(count, nr)
  BY <1>2 DEF RWInv, FrontFits
<1> HIDE DEF g, nr
<1>6. /\ count + Total(asked, Ready) = max_ops /\ max_ops \in Nat /\ count \in Nat
      /\ Total(asked, Ready) \in Nat /\ IsFiniteSet(Ready)
      /\ \A f \in Ready : asked[f] \in {1, max_ops} /\ f \in Fibers
  BY UnitsInside
<1>7. count < nr
  BY <1>4, <1>5, <1>6 DEF HasAvailableUnits
<1>8. CASE nr = max_ops
  <2>1. Ready # {}
    <3>1. Total(asked, Ready) # 0
      BY <1>6, <1>7, <1>8
    <3>2. Total(asked, {}) = 0
      BY TotalEmpty
    <3> QED
      BY <3>1, <3>2
  <2>2. PICK f \in Ready : TRUE
    BY <2>1
  <2>3. f \in Fibers /\ fut[f] = "ready"
    BY <2>2 DEF Ready
  <2>4. AccessOf(g) = "exclusive"
    BY <1>3, <1>8 DEF AccessOf
  <2> QED
    BY <2>3, <2>4 DEF g
<1>9. CASE nr = 1
  <2>1. Total(asked, Ready) = max_ops
    BY <1>6, <1>7, <1>9
  <2>2. ~(\A f \in Ready : asked[f] = 1)
    <3> SUFFICES ASSUME \A f \in Ready : asked[f] = 1 PROVE FALSE
      OBVIOUS
    <3>1. Cardinality(Ready) = max_ops
      BY <1>6, <2>1, TotalOfOnes
    <3>2. Ready \subseteq Fibers /\ g \in Fibers \ Ready
      BY <1>3 DEF Ready
    <3>3. IsFiniteSet(Fibers) /\ Cardinality(Fibers) <= max_ops
      BY SemaphoreAssumption, RWLockAssumption
    <3>4. Ready # Fibers
      BY <3>2
    <3>5. Cardinality(Ready) < Cardinality(Fibers)
      <4>1. Cardinality(Ready) <= Cardinality(Fibers) /\ Cardinality(Ready) # Cardinality(Fibers)
        BY <3>2, <3>3, <3>4, FS_Subset
      <4>2. Cardinality(Ready) \in Nat /\ Cardinality(Fibers) \in Nat
        BY <1>6, <3>3, FS_CardinalityType
      <4> QED
        BY <4>1, <4>2
    <3>6. Cardinality(Fibers) \in Nat
      BY <3>3, FS_CardinalityType
    <3> QED
      BY <1>6, <3>1, <3>3, <3>5, <3>6
  <2>3. PICK f \in Ready : asked[f] = max_ops
    BY <1>6, <2>2
  <2>4. f \in Fibers /\ fut[f] = "ready" /\ AccessOf(f) = "exclusive"
    BY <2>3 DEF Ready, AccessOf
  <2> QED
    BY <2>4
<1> QED
  BY <1>4, <1>8, <1>9

(* Nobody waits for an rwlock that is free, and no reader waits for        *)
(* readers only.                                                           *)
THEOREM WaitersAreBlocked == RWSpec => []RWFrontIsBlocked
<1>1. RWInv => RWFrontIsBlocked
  BY SomebodyInside
<1> QED
  BY <1>1, RWInvIsInvariant, PTL

(* Every call is a request, a grant or a release of the abstract lock, or  *)
(* changes nothing there.                                                  *)
LEMMA StepRefines ==
  ASSUME RWInv, RWInv', [RWNext]_semVars
  PROVE  [Lock!SharedLockNext]_<<Want, Hold>>
<1>1. CASE UNCHANGED semVars
  BY <1>1 DEF semVars, Want, Hold, AccessOf
<1>2. ASSUME NEW f \in Fibers, NEW nr \in {1, max_ops}, Wait(f, nr, FALSE) \/ TryWait(f, nr)
      PROVE  Lock!SharedLockNext
  <2> DEFINE mode == IF nr = max_ops THEN "exclusive" ELSE "shared"
  <2>1. /\ fut[f] = "none" /\ asked' = [asked EXCEPT ![f] = nr]
        /\ fut' = [fut EXCEPT ![f] = "ready"] \/ fut' = [fut EXCEPT ![f] = "waiting"]
    BY <1>2, LockAsks DEF RWInv
  <2>2. asked \in [Fibers -> Nat] /\ fut \in [Fibers -> Futures]
    BY DEF RWInv, SemInv, SemTypeOK
  <2>3. Want[f] = "none" /\ Hold[f] = "none" /\ AccessOf(f)' = mode /\ mode \in {"shared", "exclusive"}
    BY <2>1, <2>2 DEF Want, Hold, AccessOf
  <2>4. \A g \in Fibers : g # f => AccessOf(g)' = AccessOf(g) /\ fut'[g] = fut[g]
    BY <2>1, <2>2 DEF AccessOf
  <2> HIDE DEF mode
  <2>5. CASE fut' = [fut EXCEPT ![f] = "ready"]
    <3>1. Want' = Want
      BY <2>1, <2>2, <2>4, <2>5 DEF Want
    <3>2. Hold' = [Hold EXCEPT ![f] = mode]
      BY <2>1, <2>2, <2>3, <2>4, <2>5 DEF Hold
    <3>h. HoldCompatible'
      BY InsideCompatible, PTL
    <3>3. Lock!Compatible(Hold')
      BY <3>h DEF HoldCompatible
    <3> QED
      BY <2>3, <3>1, <3>2, <3>3 DEF Lock!SharedLockNext, Lock!Take
  <2>6. CASE fut' = [fut EXCEPT ![f] = "waiting"]
    <3>1. Hold' = Hold
      BY <2>1, <2>2, <2>4, <2>6 DEF Hold
    <3>2. Want' = [Want EXCEPT ![f] = mode]
      BY <2>1, <2>2, <2>3, <2>4, <2>6 DEF Want
    <3> QED
      BY <2>3, <3>1, <3>2 DEF Lock!SharedLockNext, Lock!Request
  <2> QED
    BY <2>1, <2>5, <2>6
<1>3. ASSUME NEW f \in Fibers, GiveBack(f)
      PROVE  Lock!SharedLockNext
  <2>1. fut[f] = "ready" /\ asked' = [asked EXCEPT ![f] = 0]
    BY <1>3, UnlockGrants
  <2>2. PICK W \in SUBSET Fibers :
               /\ \A g \in W : fut[g] = "waiting"
               /\ fut' = [g \in Fibers |-> IF g \in W THEN "ready" ELSE IF g = f THEN "none" ELSE fut[g]]
    BY <1>3, UnlockGrants
  <2>3. asked \in [Fibers -> Nat] /\ fut \in [Fibers -> Futures]
    BY DEF RWInv, SemInv, SemTypeOK
  <2>4. \A g \in Fibers : /\ g # f => AccessOf(g)' = AccessOf(g)
                          /\ AccessOf(g) \in {"shared", "exclusive"}
                          /\ fut'[g] = IF g \in W THEN "ready" ELSE IF g = f THEN "none" ELSE fut[g]
    BY <2>1, <2>2, <2>3 DEF AccessOf
  <2>5. f \notin W
    BY <2>1, <2>2
  <2>6. Hold[f] # "none" /\ \A g \in W : Want[g] # "none"
    BY <2>1, <2>2, <2>4 DEF Hold, Want
  <2>7. Hold' = [g \in Fibers |-> IF g \in W THEN Want[g] ELSE IF g = f THEN "none" ELSE Hold[g]]
    BY <2>1, <2>2, <2>4, <2>5 DEF Hold, Want
  <2>8. Want' = [g \in Fibers |-> IF g \in W THEN "none" ELSE Want[g]]
    BY <2>1, <2>2, <2>4, <2>5 DEF Want
  <2>h. HoldCompatible'
    BY InsideCompatible, PTL
  <2>9. Lock!Compatible(Hold')
    BY <2>h DEF HoldCompatible
  <2> QED
    BY <2>6, <2>7, <2>8, <2>9 DEF Lock!SharedLockNext, Lock!Release
<1> QED
  BY <1>1, <1>2, <1>3, RWNextIs

(* The rwlock implements the abstract readers-writer lock: callers of the  *)
(* semaphore that count to max_ops see only requests, compatible grants    *)
(* and releases by the holders.                                            *)
THEOREM RWLockRefinesSharedLock == RWSpec => RWImplementsSharedLock
<1>1. SemInit => Lock!SharedLockInit
  BY DEF SemInit, Lock!SharedLockInit, Want, Hold
<1>2. RWInv /\ RWInv' /\ [RWNext]_semVars => [Lock!SharedLockNext]_<<Want, Hold>>
  BY StepRefines
<1> QED
  BY <1>1, <1>2, RWInvIsInvariant, PTL DEF RWSpec, RWImplementsSharedLock, Lock!SharedLockSpec
==============================================================================
