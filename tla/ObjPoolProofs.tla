---------------------------- MODULE ObjPoolProofs ----------------------------
(***************************************************************************)
(* The safety properties of ObjPool, for any number of threads, any ring   *)
(* and any start of the counters, for fewer than Wrap calls in one run and *)
(* one thread that calls get().                                            *)
(*                                                                         *)
(* The counters wrap, so "<=" says nothing of them.  Every argument is     *)
(* about a counter's offset from Start, which only grows: a run of fewer   *)
(* than Wrap calls cannot bring an offset round.  The properties are not   *)
(* inductive.  That a put finds its slot free rests on the order of the    *)
(* four counters and on what each thread inside a call remembers of them;  *)
(* that an exchange which compares equal found a value still current, on   *)
(* the count of calls not yet past their exchange.  PoolInv has these, and *)
(* one lemma for each action shows that it keeps every part.               *)
(***************************************************************************)
EXTENDS ObjPool, Integers, FiniteSetTheorems, TLAPS

(* The values of a counter, and how far a value is from the first one.     *)
Counter == 0..(Wrap - 1)
Off(x) == Minus(x, Start)

(* Where a thread is in put_raw() and in get_raw().                        *)
Putting == {"put_head", "put_free", "put_cas", "put_slot", "put_tail"}
Getting == {"get_tail", "get_head", "get_cas", "get_slot", "get_done"}

PoolTypeOK ==
  /\ prod_head \in Counter /\ prod_tail \in Counter
  /\ cons_head \in Counter /\ cons_tail \in Counter
  /\ objs \in [0..MASK -> Objects \union {None}]
  /\ pc \in [Threads -> {"idle"} \union Putting \union Getting]
  /\ head \in [Threads -> Counter] /\ tail \in [Threads -> Counter]
  /\ ptr \in [Threads -> Objects \union {None}]
  /\ owns \in [Threads -> SUBSET Objects]
  /\ live \in SUBSET Objects
  /\ open \in BOOLEAN /\ calls \in 0..MaxCalls

(* What a reader took is behind what was published, what was published is  *)
(* behind what was reserved, and at most MASK positions are in use.        *)
Order ==
  /\ Off(cons_tail) <= Off(cons_head) /\ Off(cons_head) <= Off(prod_tail)
  /\ Off(prod_tail) <= Off(prod_head) /\ Off(prod_head) <= Off(cons_tail) + MASK

(* The calls whose exchange is still to come. Each may move a head by one, *)
(* so the heads' offsets stay below the calls made: they do not wrap.      *)
Pending == {t \in Threads : pc[t] \in {"put_head", "put_free", "put_cas",
                                       "get_tail", "get_head", "get_cas"}}

Bounded == Off(prod_head) + Off(cons_head) + Cardinality(Pending) <= Len(Pooled) + calls

(* What a put remembers: its old head is not ahead of _prod_head, an       *)
(* exchange that will succeed has room, and a reserved position is between *)
(* _prod_tail and _prod_head and its own alone.                            *)
Writers ==
  /\ \A t \in Threads : pc[t] \in {"put_free", "put_cas"} => Off(head[t]) <= Off(prod_head)
  /\ \A t \in Threads : pc[t] = "put_cas" /\ head[t] = prod_head
                           => Off(prod_head) < Off(cons_tail) + MASK
  /\ \A t \in Threads : pc[t] \in {"put_slot", "put_tail"} =>
        Off(prod_tail) <= Off(head[t]) /\ Off(head[t]) < Off(prod_head)
  /\ \A t, u \in Threads :
        /\ pc[t] \in {"put_slot", "put_tail"} /\ pc[u] \in {"put_slot", "put_tail"}
        /\ head[t] = head[u]
        => t = u

(* What the get in progress remembers: it alone is between _cons_tail and  *)
(* _cons_head, and the tail it read is behind _prod_tail.                  *)
Readers ==
  /\ \A t \in Threads : pc[t] \in Getting => t \in Getters
  /\ \A t \in Threads : pc[t] \in {"get_slot", "get_done"} =>
        head[t] = cons_tail /\ Off(cons_head) = Off(cons_tail) + 1
  /\ (\A t \in Threads : pc[t] \notin {"get_slot", "get_done"}) => cons_head = cons_tail
  /\ \A t \in Threads : pc[t] = "get_head" =>
        Off(cons_head) <= Off(tail[t]) /\ Off(tail[t]) <= Off(prod_tail)
  /\ \A t \in Threads : pc[t] = "get_cas" =>
        head[t] = cons_head /\ Off(cons_head) < Off(prod_tail)

(* The part of the invariant that is about counters only.                  *)
Positions == PoolTypeOK /\ Order /\ Bounded /\ Writers /\ Readers

(* A thread has an object in its hands at some of the steps and no other,  *)
(* and a destroyed pool has no user.                                       *)
InHands ==
  /\ \A t \in Threads : ptr[t] # None <=>
        pc[t] \in {"put_head", "put_free", "put_cas", "put_slot", "get_done"}
  /\ ~open => \A t \in Threads : pc[t] = "idle" /\ owns[t] = {}

(* A position that was written and not yet read has an object in its slot. *)
Contents == \A i \in Occupied : objs[Slot(i)] \in Objects

(* The hypothesis of the theorems: with two threads in get() an object is  *)
(* lost (the run MCObjPoolTwoGetters), so they are about one.              *)
OneGetter == \A t, u \in Getters : t = u

(* The inductive invariant.                                                *)
PoolInv == Positions /\ InHands /\ Contents /\ OneOwnerEach /\ NothingLost
-----------------------------------------------------------------------------
(* Arithmetic that the provers do not know: quotient and remainder exist;  *)
LEMMA Division ==
  ASSUME NEW x \in Nat, NEW m \in Nat \ {0}
  PROVE  \E q \in Nat, r \in 0..(m - 1) : x = q * m + r /\ r = x % m
<1> DEFINE q == x \div m
           r == x % m
<1>1. q \in Int /\ r \in 0..(m-1) /\ q >= 0
  OBVIOUS
<1>2. q = x \div m /\ r = x % m
  OBVIOUS
<1> HIDE DEF q, r
<1>3. x = q * m + r
  BY <1>1, <1>2
<1>4. q \in Nat
  BY <1>1
<1> QED BY <1>1, <1>2, <1>3, <1>4

(* the remainder is unique;                                                *)
LEMMA Remainder ==
  ASSUME NEW m \in Nat \ {0}, NEW q \in Int, NEW r \in 0..(m - 1)
  PROVE  (q * m + r) % m = r
  OBVIOUS

(* numbers less than m apart have different remainders;                    *)
LEMMA Far == ASSUME NEW m \in Nat \ {0}, NEW x \in Nat, NEW d \in 1..(m-1) PROVE (x + d) % m # x % m
<1>0. PICK q \in Nat, r \in 0..(m - 1) : x = q * m + r /\ r = x % m
  OBVIOUS
<1>1. CASE r + d < m
  <2> DEFINE s == r + d
  <2>1. s \in 0..(m - 1) /\ x + d = q * m + s /\ s # r
    <3>1. q * m \in Int
      OBVIOUS
    <3> QED
      BY <1>0, <1>1
  <2> HIDE DEF s
  <2>0. s \in 0..(m - 1) /\ q \in Int
    BY <2>1
  <2>2. (q * m + s) % m = s
    BY <2>0
  <2>3. (x + d) % m = s
    BY <2>1, <2>2
  <2> QED BY <1>0, <2>1, <2>3
<1>2. CASE r + d >= m
  <2>0. q * m \in Int /\ (q + 1) * m = q * m + m
    OBVIOUS
  <2>1. x + d = (q + 1) * m + (r + d - m) /\ r + d - m \in 0..(m-1) /\ q + 1 \in Int
    BY <1>2, <1>0
  <2>2. (x + d) % m = r + d - m
    BY <2>1, Remainder
  <2> QED BY <1>0, <2>2
<1> QED BY <1>1, <1>2

(* multiples of m do not matter.                                           *)
LEMMA Adds == ASSUME NEW m \in Nat \ {0}, NEW x \in Nat, NEW q \in Nat PROVE (x + q * m) % m = x % m
<1>0. PICK p \in Nat, r \in 0..(m - 1) : x = p * m + r /\ r = x % m
  BY Division
<1>1. (p + q) * m = p * m + q * m /\ p * m \in Int /\ q * m \in Int
    OBVIOUS
<1> DEFINE s == p + q
<1>2. x + q * m = s * m + r /\ s \in Int
    BY <1>1, <1>0
<1> HIDE DEF s
<1>3. (x + q * m) % m = r
    BY <1>2, <1>0, Remainder
<1> QED BY <1>3, <1>0
-----------------------------------------------------------------------------
(* The constants that every argument below needs, as plain facts.          *)
LEMMA Sizes ==
  /\ Slots \in Nat \ {0} /\ Wrap \in Nat \ {0} /\ Slots < Wrap /\ MASK \in Nat /\ MASK + 1 = Slots
  /\ Start \in Counter /\ MaxCalls \in Nat /\ MaxCalls + Slots <= Wrap
  /\ Len(Pooled) \in 0..MASK
  BY PoolAssumption DEF MASK, Counter

(* One subtraction takes the place of % where the sum is below 2m: Plus,   *)
(* Minus and Off without the remainder.                                    *)
LEMMA Once ==
  ASSUME NEW m \in Nat \ {0}, NEW x \in 0..(2 * m - 1)
  PROVE  x % m = IF x < m THEN x ELSE x - m
<1>1. CASE x < m
  <2>1. x = 0 * m + x /\ x \in 0..(m - 1)
    BY <1>1
  <2> QED
    BY <2>1, <1>1
<1>2. CASE x >= m
  <2>1. x = 1 * m + (x - m) /\ (x - m) \in 0..(m - 1)
    BY <1>2
  <2> QED
    BY <2>1, <1>2
<1> QED
  BY <1>1

(* A sum of two counters comes round at most once.                         *)
LEMMA PlusIs ==
  ASSUME NEW a \in Counter, NEW b \in Counter
  PROVE  Plus(a, b) = (IF a + b < Wrap THEN a + b ELSE a + b - Wrap) /\ Plus(a, b) \in Counter
<1> DEFINE x == a + b
<1>1. x \in 0..(2 * Wrap - 1)
  BY Sizes DEF Counter
<1>2. Plus(a, b) = x % Wrap
  BY DEF Plus
<1> HIDE DEF x
<1>3. x % Wrap = IF x < Wrap THEN x ELSE x - Wrap
  BY <1>1, Once, Sizes
<1> QED
  BY <1>1, <1>2, <1>3, Sizes DEF Counter, x

(* So does a difference.                                                   *)
LEMMA MinusIs ==
  ASSUME NEW a \in Counter, NEW b \in Counter
  PROVE  Minus(a, b) = (IF a < b THEN a + Wrap - b ELSE a - b) /\ Minus(a, b) \in Counter
<1> DEFINE x == a + Wrap - b
<1>1. x \in 0..(2 * Wrap - 1)
  BY Sizes DEF Counter
<1>2. Minus(a, b) = x % Wrap
  BY DEF Minus
<1> HIDE DEF x
<1>3. x % Wrap = IF x < Wrap THEN x ELSE x - Wrap
  BY <1>1, Once, Sizes
<1> QED
  BY <1>1, <1>2, <1>3, Sizes DEF Counter, x

(* The offset of a counter from Start.                                     *)
LEMMA OffIs ==
  ASSUME NEW x \in Counter
  PROVE  Off(x) = (IF x < Start THEN x + Wrap - Start ELSE x - Start) /\ Off(x) \in Counter
  BY MinusIs, Sizes DEF Off

(* An offset tells which value of the counter it is of.                    *)
LEMMA OffInjective ==
  ASSUME NEW x \in Counter, NEW y \in Counter
  PROVE  Off(x) = Off(y) => x = y
<1> DEFINE a == Off(x)
           b == Off(y)
<1>1. /\ a = IF x < Start THEN x + Wrap - Start ELSE x - Start
      /\ b = IF y < Start THEN y + Wrap - Start ELSE y - Start
  BY OffIs
<1> HIDE DEF a, b
<1>2. a = b => x = y
  BY <1>1, Sizes DEF Counter
<1> QED
  BY <1>2 DEF a, b

(* A difference of counters is the difference of their offsets.            *)
LEMMA OffOfMinus ==
  ASSUME NEW x \in Counter, NEW y \in Counter
  PROVE  Minus(x, y) = IF Off(x) < Off(y) THEN Off(x) - Off(y) + Wrap ELSE Off(x) - Off(y)
<1>1. /\ Off(x) = IF x < Start THEN x + Wrap - Start ELSE x - Start
      /\ Off(y) = IF y < Start THEN y + Wrap - Start ELSE y - Start
      /\ Minus(x, y) = IF x < y THEN x + Wrap - y ELSE x - y
  BY OffIs, MinusIs
<1> QED
  BY <1>1, Sizes DEF Counter

(* The next position is one further from Start.                            *)
LEMMA NextPosition ==
  ASSUME NEW x \in Counter, Off(x) + 1 < Wrap
  PROVE  Plus(x, 1) \in Counter /\ Off(Plus(x, 1)) = Off(x) + 1
<1>1. 1 \in Counter
  BY Sizes DEF Counter
<1>2. /\ Plus(x, 1) = (IF x + 1 < Wrap THEN x + 1 ELSE x + 1 - Wrap)
      /\ Plus(x, 1) \in Counter
  BY <1>1, PlusIs
<1>3. /\ Off(x) = IF x < Start THEN x + Wrap - Start ELSE x - Start
      /\ Off(Plus(x, 1)) = IF Plus(x, 1) < Start THEN Plus(x, 1) + Wrap - Start ELSE Plus(x, 1) - Start
  BY <1>2, OffIs
<1> QED
  BY <1>2, <1>3, Sizes DEF Counter

(* free_entries of put_raw(), where no more than MASK positions are in     *)
(* use.                                                                    *)
LEMMA FreeIs ==
  ASSUME NEW c \in Counter, NEW x \in Counter, Off(c) <= Off(x), Off(x) <= Off(c) + MASK
  PROVE  Minus(Plus(MASK, c), x) = MASK - (Off(x) - Off(c))
<1>1. MASK \in Counter
  BY Sizes DEF Counter
<1>2. /\ Plus(MASK, c) = (IF MASK + c < Wrap THEN MASK + c ELSE MASK + c - Wrap)
      /\ Plus(MASK, c) \in Counter
  BY <1>1, PlusIs
<1>3. Minus(Plus(MASK, c), x) = IF Plus(MASK, c) < x THEN Plus(MASK, c) + Wrap - x ELSE Plus(MASK, c) - x
  BY <1>2, MinusIs
<1>4. /\ Off(x) = IF x < Start THEN x + Wrap - Start ELSE x - Start
      /\ Off(c) = IF c < Start THEN c + Wrap - Start ELSE c - Start
  BY OffIs
<1> QED
  BY <1>1, <1>2, <1>3, <1>4, Sizes DEF Counter

(* The slots are those of the array.                                       *)
LEMMA SlotIs == \A x \in Nat : Slot(x) \in 0..MASK
  BY Division, Sizes DEF Slot

(* Slots follow one another across the wrap, as Slots divides Wrap.        *)
LEMMA SlotAcross ==
  ASSUME NEW x \in Counter, NEW y \in Counter, NEW d \in Nat, y = x + d \/ y + Wrap = x + d
  PROVE  Slot(y) = (x + d) % Slots
<1>1. x \in Nat /\ y \in Nat
  BY DEF Counter
<1>2. (y + Wrap) % Slots = y % Slots
  <2>1. PICK q \in Nat, r \in 0..(Slots - 1) : Wrap = q * Slots + r /\ r = Wrap % Slots
    BY Division, Sizes
  <2>2. Wrap = q * Slots
    BY <2>1, PoolAssumption
  <2>3. (y + q * Slots) % Slots = y % Slots
    BY <1>1, Adds, Sizes
  <2> QED
    BY <2>2, <2>3
<1> QED
  BY <1>1, <1>2 DEF Slot

(* Two positions less than a ring's length apart have different slots.     *)
LEMMA SlotsApart ==
  ASSUME NEW x \in Counter, NEW y \in Counter, Off(x) < Off(y), Off(y) <= Off(x) + MASK
  PROVE  Slot(x) # Slot(y)
<1> DEFINE d == Off(y) - Off(x)
<1>1. d \in 1..(Slots - 1) /\ (y = x + d \/ y + Wrap = x + d) /\ x \in Nat /\ y \in Nat
  <2>1. /\ Off(x) = IF x < Start THEN x + Wrap - Start ELSE x - Start
        /\ Off(y) = IF y < Start THEN y + Wrap - Start ELSE y - Start
    BY OffIs
  <2> QED
    BY <2>1, Sizes DEF Counter
<1> HIDE DEF d
<1>2. (x + d) % Slots # x % Slots
  BY <1>1, Far, Sizes
<1>3. Slot(y) = (x + d) % Slots
  BY <1>1, SlotAcross
<1> QED
  BY <1>2, <1>3 DEF Slot

(* In the first lap a slot tells its position's offset: PoolInit is        *)
(* written with it.                                                        *)
LEMMA SlotDistance ==
  ASSUME NEW i \in Counter, Off(i) < Slots
  PROVE  (Slot(i) + Slots - Slot(Start)) % Slots = Off(i) /\ Slot(i) \in 0..MASK
<1> DEFINE a == Off(i)
           s == Slot(Start)
<1>1. a \in 0..(Slots - 1) /\ (i = Start + a \/ i + Wrap = Start + a) /\ Start \in Nat /\ i \in Nat
  <2>1. a = (IF i < Start THEN i + Wrap - Start ELSE i - Start) /\ a \in Counter /\ a < Slots
    BY OffIs
  <2> HIDE DEF a
  <2> QED
    BY <2>1, Sizes DEF Counter
<1>2. s \in 0..(Slots - 1) /\ Slot(i) \in 0..(Slots - 1)
  <2>1. \A x \in Nat : Slot(x) \in 0..MASK
    BY SlotIs
  <2>2. s \in 0..MASK /\ Slot(i) \in 0..MASK
    BY <1>1, <2>1
  <2> HIDE DEF s
  <2> QED
    BY <2>2, Sizes
<1> HIDE DEF a, s
<1>3. Slot(i) = (s + a) % Slots
  <2>1. PICK q \in Nat, r \in 0..(Slots - 1) : Start = q * Slots + r /\ r = Start % Slots
    BY <1>1, Division, Sizes
  <2>2. r = s
    BY <2>1 DEF Slot, s
  <2> DEFINE m == q * Slots
             x == s + a
  <2>3. m \in Nat
    BY <2>1, Sizes
  <2>4. Start = m + r
    BY <2>1
  <2>5. x \in Nat
    BY <1>1, <1>2
  <2>6. (x + m) % Slots = x % Slots
    BY <2>5, Adds, Sizes
  <2>7. Slot(i) = (Start + a) % Slots
    <3>1. a \in Nat /\ Start \in Counter
      BY <1>1, Sizes
    <3> QED
      BY <1>1, <3>1, SlotAcross
  <2>8. Start + a = x + m
    <3> HIDE DEF m
    <3> QED
      BY <1>1, <1>2, <2>2, <2>3, <2>4
  <2> QED
    BY <2>6, <2>7, <2>8
<1> DEFINE x == s + a
           y == Slot(i) + Slots - s
<1>4. Slot(i) = (IF x < Slots THEN x ELSE x - Slots) /\ x = s + a
  <2>1. x \in 0..(2 * Slots - 1)
    BY <1>1, <1>2, Sizes
  <2>2. Slot(i) = x % Slots
    BY <1>3
  <2> HIDE DEF x
  <2>3. x % Slots = IF x < Slots THEN x ELSE x - Slots
    BY <2>1, Once, Sizes
  <2> QED
    BY <2>2, <2>3 DEF x
<1>5. y = (IF s + a < Slots THEN a + Slots ELSE a)
  BY <1>1, <1>2, <1>4, Sizes
<1>6. y \in 0..(2 * Slots - 1) /\ (y = a + Slots \/ y = a)
  BY <1>1, <1>5, Sizes
<1> HIDE DEF y
<1>7. y % Slots = IF y < Slots THEN y ELSE y - Slots
  BY <1>6, Once, Sizes
<1>8. y % Slots = a
  BY <1>1, <1>6, <1>7, Sizes
<1> QED
  <2>1. Slot(i) \in 0..MASK
    BY <1>2, Sizes
  <2>2. (Slot(i) + Slots - s) % Slots = a
    BY <1>8 DEF y
  <2> QED
    BY <2>1, <2>2 DEF a, s

(* The facts about offsets that the step lemmas use.                       *)
LEMMA OffFacts ==
  /\ \A x \in Counter : Off(x) \in Nat /\ Off(x) < Wrap
  /\ \A x, y \in Counter : Off(x) = Off(y) => x = y
  /\ Wrap \in Nat
  /\ MASK \in Nat /\ Start \in Counter /\ None \notin Objects
<1>1. \A x \in Counter : Off(x) \in Nat /\ Off(x) < Wrap
  BY OffIs, Sizes DEF Counter
<1> QED
  BY <1>1, OffInjective, Sizes, PoolAssumption

(* One call more or less among those that wait for their exchange.         *)
LEMMA PendingFinite ==
  /\ IsFiniteSet(Pending)
  /\ Cardinality(Pending) \in Nat
  /\ \A t \in Threads : t \notin Pending => Cardinality(Pending \union {t}) = Cardinality(Pending) + 1
  /\ \A t \in Threads : t \in Pending => Cardinality(Pending \ {t}) = Cardinality(Pending) - 1
  /\ \A t \in Threads : t \in Pending => Cardinality(Pending) >= 1
<1>1. IsFiniteSet(Pending)
  BY FS_Subset, PoolAssumption DEF Pending
<1>2. Cardinality(Pending) \in Nat
  BY <1>1, FS_CardinalityType
<1>3. \A t \in Threads : t \in Pending => IsFiniteSet(Pending \ {t})
                                     /\ Cardinality(Pending \ {t}) = Cardinality(Pending) - 1
  BY <1>1, FS_RemoveElement
<1>4. \A t \in Threads : t \in Pending => Cardinality(Pending \ {t}) \in Nat
  BY <1>3, FS_CardinalityType
<1>5. ASSUME NEW t \in Threads, t \in Pending PROVE Cardinality(Pending) >= 1
  <2> DEFINE n == Cardinality(Pending \ {t})
  <2>1. n \in Nat /\ n = Cardinality(Pending) - 1
    BY <1>3, <1>4, <1>5
  <2> HIDE DEF n
  <2> QED
    BY <1>2, <2>1
<1>6. \A t \in Threads : t \notin Pending => Cardinality(Pending \union {t}) = Cardinality(Pending) + 1
  BY <1>1, FS_AddElement
<1> QED
  BY <1>1, <1>2, <1>3, <1>5, <1>6

(* Occupied, in offsets.                                                   *)
OccupiedByOffset ==
  \A i \in Counter :
    i \in Occupied <=> \/ Off(cons_head) <= Off(i) /\ Off(i) < Off(prod_tail)
                       \/ \E t \in Threads : pc[t] \in {"put_tail", "get_slot"} /\ i = head[t]

(* Written and not yet read, said with offsets.                            *)
LEMMA OccupiedIs == Positions => OccupiedByOffset
<1> SUFFICES ASSUME Positions, NEW i \in Counter
             PROVE  Minus(i, cons_head) < Minus(prod_tail, cons_head)
                       <=> Off(cons_head) <= Off(i) /\ Off(i) < Off(prod_tail)
  BY DEF OccupiedByOffset, Occupied, Counter
<1>1. /\ cons_head \in Counter /\ prod_tail \in Counter /\ Off(cons_head) <= Off(prod_tail)
      /\ Off(cons_head) \in Nat /\ Off(prod_tail) \in 0..(Wrap - 1) /\ Off(i) \in Nat
  BY OffIs, OffFacts DEF Positions, PoolTypeOK, Order
<1>2. Minus(i, cons_head) = IF Off(i) < Off(cons_head) THEN Off(i) - Off(cons_head) + Wrap
                                                      ELSE Off(i) - Off(cons_head)
  BY <1>1, OffOfMinus
<1>3. Minus(prod_tail, cons_head) = Off(prod_tail) - Off(cons_head)
  BY <1>1, OffOfMinus
<1> QED
  BY <1>1, <1>2, <1>3, Sizes

(* An occupied position lies between _cons_tail and _prod_head;            *)
LEMMA OccupiedWindow ==
  Positions => \A i \in Occupied :
    i \in Counter /\ Off(cons_tail) <= Off(i) /\ Off(i) < Off(prod_head)
<1> SUFFICES ASSUME Positions, NEW i \in Occupied
             PROVE  i \in Counter /\ Off(cons_tail) <= Off(i) /\ Off(i) < Off(prod_head)
  OBVIOUS
<1>1. i \in Counter
  BY DEF Occupied, Counter
<1>2. /\ Off(cons_head) \in Nat /\ Off(prod_tail) \in Nat /\ Off(i) \in Nat
      /\ Off(cons_tail) \in Nat /\ Off(prod_head) \in Nat
  BY <1>1, OffFacts DEF Positions, PoolTypeOK
<1>3. CASE Off(cons_head) <= Off(i) /\ Off(i) < Off(prod_tail)
  BY <1>1, <1>2, <1>3 DEF Positions, Order
<1>4. CASE \E t \in Threads : pc[t] \in {"put_tail", "get_slot"} /\ i = head[t]
  BY <1>1, <1>2, <1>4 DEF Positions, Order, Writers, Readers
<1> QED
  BY <1>1, <1>3, <1>4, OccupiedIs DEF OccupiedByOffset

(* and so has a slot of its own.                                           *)
LEMMA SlotsOfOccupied ==
  Positions => \A i, j \in Counter :
    /\ Off(cons_tail) <= Off(i) /\ Off(i) < Off(prod_head)
    /\ Off(cons_tail) <= Off(j) /\ Off(j) < Off(prod_head)
    /\ i # j
    => Slot(i) # Slot(j)
<1> SUFFICES ASSUME Positions, NEW i \in Counter, NEW j \in Counter,
                    Off(cons_tail) <= Off(i), Off(i) < Off(prod_head),
                    Off(cons_tail) <= Off(j), Off(j) < Off(prod_head), i # j
             PROVE  Slot(i) # Slot(j)
  OBVIOUS
<1>1. /\ Off(i) \in Nat /\ Off(j) \in Nat /\ Off(cons_tail) \in Nat /\ Off(prod_head) \in Nat
      /\ MASK \in Nat /\ Off(i) # Off(j) /\ Off(prod_head) <= Off(cons_tail) + MASK
  BY OffFacts DEF Positions, PoolTypeOK, Order
<1>2. CASE Off(i) < Off(j)
  BY <1>1, <1>2, SlotsApart
<1>3. CASE Off(j) < Off(i)
  BY <1>1, <1>3, SlotsApart
<1> QED
  BY <1>1, <1>2, <1>3

(* One lemma for each action, and one for each branch of a load that       *)
(* decides. In each <1>n has the facts about offsets and <1>1 on the parts *)
(* of PoolInv in turn. A put takes an object out of its caller's hands;    *)
LEMMA PutKeeps ==
  ASSUME OneGetter, PoolInv, NEW t \in Threads, Put(t)
  PROVE  PoolInv'
<1> USE DEF PoolInv, Positions, Put, Goto, Leave, counters, locals
<1>n. /\ \A x \in Counter : Off(x) \in Nat /\ Off(x) < Wrap /\ Wrap \in Nat
      /\ \A x, y \in Counter : Off(x) = Off(y) => x = y
      /\ MASK \in Nat /\ Start \in Counter /\ None \notin Objects
  BY OffFacts
<1>f. PICK o \in owns[t] : ptr' = [ptr EXCEPT ![t] = o] /\ owns' = [owns EXCEPT ![t] = @ \ {o}]
  OBVIOUS
<1>1. PoolTypeOK'
  <2>1. o \in Objects
    BY <1>f DEF PoolTypeOK
  <2>2. calls' \in 0..MaxCalls
    BY Sizes DEF PoolTypeOK
  <2> QED
    BY <1>f, <2>1, <2>2 DEF PoolTypeOK, Putting
<1>2. Order'
  BY <1>n, <1>f DEF Order
<1>3. Bounded'
  <2>1. Pending' = Pending \union {t} /\ t \notin Pending
    BY DEF Pending, PoolTypeOK
  <2>2. Cardinality(Pending)' = Cardinality(Pending) + 1 /\ Cardinality(Pending) \in Nat
    BY <2>1, PendingFinite
  <2> QED
    BY <1>n, <2>2, Sizes, Sizes DEF Bounded, PoolTypeOK
<1>4. Writers'
  BY <1>n, <1>f DEF Writers, Order
<1>5. Readers'
  BY <1>n, <1>f DEF Readers, Order, OneGetter, PoolTypeOK, Getting
<1>6. InHands'
  BY <1>n, <1>f DEF InHands, PoolTypeOK
<1>7. Occupied' = Occupied /\ Stored' = Stored
  <2>1. /\ \A u \in Threads : pc'[u] \in {"put_tail", "get_slot"} <=> pc[u] \in {"put_tail", "get_slot"}
        /\ \A u \in Threads : pc[u] \in {"put_tail", "get_slot"} => head'[u] = head[u]
        /\ UNCHANGED <<cons_head, prod_tail, objs, open>>
    OBVIOUS
  <2>2. Occupied' = Occupied
    BY <2>1 DEF Occupied
  <2> QED
    BY <2>1, <2>2 DEF Stored
<1>8. Contents'
  BY <1>7 DEF Contents
<1>9. \A u \in Threads : Hands(u)' = Hands(u)
  <2>1. ptr[t] = None /\ o # None
    BY <1>n DEF InHands, PoolTypeOK
  <2>2. ASSUME NEW u \in Threads PROVE Hands(u)' = Hands(u)
    <3>1. CASE u = t
      BY <1>f, <2>1, <3>1 DEF Hands, PoolTypeOK
    <3>2. CASE u # t
      BY <1>f, <3>2 DEF Hands
    <3> QED
      BY <3>1, <3>2
  <2> QED
    BY <2>2
<1>10. OneOwnerEach'
  <2>1. \A u \in Threads : ptr'[u] \notin owns'[u]
    BY <1>n, <1>f DEF OneOwnerEach, InHands, PoolTypeOK
  <2> QED
    BY <1>7, <1>9, <2>1 DEF OneOwnerEach
<1>11. NothingLost'
  BY <1>7, <1>9 DEF NothingLost
<1> QED
  BY <1>1, <1>2, <1>3, <1>4, <1>5, <1>6, <1>8, <1>10, <1>11

(* the head it remembers is current when it is read;                       *)
LEMMA LoadProdHeadKeeps ==
  ASSUME OneGetter, PoolInv, NEW t \in Threads, LoadProdHead(t)
  PROVE  PoolInv'
<1> USE DEF PoolInv, Positions, LoadProdHead, Goto, Leave, counters, locals
<1>n. /\ \A x \in Counter : Off(x) \in Nat /\ Off(x) < Wrap /\ Wrap \in Nat
      /\ \A x, y \in Counter : Off(x) = Off(y) => x = y
      /\ MASK \in Nat /\ Start \in Counter /\ None \notin Objects
  BY OffFacts
<1>1. PoolTypeOK'
  BY <1>n DEF PoolTypeOK, Putting
<1>2. Order'
  BY <1>n DEF Order
<1>3. Bounded'
  <2>1. Pending' = Pending
    BY DEF Pending
  <2>2. Cardinality(Pending)' = Cardinality(Pending) /\ Cardinality(Pending) \in Nat
    BY <2>1, PendingFinite
  <2> QED
    BY <1>n, <2>2, Sizes DEF Bounded
<1>4. Writers'
  BY <1>n DEF Writers, Order, PoolTypeOK
<1>5. Readers'
  BY <1>n DEF Readers, Order, OneGetter, PoolTypeOK, Getting
<1>6. InHands'
  BY <1>n DEF InHands
<1>7. Occupied' = Occupied /\ Stored' = Stored
  <2>1. /\ \A u \in Threads : pc'[u] \in {"put_tail", "get_slot"} <=> pc[u] \in {"put_tail", "get_slot"}
        /\ \A u \in Threads : pc[u] \in {"put_tail", "get_slot"} => head'[u] = head[u]
        /\ UNCHANGED <<cons_head, prod_tail, objs, open>>
    OBVIOUS
  <2>2. Occupied' = Occupied
    BY <2>1 DEF Occupied
  <2> QED
    BY <2>1, <2>2 DEF Stored
<1>8. Contents'
  BY <1>7 DEF Contents
<1>9. \A u \in Threads : Hands(u)' = Hands(u)
  BY <1>n DEF Hands, InHands
<1>10. OneOwnerEach'
  <2>1. \A u \in Threads : ptr'[u] \notin owns'[u]
    BY <1>n DEF OneOwnerEach, InHands
  <2> QED
    BY <1>7, <1>9, <2>1 DEF OneOwnerEach
<1>11. NothingLost'
  BY <1>7, <1>9 DEF NothingLost
<1> QED
  BY <1>1, <1>2, <1>3, <1>4, <1>5, <1>6, <1>8, <1>10, <1>11

(* an object that finds no room leaves the thread's hands and live         *)
(* together;                                                               *)
LEMMA DiscardKeeps ==
  ASSUME OneGetter, PoolInv, NEW t \in Threads, LoadConsTail(t), FreeEntries(t) = 0
  PROVE  PoolInv'
<1> USE DEF PoolInv, Positions
<1>n. /\ \A x \in Counter : Off(x) \in Nat /\ Off(x) < Wrap /\ Wrap \in Nat
      /\ \A x, y \in Counter : Off(x) = Off(y) => x = y
      /\ MASK \in Nat /\ Start \in Counter /\ None \notin Objects
  BY OffFacts
<1>f. /\ pc[t] = "put_free"
      /\ pc' = [pc EXCEPT ![t] = "idle"]
      /\ head' = [head EXCEPT ![t] = Start]
      /\ tail' = [tail EXCEPT ![t] = Start]
      /\ live' = live \ {ptr[t]}
      /\ ptr' = [ptr EXCEPT ![t] = None]
      /\ UNCHANGED <<prod_head, prod_tail, cons_head, cons_tail, objs, owns, open, calls>>
  BY DEF LoadConsTail, Leave, Goto, counters
<1> USE <1>f
<1>1. PoolTypeOK'
  BY <1>n DEF PoolTypeOK, Putting
<1>2. Order'
  BY <1>n DEF Order
<1>3. Bounded'
  <2>1. Pending' = Pending \ {t} /\ t \in Pending
    BY DEF Pending, PoolTypeOK
  <2>2. Cardinality(Pending)' = Cardinality(Pending) - 1 /\ Cardinality(Pending) \in Nat
    BY <2>1, PendingFinite
  <2> QED
    BY <1>n, <2>2, Sizes DEF Bounded, PoolTypeOK
<1>4. Writers'
  BY <1>n DEF Writers, Order, PoolTypeOK
<1>5. Readers'
  BY <1>n DEF Readers, Order, OneGetter, PoolTypeOK, Getting
<1>6. InHands'
  BY <1>n DEF InHands, PoolTypeOK
<1>7. Occupied' = Occupied /\ Stored' = Stored
  <2>1. /\ \A u \in Threads : pc'[u] \in {"put_tail", "get_slot"} <=> pc[u] \in {"put_tail", "get_slot"}
        /\ \A u \in Threads : pc[u] \in {"put_tail", "get_slot"} => head'[u] = head[u]
        /\ UNCHANGED <<cons_head, prod_tail, objs, open>>
    OBVIOUS
  <2>2. Occupied' = Occupied
    BY <2>1 DEF Occupied
  <2> QED
    BY <2>1, <2>2 DEF Stored
<1>8. Contents'
  BY <1>7 DEF Contents
<1>9. \A u \in Threads : Hands(u)' = Hands(u) \ {ptr[t]}
  <2>1. ptr[t] # None /\ ptr[t] \notin owns[t]
    BY DEF InHands, OneOwnerEach
  <2>2. \A u \in Threads : u # t => ptr[t] \notin Hands(u)
    BY <2>1 DEF OneOwnerEach, Hands
  <2>3. \A u \in Threads : u # t => Hands(u)' = Hands(u)
    BY DEF Hands
  <2>4. Hands(t)' = Hands(t) \ {ptr[t]}
    <3>1. Hands(t)' = owns[t] /\ Hands(t) = owns[t] \union {ptr[t]}
      BY <2>1 DEF Hands, PoolTypeOK
    <3> QED
      BY <2>1, <3>1
  <2> QED
    BY <2>2, <2>3, <2>4
<1>10. OneOwnerEach'
  <2>1. \A u \in Threads : ptr'[u] \notin owns'[u]
    BY <1>n DEF OneOwnerEach, InHands, PoolTypeOK
  <2> QED
    BY <1>7, <1>9, <2>1 DEF OneOwnerEach
<1>11. NothingLost'
  <2>1. ptr[t] \in Hands(t) /\ ptr[t] \notin Stored
    BY DEF InHands, OneOwnerEach, Hands
  <2> QED
    BY <1>7, <1>9, <2>1 DEF NothingLost
<1> QED
  BY <1>1, <1>2, <1>3, <1>4, <1>5, <1>6, <1>8, <1>10, <1>11

(* a head with room, if still current at the exchange, still has room      *)
(* then, as _cons_tail only moves away;                                    *)
LEMMA FindRoomKeeps ==
  ASSUME OneGetter, PoolInv, NEW t \in Threads, LoadConsTail(t), FreeEntries(t) # 0
  PROVE  PoolInv'
<1> USE DEF PoolInv, Positions, LoadConsTail, Goto, Leave, counters, locals
<1>n. /\ \A x \in Counter : Off(x) \in Nat /\ Off(x) < Wrap /\ Wrap \in Nat
      /\ \A x, y \in Counter : Off(x) = Off(y) => x = y
      /\ MASK \in Nat /\ Start \in Counter /\ None \notin Objects
  BY OffFacts
<1>1. PoolTypeOK'
  BY <1>n DEF PoolTypeOK, Putting
<1>2. Order'
  BY <1>n DEF Order
<1>3. Bounded'
  <2>1. Pending' = Pending
    BY DEF Pending, PoolTypeOK
  <2>2. Cardinality(Pending)' = Cardinality(Pending) /\ Cardinality(Pending) \in Nat
    BY <2>1, PendingFinite
  <2> QED
    BY <1>n, <2>2, Sizes DEF Bounded
<1>4. Writers'
  <2>1. head[t] = prod_head => Off(prod_head) < Off(cons_tail) + MASK
    <3> SUFFICES ASSUME head[t] = prod_head PROVE Off(prod_head) < Off(cons_tail) + MASK
      OBVIOUS
    <3>1. /\ Off(cons_tail) <= Off(prod_head) /\ Off(prod_head) <= Off(cons_tail) + MASK
          /\ cons_tail \in Counter /\ prod_head \in Counter
      BY <1>n DEF Order, PoolTypeOK
    <3>2. FreeEntries(t) = MASK - (Off(prod_head) - Off(cons_tail))
      BY <3>1, FreeIs DEF FreeEntries
    <3> QED
      BY <1>n, <3>1, <3>2
  <2> QED
    BY <1>n, <2>1 DEF Writers, PoolTypeOK
<1>5. Readers'
  BY <1>n DEF Readers, Order, OneGetter, PoolTypeOK, Getting
<1>6. InHands'
  BY <1>n DEF InHands, PoolTypeOK
<1>7. Occupied' = Occupied /\ Stored' = Stored
  <2>1. /\ \A u \in Threads : pc'[u] \in {"put_tail", "get_slot"} <=> pc[u] \in {"put_tail", "get_slot"}
        /\ \A u \in Threads : pc[u] \in {"put_tail", "get_slot"} => head'[u] = head[u]
        /\ UNCHANGED <<cons_head, prod_tail, objs, open>>
    BY DEF PoolTypeOK
  <2>2. Occupied' = Occupied
    BY <2>1 DEF Occupied
  <2> QED
    BY <2>1, <2>2 DEF Stored
<1>8. Contents'
  BY <1>7 DEF Contents
<1>9. \A u \in Threads : Hands(u)' = Hands(u)
  BY <1>n DEF Hands, InHands
<1>10. OneOwnerEach'
  <2>1. \A u \in Threads : ptr'[u] \notin owns'[u]
    BY <1>n DEF OneOwnerEach, InHands
  <2> QED
    BY <1>7, <1>9, <2>1 DEF OneOwnerEach
<1>11. NothingLost'
  BY <1>7, <1>9 DEF NothingLost
<1> QED
  BY <1>1, <1>2, <1>3, <1>4, <1>5, <1>6, <1>8, <1>10, <1>11

(* the position reserved is nobody else's;                                 *)
LEMMA CasProdHeadKeeps ==
  ASSUME OneGetter, PoolInv, NEW t \in Threads, CasProdHead(t)
  PROVE  PoolInv'
<1> USE DEF PoolInv, Positions, CasProdHead, Goto, Leave, counters, locals
<1>n. /\ \A x \in Counter : Off(x) \in Nat /\ Off(x) < Wrap /\ Wrap \in Nat
      /\ \A x, y \in Counter : Off(x) = Off(y) => x = y
      /\ MASK \in Nat /\ Start \in Counter /\ None \notin Objects
  BY OffFacts
<1>f. /\ prod_head' \in Counter /\ Off(prod_head') = Off(prod_head) + 1
      /\ pc' = [pc EXCEPT ![t] = "put_slot"]
      /\ UNCHANGED <<prod_tail, cons_head, cons_tail, head, tail, calls>>
  <2>1. t \in Pending /\ head[t] = prod_head
    BY DEF Pending
  <2>2. Off(prod_head) + 1 < Wrap
    BY <2>1, <1>n, PendingFinite, Sizes DEF Bounded, PoolTypeOK
  <2> QED
    BY <2>1, <2>2, NextPosition DEF PoolTypeOK
<1>1. PoolTypeOK'
  BY <1>n, <1>f DEF PoolTypeOK, Putting
<1>2. Order'
  <2>1. Off(prod_head) < Off(cons_tail) + MASK
    BY DEF Writers
  <2> QED
    BY <1>n, <1>f, <2>1 DEF Order, PoolTypeOK
<1>3. Bounded'
  <2>1. Pending' = Pending \ {t} /\ t \in Pending
    BY DEF Pending, PoolTypeOK
  <2>2. Cardinality(Pending)' = Cardinality(Pending) - 1 /\ Cardinality(Pending) \in Nat
    BY <2>1, PendingFinite
  <2> QED
    BY <1>n, <2>2, Sizes, <1>f DEF Bounded, PoolTypeOK
<1>4. Writers'
  <2> HIDE DEF CasProdHead
  <2>h. head[t] = prod_head
    BY DEF CasProdHead
  <2>1. \A u \in Threads : pc'[u] \in {"put_free", "put_cas"} =>
           u # t /\ pc'[u] = pc[u] /\ Off(head[u]) <= Off(prod_head)
    BY <1>f DEF Writers, PoolTypeOK
  <2>2. \A u \in Threads : pc'[u] \in {"put_free", "put_cas"} =>
           /\ Off(head'[u]) <= Off(prod_head') /\ head'[u] # prod_head'
    BY <2>1, <1>f, <1>n DEF PoolTypeOK
  <2>3. \A u \in Threads : pc'[u] \in {"put_slot", "put_tail"} =>
           Off(prod_tail') <= Off(head'[u]) /\ Off(head'[u]) < Off(prod_head')
    BY <1>f, <1>n, <2>h DEF Writers, PoolTypeOK, Order
  <2>4. \A u \in Threads : u # t /\ pc[u] \in {"put_slot", "put_tail"} => head[u] # head[t]
    BY <1>n, <2>h DEF Writers, PoolTypeOK
  <2> QED
    BY <1>f, <2>2, <2>3, <2>4 DEF Writers
<1>5. Readers'
  BY <1>n DEF Readers, Order, OneGetter, PoolTypeOK, Getting
<1>6. InHands'
  BY <1>n DEF InHands
<1>7. Occupied' = Occupied /\ Stored' = Stored
  <2>1. /\ \A u \in Threads : pc'[u] \in {"put_tail", "get_slot"} <=> pc[u] \in {"put_tail", "get_slot"}
        /\ \A u \in Threads : pc[u] \in {"put_tail", "get_slot"} => head'[u] = head[u]
        /\ UNCHANGED <<cons_head, prod_tail, objs, open>>
    OBVIOUS
  <2>2. Occupied' = Occupied
    BY <2>1 DEF Occupied
  <2> QED
    BY <2>1, <2>2 DEF Stored
<1>8. Contents'
  BY <1>7 DEF Contents
<1>9. \A u \in Threads : Hands(u)' = Hands(u)
  BY <1>n DEF Hands, InHands
<1>10. OneOwnerEach'
  <2>1. \A u \in Threads : ptr'[u] \notin owns'[u]
    BY <1>n DEF OneOwnerEach, InHands
  <2> QED
    BY <1>7, <1>9, <2>1 DEF OneOwnerEach
<1>11. NothingLost'
  BY <1>7, <1>9 DEF NothingLost
<1> QED
  BY <1>1, <1>2, <1>3, <1>4, <1>5, <1>6, <1>8, <1>10, <1>11

(* a failed exchange forgets what was remembered;                          *)
LEMMA CasFailsKeeps ==
  ASSUME OneGetter, PoolInv, NEW t \in Threads, CasFails(t)
  PROVE  PoolInv'
<1> USE DEF PoolInv, Positions, CasFails, Goto, Leave, counters, locals
<1>n. /\ \A x \in Counter : Off(x) \in Nat /\ Off(x) < Wrap /\ Wrap \in Nat
      /\ \A x, y \in Counter : Off(x) = Off(y) => x = y
      /\ MASK \in Nat /\ Start \in Counter /\ None \notin Objects
  BY OffFacts
<1>1. PoolTypeOK'
  BY <1>n DEF PoolTypeOK, Putting, Getting
<1>2. Order'
  BY <1>n DEF Order
<1>3. Bounded'
  <2>1. Pending' = Pending
    BY DEF Pending, PoolTypeOK
  <2>2. Cardinality(Pending)' = Cardinality(Pending) /\ Cardinality(Pending) \in Nat
    BY <2>1, PendingFinite
  <2> QED
    BY <1>n, <2>2, Sizes DEF Bounded
<1>4. Writers'
  BY <1>n DEF Writers, Order, PoolTypeOK
<1>5. Readers'
  BY <1>n DEF Readers, Order, OneGetter, PoolTypeOK, Getting
<1>6. InHands'
  BY <1>n DEF InHands, PoolTypeOK
<1>7. Occupied' = Occupied /\ Stored' = Stored
  <2>1. /\ \A u \in Threads : pc'[u] \in {"put_tail", "get_slot"} <=> pc[u] \in {"put_tail", "get_slot"}
        /\ \A u \in Threads : pc[u] \in {"put_tail", "get_slot"} => head'[u] = head[u]
        /\ UNCHANGED <<cons_head, prod_tail, objs, open>>
    BY DEF PoolTypeOK
  <2>2. Occupied' = Occupied
    BY <2>1 DEF Occupied
  <2> QED
    BY <2>1, <2>2 DEF Stored
<1>8. Contents'
  BY <1>7 DEF Contents
<1>9. \A u \in Threads : Hands(u)' = Hands(u)
  BY <1>n DEF Hands, InHands
<1>10. OneOwnerEach'
  <2>1. \A u \in Threads : ptr'[u] \notin owns'[u]
    BY <1>n DEF OneOwnerEach, InHands
  <2> QED
    BY <1>7, <1>9, <2>1 DEF OneOwnerEach
<1>11. NothingLost'
  BY <1>7, <1>9 DEF NothingLost
<1> QED
  BY <1>1, <1>2, <1>3, <1>4, <1>5, <1>6, <1>8, <1>10, <1>11

(* the slot written is no occupied position's, so no object is             *)
(* overwritten;                                                            *)
LEMMA StoreSlotKeeps ==
  ASSUME OneGetter, PoolInv, NEW t \in Threads, StoreSlot(t)
  PROVE  PoolInv'
<1> USE DEF PoolInv, Positions
<1>n. /\ \A x \in Counter : Off(x) \in Nat /\ Off(x) < Wrap /\ Wrap \in Nat
      /\ \A x, y \in Counter : Off(x) = Off(y) => x = y
      /\ MASK \in Nat /\ Start \in Counter /\ None \notin Objects
  BY OffFacts
<1>f. /\ pc[t] = "put_slot"
      /\ pc' = [pc EXCEPT ![t] = "put_tail"]
      /\ objs' = [objs EXCEPT ![Slot(head[t])] = ptr[t]]
      /\ ptr' = [ptr EXCEPT ![t] = None]
      /\ UNCHANGED <<prod_head, prod_tail, cons_head, cons_tail, head, tail, owns, live, open, calls>>
      /\ head[t] \in Counter /\ Slot(head[t]) \in 0..MASK /\ ptr[t] \in Objects
  <2>1. head[t] \in Counter /\ head[t] \in Nat /\ ptr[t] \in Objects
    BY DEF StoreSlot, Goto, PoolTypeOK, Counter, InHands
  <2> QED
    BY <2>1, SlotIs DEF StoreSlot, Goto, counters
<1> USE <1>f
<1>1. PoolTypeOK'
  BY <1>n DEF PoolTypeOK, Putting
<1>2. Order'
  BY <1>n DEF Order
<1>3. Bounded'
  <2>1. Pending' = Pending
    BY DEF Pending
  <2>2. Cardinality(Pending)' = Cardinality(Pending) /\ Cardinality(Pending) \in Nat
    BY <2>1, PendingFinite
  <2> QED
    BY <1>n, <2>2, Sizes DEF Bounded
<1>4. Writers'
  BY <1>n DEF Writers, Order
<1>5. Readers'
  BY <1>n DEF Readers, Order, OneGetter, PoolTypeOK, Getting
<1>6. InHands'
  BY <1>n DEF InHands, PoolTypeOK
<1>7. /\ Occupied' = Occupied \union {head[t]} /\ head[t] \notin Occupied
      /\ objs'[Slot(head[t])] = ptr[t]
      /\ \A i \in Occupied : objs'[Slot(i)] = objs[Slot(i)]
      /\ Stored' = Stored \union {ptr[t]}
  <2>1. Occupied' = Occupied \union {head[t]}
    <3>1. \A u \in Threads : pc'[u] \in {"put_tail", "get_slot"} <=>
                              u = t \/ pc[u] \in {"put_tail", "get_slot"}
      BY DEF PoolTypeOK
    <3> QED
      BY <3>1 DEF Occupied, Counter
  <2>2. /\ Off(prod_tail) <= Off(head[t]) /\ Off(head[t]) < Off(prod_head)
        /\ Off(cons_tail) <= Off(head[t])
    BY <1>n DEF Writers, Order, PoolTypeOK
  <2>3. head[t] \notin Occupied
    <3>1. ~(Off(head[t]) < Off(prod_tail))
      BY <1>n, <2>2 DEF PoolTypeOK
    <3>2. \A u \in Threads : pc[u] = "put_tail" => head[u] # head[t]
      BY DEF Writers
    <3>3. \A u \in Threads : pc[u] = "get_slot" => head[u] # head[t]
      BY <1>n, <2>2 DEF Readers, Order, PoolTypeOK
    <3> QED
      BY <3>1, <3>2, <3>3, OccupiedIs DEF OccupiedByOffset
  <2>4. \A i \in Occupied : Slot(i) # Slot(head[t])
    BY <2>2, <2>3, SlotsOfOccupied, OccupiedWindow
  <2>5. objs'[Slot(head[t])] = ptr[t] /\ \A i \in Occupied : objs'[Slot(i)] = objs[Slot(i)]
    BY <2>4 DEF PoolTypeOK
  <2>6. open
    BY DEF InHands
  <2>7. Stored' = Stored \union {ptr[t]}
    BY <2>1, <2>5, <2>6 DEF Stored
  <2> QED
    BY <2>1, <2>3, <2>5, <2>7
<1>8. Contents'
  BY <1>7 DEF Contents
<1>9. \A u \in Threads : Hands(u)' = Hands(u) \ {ptr[t]}
  <2>1. ptr[t] # None /\ ptr[t] \notin owns[t]
    BY DEF InHands, OneOwnerEach
  <2>2. \A u \in Threads : u # t => ptr[t] \notin Hands(u)
    BY <2>1 DEF OneOwnerEach, Hands
  <2>3. \A u \in Threads : u # t => Hands(u)' = Hands(u)
    BY DEF Hands
  <2>4. Hands(t)' = Hands(t) \ {ptr[t]}
    <3>1. Hands(t)' = owns[t] /\ Hands(t) = owns[t] \union {ptr[t]}
      BY <2>1 DEF Hands, PoolTypeOK
    <3> QED
      BY <2>1, <3>1
  <2> QED
    BY <2>2, <2>3, <2>4
<1>10. OneOwnerEach'
  <2>1. \A u \in Threads : ptr'[u] \notin owns'[u]
    BY <1>n DEF OneOwnerEach, InHands, PoolTypeOK
  <2>2. ptr[t] \in Hands(t) /\ ptr[t] \notin Stored
    BY <1>n DEF OneOwnerEach, Hands
  <2>3. open /\ \A i \in Occupied : objs[Slot(i)] \in Stored
    BY DEF InHands, Stored
  <2>4. \A i, j \in Occupied' : objs'[Slot(i)] = objs'[Slot(j)] => i = j
    BY <1>7, <2>2, <2>3 DEF OneOwnerEach
  <2>5. \A u, v \in Threads : u # v => Hands(u)' \intersect Hands(v)' = {}
    BY <1>9 DEF OneOwnerEach
  <2>6. \A u \in Threads : Hands(u)' \intersect Stored' = {}
    BY <1>7, <1>9 DEF OneOwnerEach
  <2> QED
    BY <2>1, <2>4, <2>5, <2>6 DEF OneOwnerEach
<1>11. NothingLost'
  <2>1. ptr[t] \in Hands(t)
    BY <1>n DEF Hands
  <2> QED
    BY <1>7, <1>9, <2>1 DEF NothingLost
<1> QED
  BY <1>1, <1>2, <1>3, <1>4, <1>5, <1>6, <1>8, <1>10, <1>11

(* the position published is written, since the earlier ones are           *)
(* published.                                                              *)
LEMMA PublishProdTailKeeps ==
  ASSUME OneGetter, PoolInv, NEW t \in Threads, PublishProdTail(t)
  PROVE  PoolInv'
<1> USE DEF PoolInv, Positions
<1>n. /\ \A x \in Counter : Off(x) \in Nat /\ Off(x) < Wrap /\ Wrap \in Nat
      /\ \A x, y \in Counter : Off(x) = Off(y) => x = y
      /\ MASK \in Nat /\ Start \in Counter /\ None \notin Objects
  BY OffFacts
<1>f. /\ pc[t] = "put_tail" /\ prod_tail = head[t]
      /\ pc' = [pc EXCEPT ![t] = "idle"]
      /\ head' = [head EXCEPT ![t] = Start]
      /\ tail' = [tail EXCEPT ![t] = Start]
      /\ prod_tail' \in Counter /\ Off(prod_tail') = Off(prod_tail) + 1
      /\ UNCHANGED <<prod_head, cons_head, cons_tail, objs, ptr, owns, live, open, calls>>
  <2>0. prod_tail \in Counter /\ prod_head \in Counter /\ pc[t] = "put_tail" /\ prod_tail = head[t]
    BY DEF PublishProdTail, Leave, Goto, PoolTypeOK
  <2>1. Off(prod_tail) < Off(prod_head)
    BY <2>0 DEF Writers
  <2>2. Off(prod_tail) + 1 < Wrap
    BY <1>n, <2>0, <2>1
  <2> QED
    BY <2>0, <2>2, NextPosition DEF PublishProdTail, Leave, Goto
<1> USE <1>f
<1>1. PoolTypeOK'
  BY <1>n DEF PoolTypeOK, Putting
<1>2. Order'
  BY <1>n DEF Order, Writers, PoolTypeOK
<1>3. Bounded'
  <2>1. Pending' = Pending
    BY DEF Pending
  <2>2. Cardinality(Pending)' = Cardinality(Pending) /\ Cardinality(Pending) \in Nat
    BY <2>1, PendingFinite
  <2> QED
    BY <1>n, <2>2, Sizes DEF Bounded
<1>4. Writers'
  <2>1. \A u \in Threads : u # t /\ pc[u] \in {"put_slot", "put_tail"} => Off(head[u]) # Off(head[t])
    BY <1>n DEF Writers, PoolTypeOK
  <2> QED
    BY <1>n, <2>1 DEF Writers, PoolTypeOK
<1>5. Readers'
  BY <1>n DEF Readers, Getting, PoolTypeOK
<1>6. InHands'
  BY <1>n DEF InHands
<1>7. Occupied' = Occupied /\ Stored' = Stored
  <2>1. Positions => OccupiedByOffset
    BY OccupiedIs
  <2>2. (Positions => OccupiedByOffset)'
    BY OccupiedIs, PTL
  <2>3. Positions /\ Positions'
    BY <1>1, <1>2, <1>3, <1>4, <1>5
  <2>4. \A i \in Counter : i \in Occupied' <=> i \in Occupied
    <3> SUFFICES ASSUME NEW i \in Counter PROVE i \in Occupied' <=> i \in Occupied
      OBVIOUS
    <3>1. i \in Occupied <=> \/ Off(cons_head) <= Off(i) /\ Off(i) < Off(prod_tail)
                             \/ \E u \in Threads : pc[u] \in {"put_tail", "get_slot"} /\ i = head[u]
      BY <2>1, <2>3 DEF OccupiedByOffset
    <3>2. i \in Occupied' <=> \/ Off(cons_head') <= Off(i) /\ Off(i) < Off(prod_tail')
                              \/ \E u \in Threads : pc'[u] \in {"put_tail", "get_slot"} /\ i = head'[u]
      BY <2>2, <2>3 DEF OccupiedByOffset
    <3>3. (\E u \in Threads : pc[u] \in {"put_tail", "get_slot"} /\ i = head[u])
            <=> i = head[t] \/ \E u \in Threads : pc'[u] \in {"put_tail", "get_slot"} /\ i = head'[u]
      BY DEF PoolTypeOK
    <3>4. Off(cons_head) <= Off(i) /\ Off(i) < Off(prod_tail')
            <=> i = head[t] \/ (Off(cons_head) <= Off(i) /\ Off(i) < Off(prod_tail))
      BY <1>n DEF PoolTypeOK, Order
    <3> QED
      BY <3>1, <3>2, <3>3, <3>4
  <2>5. Occupied \subseteq Counter /\ Occupied' \subseteq Counter
    BY DEF Occupied, Counter
  <2> QED
    BY <2>4, <2>5 DEF Stored
<1>8. Contents'
  BY <1>7 DEF Contents
<1>9. \A u \in Threads : Hands(u)' = Hands(u)
  BY <1>n DEF Hands, InHands
<1>10. OneOwnerEach'
  <2>1. \A u \in Threads : ptr'[u] \notin owns'[u]
    BY <1>n DEF OneOwnerEach, InHands
  <2> QED
    BY <1>7, <1>9, <2>1 DEF OneOwnerEach
<1>11. NothingLost'
  BY <1>7, <1>9 DEF NothingLost
<1> QED
  BY <1>1, <1>2, <1>3, <1>4, <1>5, <1>6, <1>8, <1>10, <1>11

(* On the other side a get is the only one in progress;                    *)
LEMMA GetKeeps ==
  ASSUME OneGetter, PoolInv, NEW t \in Threads, Get(t)
  PROVE  PoolInv'
<1> USE DEF PoolInv, Positions, Get, Goto, Leave, counters, locals
<1>n. /\ \A x \in Counter : Off(x) \in Nat /\ Off(x) < Wrap /\ Wrap \in Nat
      /\ \A x, y \in Counter : Off(x) = Off(y) => x = y
      /\ MASK \in Nat /\ Start \in Counter /\ None \notin Objects
  BY OffFacts
<1>1. PoolTypeOK'
  <2>1. calls' \in 0..MaxCalls
    BY Sizes DEF PoolTypeOK
  <2> QED
    BY <1>n, <2>1 DEF PoolTypeOK, Putting, Getting
<1>2. Order'
  BY <1>n DEF Order
<1>3. Bounded'
  <2>1. Pending' = Pending \union {t} /\ t \notin Pending
    BY DEF Pending, PoolTypeOK
  <2>2. Cardinality(Pending)' = Cardinality(Pending) + 1 /\ Cardinality(Pending) \in Nat
    BY <2>1, PendingFinite
  <2> QED
    BY <1>n, <2>2, Sizes DEF Bounded, PoolTypeOK
<1>4. Writers'
  BY <1>n DEF Writers, Order
<1>5. Readers'
  BY <1>n DEF Readers, Order, OneGetter, PoolTypeOK
<1>6. InHands'
  BY <1>n DEF InHands
<1>7. Occupied' = Occupied /\ Stored' = Stored
  <2>1. /\ \A u \in Threads : pc'[u] \in {"put_tail", "get_slot"} <=> pc[u] \in {"put_tail", "get_slot"}
        /\ \A u \in Threads : pc[u] \in {"put_tail", "get_slot"} => head'[u] = head[u]
        /\ UNCHANGED <<cons_head, prod_tail, objs, open>>
    OBVIOUS
  <2>2. Occupied' = Occupied
    BY <2>1 DEF Occupied
  <2> QED
    BY <2>1, <2>2 DEF Stored
<1>8. Contents'
  BY <1>7 DEF Contents
<1>9. \A u \in Threads : Hands(u)' = Hands(u)
  BY <1>n DEF Hands, InHands
<1>10. OneOwnerEach'
  <2>1. \A u \in Threads : ptr'[u] \notin owns'[u]
    BY <1>n DEF OneOwnerEach, InHands
  <2> QED
    BY <1>7, <1>9, <2>1 DEF OneOwnerEach
<1>11. NothingLost'
  BY <1>7, <1>9 DEF NothingLost
<1> QED
  BY <1>1, <1>2, <1>3, <1>4, <1>5, <1>6, <1>8, <1>10, <1>11

(* the tail it remembers is not ahead of _prod_tail;                       *)
LEMMA LoadProdTailKeeps ==
  ASSUME OneGetter, PoolInv, NEW t \in Threads, LoadProdTail(t)
  PROVE  PoolInv'
<1> USE DEF PoolInv, Positions, LoadProdTail, Goto, Leave, counters, locals
<1>n. /\ \A x \in Counter : Off(x) \in Nat /\ Off(x) < Wrap /\ Wrap \in Nat
      /\ \A x, y \in Counter : Off(x) = Off(y) => x = y
      /\ MASK \in Nat /\ Start \in Counter /\ None \notin Objects
  BY OffFacts
<1>1. PoolTypeOK'
  BY <1>n DEF PoolTypeOK, Putting, Getting
<1>2. Order'
  BY <1>n DEF Order
<1>3. Bounded'
  <2>1. Pending' = Pending
    BY DEF Pending
  <2>2. Cardinality(Pending)' = Cardinality(Pending) /\ Cardinality(Pending) \in Nat
    BY <2>1, PendingFinite
  <2> QED
    BY <1>n, <2>2, Sizes DEF Bounded
<1>4. Writers'
  BY <1>n DEF Writers, Order
<1>5. Readers'
  BY <1>n DEF Readers, Order, OneGetter, PoolTypeOK, Getting
<1>6. InHands'
  BY <1>n DEF InHands
<1>7. Occupied' = Occupied /\ Stored' = Stored
  <2>1. /\ \A u \in Threads : pc'[u] \in {"put_tail", "get_slot"} <=> pc[u] \in {"put_tail", "get_slot"}
        /\ \A u \in Threads : pc[u] \in {"put_tail", "get_slot"} => head'[u] = head[u]
        /\ UNCHANGED <<cons_head, prod_tail, objs, open>>
    OBVIOUS
  <2>2. Occupied' = Occupied
    BY <2>1 DEF Occupied
  <2> QED
    BY <2>1, <2>2 DEF Stored
<1>8. Contents'
  BY <1>7 DEF Contents
<1>9. \A u \in Threads : Hands(u)' = Hands(u)
  BY <1>n DEF Hands, InHands
<1>10. OneOwnerEach'
  <2>1. \A u \in Threads : ptr'[u] \notin owns'[u]
    BY <1>n DEF OneOwnerEach, InHands
  <2> QED
    BY <1>7, <1>9, <2>1 DEF OneOwnerEach
<1>11. NothingLost'
  BY <1>7, <1>9 DEF NothingLost
<1> QED
  BY <1>1, <1>2, <1>3, <1>4, <1>5, <1>6, <1>8, <1>10, <1>11

(* a new object is at an address not in use;                               *)
LEMMA MakeNewKeeps ==
  ASSUME OneGetter, PoolInv, NEW t \in Threads, LoadConsHead(t), Minus(tail[t], cons_head) = 0
  PROVE  PoolInv'
<1> USE DEF PoolInv, Positions
<1>n. /\ \A x \in Counter : Off(x) \in Nat /\ Off(x) < Wrap /\ Wrap \in Nat
      /\ \A x, y \in Counter : Off(x) = Off(y) => x = y
      /\ MASK \in Nat /\ Start \in Counter /\ None \notin Objects
  BY OffFacts
<1>f. /\ pc[t] = "get_head" /\ (\A u \in Threads : u # t => pc[u] \notin Getting)
      /\ pc' = [pc EXCEPT ![t] = "idle"]
      /\ head' = [head EXCEPT ![t] = Start]
      /\ tail' = [tail EXCEPT ![t] = Start]
      /\ UNCHANGED <<prod_head, prod_tail, cons_head, cons_tail, objs, ptr, open, calls>>
  BY DEF LoadConsHead, Leave, Goto, counters, Readers, OneGetter, Getting
<1>o. PICK o \in Objects \ live : /\ live' = live \union {o}
                                /\ owns' = [owns EXCEPT ![t] = @ \union {o}]
  BY DEF LoadConsHead
<1> USE <1>f
<1>1. PoolTypeOK'
  BY <1>n, <1>o DEF PoolTypeOK, Putting
<1>2. Order'
  BY <1>n DEF Order
<1>3. Bounded'
  <2>1. Pending' = Pending \ {t} /\ t \in Pending
    BY DEF Pending, PoolTypeOK
  <2>2. Cardinality(Pending)' = Cardinality(Pending) - 1 /\ Cardinality(Pending) \in Nat
    BY <2>1, PendingFinite
  <2> QED
    BY <1>n, <2>2, Sizes DEF Bounded, PoolTypeOK
<1>4. Writers'
  BY <1>n DEF Writers, Order
<1>5. Readers'
  <2>1. \A u \in Threads : pc[u] \notin {"get_slot", "get_done"}
    BY DEF Getting
  <2>2. \A u \in Threads : pc'[u] \notin Getting
    BY DEF PoolTypeOK, Getting
  <2> QED
    BY <2>1, <2>2 DEF Readers, Getting
<1>6. InHands'
  <2>1. open
    BY DEF InHands
  <2> QED
    BY <1>n, <1>o, <2>1 DEF InHands
<1>7. Occupied' = Occupied /\ Stored' = Stored
  <2>1. /\ \A u \in Threads : pc'[u] \in {"put_tail", "get_slot"} <=> pc[u] \in {"put_tail", "get_slot"}
        /\ \A u \in Threads : pc[u] \in {"put_tail", "get_slot"} => head'[u] = head[u]
        /\ UNCHANGED <<cons_head, prod_tail, objs, open>>
    OBVIOUS
  <2>2. Occupied' = Occupied
    BY <2>1 DEF Occupied
  <2> QED
    BY <2>1, <2>2 DEF Stored
<1>8. Contents'
  BY <1>7 DEF Contents
<1>9. \A u \in Threads : Hands(u)' = IF u = t THEN Hands(u) \union {o} ELSE Hands(u)
  BY <1>o DEF Hands, PoolTypeOK
<1>10. OneOwnerEach'
  <2>1. o \notin Stored /\ \A u \in Threads : o \notin Hands(u)
    BY <1>o DEF NothingLost
  <2>2. \A u \in Threads : ptr'[u] \notin owns'[u]
    <3>1. ptr[t] = None
      BY DEF InHands
    <3> QED
      BY <1>n, <1>o, <3>1 DEF OneOwnerEach
  <2>3. \A u, v \in Threads : u # v => Hands(u)' \intersect Hands(v)' = {}
    BY <1>9, <2>1 DEF OneOwnerEach
  <2>4. \A u \in Threads : Hands(u)' \intersect Stored' = {}
    BY <1>7, <1>9, <2>1 DEF OneOwnerEach
  <2> QED
    BY <1>7, <2>2, <2>3, <2>4 DEF OneOwnerEach
<1>11. NothingLost'
  <2>1. \A x : x \in live' <=> x \in live \/ x = o
    BY <1>o
  <2>2. \A x : x \in UNION {Hands(u)' : u \in Threads} <=>
                x \in UNION {Hands(u) : u \in Threads} \/ x = o
    BY <1>9
  <2>3. live' = Stored' \union UNION {Hands(u)' : u \in Threads}
    BY <1>7, <2>1, <2>2 DEF NothingLost
  <2> QED
    BY <2>3 DEF NothingLost
<1> QED
  BY <1>1, <1>2, <1>3, <1>4, <1>5, <1>6, <1>8, <1>10, <1>11

(* the head it found has an object, which stays until its own exchange;    *)
LEMMA FindObjectKeeps ==
  ASSUME OneGetter, PoolInv, NEW t \in Threads, LoadConsHead(t), Minus(tail[t], cons_head) # 0
  PROVE  PoolInv'
<1> USE DEF PoolInv, Positions
<1>n. /\ \A x \in Counter : Off(x) \in Nat /\ Off(x) < Wrap /\ Wrap \in Nat
      /\ \A x, y \in Counter : Off(x) = Off(y) => x = y
      /\ MASK \in Nat /\ Start \in Counter /\ None \notin Objects
  BY OffFacts
<1>f. /\ pc[t] = "get_head" /\ (\A u \in Threads : u # t => pc[u] \notin Getting)
      /\ pc' = [pc EXCEPT ![t] = "get_cas"]
      /\ head' = [head EXCEPT ![t] = cons_head]
      /\ tail' = [tail EXCEPT ![t] = Start]
      /\ UNCHANGED <<prod_head, prod_tail, cons_head, cons_tail, objs, ptr, owns, live, open, calls>>
  BY DEF LoadConsHead, Goto, counters, Readers, OneGetter, Getting
<1> USE <1>f
<1>1. PoolTypeOK'
  BY <1>n DEF PoolTypeOK, Putting, Getting
<1>2. Order'
  BY <1>n DEF Order
<1>3. Bounded'
  <2>1. Pending' = Pending
    BY DEF Pending
  <2>2. Cardinality(Pending)' = Cardinality(Pending) /\ Cardinality(Pending) \in Nat
    BY <2>1, PendingFinite
  <2> QED
    BY <1>n, <2>2, Sizes DEF Bounded
<1>4. Writers'
  BY <1>n DEF Writers, Order
<1>5. Readers'
  <2>1. \A u \in Threads : pc[u] \notin {"get_slot", "get_done"}
    BY DEF Getting
  <2>2. tail[t] \in Counter /\ cons_head \in Counter /\ prod_tail \in Counter
    BY DEF PoolTypeOK
  <2>3. Off(cons_head) <= Off(tail[t]) /\ Off(tail[t]) <= Off(prod_tail)
    BY DEF Readers
  <2>4. Minus(tail[t], cons_head) = Off(tail[t]) - Off(cons_head)
    BY <1>n, <2>2, <2>3, OffOfMinus
  <2>5. Off(cons_head) < Off(prod_tail)
    BY <1>n, <2>2, <2>3, <2>4
  <2>6. \A u \in Threads : u # t => pc'[u] \notin Getting
    OBVIOUS
  <2> QED
    BY <2>1, <2>5, <2>6 DEF Readers, Getting, PoolTypeOK
<1>6. InHands'
  BY <1>n DEF InHands
<1>7. Occupied' = Occupied /\ Stored' = Stored
  <2>1. /\ \A u \in Threads : pc'[u] \in {"put_tail", "get_slot"} <=> pc[u] \in {"put_tail", "get_slot"}
        /\ \A u \in Threads : pc[u] \in {"put_tail", "get_slot"} => head'[u] = head[u]
        /\ UNCHANGED <<cons_head, prod_tail, objs, open>>
    OBVIOUS
  <2>2. Occupied' = Occupied
    BY <2>1 DEF Occupied
  <2> QED
    BY <2>1, <2>2 DEF Stored
<1>8. Contents'
  BY <1>7 DEF Contents
<1>9. \A u \in Threads : Hands(u)' = Hands(u)
  BY <1>n DEF Hands, InHands
<1>10. OneOwnerEach'
  <2>1. \A u \in Threads : ptr'[u] \notin owns'[u]
    BY <1>n DEF OneOwnerEach, InHands
  <2> QED
    BY <1>7, <1>9, <2>1 DEF OneOwnerEach
<1>11. NothingLost'
  BY <1>7, <1>9 DEF NothingLost
<1> QED
  BY <1>1, <1>2, <1>3, <1>4, <1>5, <1>6, <1>8, <1>10, <1>11

(* the position it takes becomes its own;                                  *)
LEMMA CasConsHeadKeeps ==
  ASSUME OneGetter, PoolInv, NEW t \in Threads, CasConsHead(t)
  PROVE  PoolInv'
<1> USE DEF PoolInv, Positions
<1>n. /\ \A x \in Counter : Off(x) \in Nat /\ Off(x) < Wrap /\ Wrap \in Nat
      /\ \A x, y \in Counter : Off(x) = Off(y) => x = y
      /\ MASK \in Nat /\ Start \in Counter /\ None \notin Objects
  BY OffFacts
<1>f. /\ pc[t] = "get_cas" /\ head[t] = cons_head /\ cons_head = cons_tail
      /\ \A u \in Threads : u # t => pc[u] \notin Getting
      /\ pc' = [pc EXCEPT ![t] = "get_slot"]
      /\ cons_head' \in Counter /\ Off(cons_head') = Off(cons_head) + 1
      /\ Off(cons_head) < Off(prod_tail)
      /\ UNCHANGED <<prod_head, prod_tail, cons_tail, objs, head, tail, ptr, owns, live, open, calls>>
  <2>1. pc[t] = "get_cas" /\ head[t] = cons_head /\ Off(cons_head) < Off(prod_tail)
    BY DEF CasConsHead, Goto, Readers
  <2>2. \A u \in Threads : u # t => pc[u] \notin Getting
    BY <2>1 DEF Readers, OneGetter, Getting
  <2>3. cons_head = cons_tail
    BY <2>1, <2>2 DEF Readers, Getting
  <2>4. cons_head \in Counter /\ prod_tail \in Counter
    BY DEF PoolTypeOK
  <2>5. Off(cons_head) + 1 < Wrap
    BY <1>n, <2>1, <2>4
  <2> QED
    BY <2>1, <2>2, <2>3, <2>4, <2>5, NextPosition DEF CasConsHead, Goto
<1> USE <1>f
<1>1. PoolTypeOK'
  BY <1>n DEF PoolTypeOK, Putting, Getting
<1>2. Order'
  BY <1>n DEF Order, PoolTypeOK
<1>3. Bounded'
  <2>1. Pending' = Pending \ {t} /\ t \in Pending
    BY DEF Pending, PoolTypeOK
  <2>2. Cardinality(Pending)' = Cardinality(Pending) - 1 /\ Cardinality(Pending) \in Nat
    BY <2>1, PendingFinite
  <2> QED
    BY <1>n, <2>2, Sizes DEF Bounded, PoolTypeOK
<1>4. Writers'
  BY <1>n DEF Writers
<1>5. Readers'
  <2>1. \A u \in Threads : u # t => pc'[u] \notin Getting
    OBVIOUS
  <2>2. pc'[t] = "get_slot" /\ t \in Getters
    BY DEF PoolTypeOK, Readers, Getting
  <2> QED
    BY <2>1, <2>2 DEF Readers, Getting
<1>6. InHands'
  BY <1>n DEF InHands
<1>7. Occupied' = Occupied /\ Stored' = Stored
  <2>1. Positions => OccupiedByOffset
    BY OccupiedIs
  <2>2. (Positions => OccupiedByOffset)'
    BY OccupiedIs, PTL
  <2>3. Positions /\ Positions'
    BY <1>1, <1>2, <1>3, <1>4, <1>5
  <2>4. \A i \in Counter : i \in Occupied' <=> i \in Occupied
    <3> SUFFICES ASSUME NEW i \in Counter PROVE i \in Occupied' <=> i \in Occupied
      OBVIOUS
    <3>1. i \in Occupied <=> \/ Off(cons_head) <= Off(i) /\ Off(i) < Off(prod_tail)
                             \/ \E u \in Threads : pc[u] \in {"put_tail", "get_slot"} /\ i = head[u]
      BY <2>1, <2>3 DEF OccupiedByOffset
    <3>2. i \in Occupied' <=> \/ Off(cons_head') <= Off(i) /\ Off(i) < Off(prod_tail')
                              \/ \E u \in Threads : pc'[u] \in {"put_tail", "get_slot"} /\ i = head'[u]
      BY <2>2, <2>3 DEF OccupiedByOffset
    <3>3. (\E u \in Threads : pc'[u] \in {"put_tail", "get_slot"} /\ i = head'[u])
            <=> i = head[t] \/ \E u \in Threads : pc[u] \in {"put_tail", "get_slot"} /\ i = head[u]
      BY DEF PoolTypeOK
    <3>4. Off(cons_head) <= Off(i) /\ Off(i) < Off(prod_tail)
            <=> i = head[t] \/ (Off(cons_head') <= Off(i) /\ Off(i) < Off(prod_tail))
      BY <1>n DEF PoolTypeOK
    <3> QED
      BY <3>1, <3>2, <3>3, <3>4
  <2>5. Occupied \subseteq Counter /\ Occupied' \subseteq Counter
    BY DEF Occupied, Counter
  <2> QED
    BY <2>4, <2>5 DEF Stored
<1>8. Contents'
  BY <1>7 DEF Contents
<1>9. \A u \in Threads : Hands(u)' = Hands(u)
  BY <1>n DEF Hands, InHands
<1>10. OneOwnerEach'
  <2>1. \A u \in Threads : ptr'[u] \notin owns'[u]
    BY <1>n DEF OneOwnerEach, InHands
  <2> QED
    BY <1>7, <1>9, <2>1 DEF OneOwnerEach
<1>11. NothingLost'
  BY <1>7, <1>9 DEF NothingLost
<1> QED
  BY <1>1, <1>2, <1>3, <1>4, <1>5, <1>6, <1>8, <1>10, <1>11

(* the object it reads is an object, and in no other hands;                *)
LEMMA LoadSlotKeeps ==
  ASSUME OneGetter, PoolInv, NEW t \in Threads, LoadSlot(t)
  PROVE  PoolInv'
<1> USE DEF PoolInv, Positions
<1>n. /\ \A x \in Counter : Off(x) \in Nat /\ Off(x) < Wrap /\ Wrap \in Nat
      /\ \A x, y \in Counter : Off(x) = Off(y) => x = y
      /\ MASK \in Nat /\ Start \in Counter /\ None \notin Objects
  BY OffFacts
<1>f. /\ pc[t] = "get_slot" /\ head[t] \in Counter /\ head[t] = cons_tail /\ Off(cons_head) = Off(cons_tail) + 1
      /\ \A u \in Threads : u # t => pc[u] \notin Getting
      /\ open
      /\ pc' = [pc EXCEPT ![t] = "get_done"]
      /\ ptr' = [ptr EXCEPT ![t] = objs[Slot(head[t])]]
      /\ UNCHANGED <<prod_head, prod_tail, cons_head, cons_tail, objs, head, tail, owns, live, open, calls>>
  <2>1. pc[t] = "get_slot"
    BY DEF LoadSlot, Goto
  <2> QED
    BY <2>1 DEF LoadSlot, Goto, counters, Readers, OneGetter, Getting, PoolTypeOK, InHands
<1>o. PICK o \in Objects : o = objs[Slot(head[t])] /\ head[t] \in Occupied
  <2>1. \E u \in Threads : pc[u] \in {"put_tail", "get_slot"} /\ head[t] = head[u]
    BY <1>f
  <2>2. head[t] \in Occupied
    BY <1>f, <2>1 DEF Occupied, Counter
  <2> QED
    BY <2>2 DEF Contents
<1> USE <1>f
<1>1. PoolTypeOK'
  BY <1>n, <1>o DEF PoolTypeOK, Putting, Getting
<1>2. Order'
  BY <1>n DEF Order
<1>3. Bounded'
  <2>1. Pending' = Pending
    BY DEF Pending
  <2>2. Cardinality(Pending)' = Cardinality(Pending) /\ Cardinality(Pending) \in Nat
    BY <2>1, PendingFinite
  <2> QED
    BY <1>n, <2>2, Sizes DEF Bounded
<1>4. Writers'
  BY <1>n DEF Writers, Order
<1>5. Readers'
  BY <1>n DEF Readers, Order, OneGetter, PoolTypeOK, Getting
<1>6. InHands'
  BY <1>n, <1>o DEF InHands, PoolTypeOK
<1>7. Occupied' = Occupied \ {head[t]} /\ Stored' = Stored \ {o} /\ o \in Stored
  <2>1. Positions => OccupiedByOffset
    BY OccupiedIs
  <2>2. (Positions => OccupiedByOffset)'
    BY OccupiedIs, PTL
  <2>3. Positions /\ Positions'
    BY <1>1, <1>2, <1>3, <1>4, <1>5
  <2>4. \A u \in Threads : pc[u] = "put_tail" => head[u] # head[t]
    BY <1>n DEF Writers, Order, PoolTypeOK
  <2>5. ~(Off(cons_head) <= Off(head[t]))
    BY <1>n
  <2>6. \A u \in Threads : pc'[u] \in {"put_tail", "get_slot"} <=>
                            u # t /\ pc[u] \in {"put_tail", "get_slot"}
    BY DEF PoolTypeOK
  <2>7. \A u \in Threads : u # t /\ pc[u] \in {"put_tail", "get_slot"} => head[u] # head[t]
    BY <2>4 DEF Getting
  <2>8. \A i \in Counter : i \in Occupied' <=> i \in Occupied /\ i # head[t]
    BY <2>1, <2>2, <2>3, <2>5, <2>6, <2>7 DEF OccupiedByOffset
  <2>9. Occupied \subseteq Counter /\ Occupied' \subseteq Counter
    BY DEF Occupied, Counter
  <2>10. Occupied' = Occupied \ {head[t]}
    BY <2>8, <2>9
  <2>11. \A i \in Occupied : objs[Slot(i)] = o => i = head[t]
    BY <1>o DEF OneOwnerEach
  <2> QED
    BY <1>o, <2>10, <2>11 DEF Stored
<1>8. Contents'
  BY <1>7 DEF Contents
<1>9. \A u \in Threads : Hands(u)' = IF u = t THEN Hands(u) \union {o} ELSE Hands(u)
  <2>1. ptr[t] = None
    BY DEF InHands
  <2> QED
    BY <1>n, <1>o, <2>1 DEF Hands, PoolTypeOK
<1>10. OneOwnerEach'
  <2>1. \A u \in Threads : o \notin Hands(u)
    BY <1>7 DEF OneOwnerEach
  <2>2. \A u \in Threads : ptr'[u] \notin owns'[u]
    BY <1>n, <1>o, <2>1 DEF OneOwnerEach, PoolTypeOK, Hands
  <2>3. \A u, v \in Threads : u # v => Hands(u)' \intersect Hands(v)' = {}
    BY <1>9, <2>1 DEF OneOwnerEach
  <2>4. \A u \in Threads : Hands(u)' \intersect Stored' = {}
    BY <1>7, <1>9 DEF OneOwnerEach
  <2>5. \A i, j \in Occupied' : objs'[Slot(i)] = objs'[Slot(j)] => i = j
    BY <1>7 DEF OneOwnerEach
  <2> QED
    BY <2>2, <2>3, <2>4, <2>5 DEF OneOwnerEach
<1>11. NothingLost'
  <2>1. \A x : x \in Stored <=> x \in Stored' \/ x = o
    BY <1>7
  <2>2. \A x : x \in UNION {Hands(u)' : u \in Threads} <=>
                x \in UNION {Hands(u) : u \in Threads} \/ x = o
    BY <1>9
  <2>3. live' = Stored' \union UNION {Hands(u)' : u \in Threads}
    BY <2>1, <2>2 DEF NothingLost
  <2> QED
    BY <2>3 DEF NothingLost
<1> QED
  BY <1>1, <1>2, <1>3, <1>4, <1>5, <1>6, <1>8, <1>10, <1>11

(* and the slot is free for writers once the object is in a unique_ptr.    *)
LEMMA PublishConsTailKeeps ==
  ASSUME OneGetter, PoolInv, NEW t \in Threads, PublishConsTail(t)
  PROVE  PoolInv'
<1> USE DEF PoolInv, Positions
<1>n. /\ \A x \in Counter : Off(x) \in Nat /\ Off(x) < Wrap /\ Wrap \in Nat
      /\ \A x, y \in Counter : Off(x) = Off(y) => x = y
      /\ MASK \in Nat /\ Start \in Counter /\ None \notin Objects
  BY OffFacts
<1>f. /\ pc[t] = "get_done" /\ head[t] = cons_tail /\ Off(cons_head) = Off(cons_tail) + 1
      /\ \A u \in Threads : u # t => pc[u] \notin Getting
      /\ ptr[t] \in Objects
      /\ pc' = [pc EXCEPT ![t] = "idle"]
      /\ head' = [head EXCEPT ![t] = Start]
      /\ tail' = [tail EXCEPT ![t] = Start]
      /\ cons_tail' = cons_head
      /\ owns' = [owns EXCEPT ![t] = @ \union {ptr[t]}]
      /\ ptr' = [ptr EXCEPT ![t] = None]
      /\ UNCHANGED <<prod_head, prod_tail, cons_head, objs, live, open, calls>>
  <2>1. pc[t] = "get_done" /\ head[t] = cons_tail /\ cons_tail' = Plus(cons_tail, 1)
    BY DEF PublishConsTail, Leave, Goto
  <2>2. /\ \A u \in Threads : u # t => pc[u] \notin Getting
        /\ Off(cons_head) = Off(cons_tail) + 1
        /\ ptr[t] \in Objects /\ cons_head \in Counter /\ cons_tail \in Counter
    BY <2>1, <1>n DEF Readers, OneGetter, Getting, PoolTypeOK, InHands
  <2>3. cons_tail' \in Counter /\ Off(cons_tail') = Off(cons_head)
    BY <1>n, <2>1, <2>2, NextPosition
  <2>4. cons_tail' = cons_head
    BY <1>n, <2>2, <2>3
  <2>5. owns' = [owns EXCEPT ![t] = @ \union {ptr[t]}]
    BY <1>n, <2>2 DEF PublishConsTail, PoolTypeOK
  <2> QED
    BY <2>1, <2>2, <2>4, <2>5 DEF PublishConsTail, Leave, Goto
<1> USE <1>f
<1>1. PoolTypeOK'
  BY <1>n DEF PoolTypeOK, Putting
<1>2. Order'
  BY <1>n DEF Order, PoolTypeOK
<1>3. Bounded'
  <2>1. Pending' = Pending
    BY DEF Pending
  <2>2. Cardinality(Pending)' = Cardinality(Pending) /\ Cardinality(Pending) \in Nat
    BY <2>1, PendingFinite
  <2> QED
    BY <1>n, <2>2, Sizes DEF Bounded
<1>4. Writers'
  BY <1>n DEF Writers, Order, PoolTypeOK
<1>5. Readers'
  <2>1. \A u \in Threads : pc'[u] \notin Getting
    BY DEF PoolTypeOK, Getting
  <2> QED
    BY <2>1 DEF Readers, Getting
<1>6. InHands'
  BY <1>n DEF InHands, PoolTypeOK
<1>7. Occupied' = Occupied /\ Stored' = Stored
  <2>1. /\ \A u \in Threads : pc'[u] \in {"put_tail", "get_slot"} <=> pc[u] \in {"put_tail", "get_slot"}
        /\ \A u \in Threads : pc[u] \in {"put_tail", "get_slot"} => head'[u] = head[u]
        /\ UNCHANGED <<cons_head, prod_tail, objs, open>>
    OBVIOUS
  <2>2. Occupied' = Occupied
    BY <2>1 DEF Occupied
  <2> QED
    BY <2>1, <2>2 DEF Stored
<1>8. Contents'
  BY <1>7 DEF Contents
<1>9. \A u \in Threads : Hands(u)' = Hands(u)
  BY <1>n DEF Hands, InHands, PoolTypeOK
<1>10. OneOwnerEach'
  <2>1. \A u \in Threads : ptr'[u] \notin owns'[u]
    BY <1>n DEF OneOwnerEach, InHands, PoolTypeOK
  <2> QED
    BY <1>7, <1>9, <2>1 DEF OneOwnerEach
<1>11. NothingLost'
  BY <1>7, <1>9 DEF NothingLost
<1> QED
  BY <1>1, <1>2, <1>3, <1>4, <1>5, <1>6, <1>8, <1>10, <1>11

(* A unique_ptr that is moved has one owner before and after.              *)
LEMMA HandOverKeeps ==
  ASSUME OneGetter, PoolInv, NEW t \in Threads, NEW r \in Threads, NEW o \in owns[t], HandOver(t, r, o)
  PROVE  PoolInv'
<1> USE DEF PoolInv, Positions
<1>n. /\ \A x \in Counter : Off(x) \in Nat /\ Off(x) < Wrap /\ Wrap \in Nat
      /\ \A x, y \in Counter : Off(x) = Off(y) => x = y
      /\ MASK \in Nat /\ Start \in Counter /\ None \notin Objects
  BY OffFacts
<1>f. /\ t # r /\ pc[t] = "idle" /\ o \in Objects
      /\ owns' = [owns EXCEPT ![t] = @ \ {o}, ![r] = @ \union {o}]
      /\ UNCHANGED <<prod_head, prod_tail, cons_head, cons_tail, objs, pc, head, tail, ptr, live, open, calls>>
  BY DEF HandOver, counters, locals, PoolTypeOK
<1>o. /\ o \in Hands(t) /\ \A u \in Threads : u # t => o \notin Hands(u)
      /\ owns'[t] = owns[t] \ {o} /\ owns'[r] = owns[r] \union {o}
      /\ \A u \in Threads : u # t /\ u # r => owns'[u] = owns[u]
  <2>1. o \in owns[t]
    OBVIOUS
  <2>2. o \in Hands(t) /\ \A u \in Threads : u # t => o \notin Hands(u)
    BY <2>1 DEF Hands, OneOwnerEach
  <2>3. /\ owns'[t] = owns[t] \ {o} /\ owns'[r] = owns[r] \union {o}
        /\ \A u \in Threads : u # t /\ u # r => owns'[u] = owns[u]
    <3> DEFINE w == [owns EXCEPT ![t] = @ \ {o}]
    <3>1. w \in [Threads -> SUBSET Objects] /\ owns' = [w EXCEPT ![r] = @ \union {o}]
      BY <1>f DEF PoolTypeOK
    <3>2. w[t] = owns[t] \ {o} /\ \A u \in Threads : u # t => w[u] = owns[u]
      BY DEF PoolTypeOK
    <3> HIDE DEF w
    <3> QED
      BY <1>f, <3>1
  <2> QED
    BY <2>2, <2>3
<1> USE <1>f
<1>1. PoolTypeOK'
  BY <1>n DEF PoolTypeOK, Putting, Getting
<1>2. Order'
  BY <1>n DEF Order
<1>3. Bounded'
  <2>1. Pending' = Pending
    BY DEF Pending
  <2>2. Cardinality(Pending)' = Cardinality(Pending) /\ Cardinality(Pending) \in Nat
    BY <2>1, PendingFinite
  <2> QED
    BY <1>n, <2>2, Sizes DEF Bounded
<1>4. Writers'
  BY <1>n DEF Writers, Order
<1>5. Readers'
  BY <1>n DEF Readers, Order, OneGetter, PoolTypeOK
<1>6. InHands'
  BY <1>n DEF InHands
<1>7. Occupied' = Occupied /\ Stored' = Stored
  <2>1. /\ \A u \in Threads : pc'[u] \in {"put_tail", "get_slot"} <=> pc[u] \in {"put_tail", "get_slot"}
        /\ \A u \in Threads : pc[u] \in {"put_tail", "get_slot"} => head'[u] = head[u]
        /\ UNCHANGED <<cons_head, prod_tail, objs, open>>
    OBVIOUS
  <2>2. Occupied' = Occupied
    BY <2>1 DEF Occupied
  <2> QED
    BY <2>1, <2>2 DEF Stored
<1>8. Contents'
  BY <1>7 DEF Contents
<1>9. /\ Hands(t)' = Hands(t) \ {o} /\ Hands(r)' = Hands(r) \union {o}
      /\ \A u \in Threads : u # t /\ u # r => Hands(u)' = Hands(u)
  <2>1. ptr[t] = None /\ o # None
    BY <1>n DEF InHands
  <2> QED
    BY <1>o, <2>1 DEF Hands
<1>10. OneOwnerEach'
  <2>1. \A u \in Threads : ptr'[u] \notin owns'[u]
    <3>1. ptr[t] = None /\ o # None /\ ptr[r] # o
      BY <1>n, <1>o DEF InHands, Hands
    <3> QED
      BY <1>n, <1>o, <3>1 DEF OneOwnerEach, PoolTypeOK
  <2>2. \A u, v \in Threads : u # v => Hands(u)' \intersect Hands(v)' = {}
    BY <1>9, <1>o DEF OneOwnerEach
  <2>3. \A u \in Threads : Hands(u)' \intersect Stored' = {}
    BY <1>7, <1>9, <1>o DEF OneOwnerEach
  <2> QED
    BY <1>7, <2>1, <2>2, <2>3 DEF OneOwnerEach
<1>11. NothingLost'
  <2>1. \A x : x \in UNION {Hands(u)' : u \in Threads} <=> x \in UNION {Hands(u) : u \in Threads}
    BY <1>9, <1>o
  <2>2. live' = Stored' \union UNION {Hands(u)' : u \in Threads}
    BY <1>7, <2>1 DEF NothingLost
  <2> QED
    BY <2>2 DEF NothingLost
<1> QED
  BY <1>1, <1>2, <1>3, <1>4, <1>5, <1>6, <1>8, <1>10, <1>11

(* The n-th position from Start.                                           *)
LEMMA FromStart ==
  /\ Off(Start) = 0
  /\ \A n \in Counter : Plus(Start, n) \in Counter /\ Off(Plus(Start, n)) = n
<1>1. Start \in Counter /\ Off(Start) = IF Start < Start THEN Start + Wrap - Start ELSE Start - Start
  BY OffIs, Sizes
<1>2. ASSUME NEW n \in Counter
      PROVE  Plus(Start, n) \in Counter /\ Off(Plus(Start, n)) = n
  <2>1. n \in Counter /\ Start \in Counter
    BY Sizes
  <2>2. /\ Plus(Start, n) = (IF Start + n < Wrap THEN Start + n ELSE Start + n - Wrap)
        /\ Plus(Start, n) \in Counter
    BY <2>1, PlusIs
  <2> DEFINE x == Plus(Start, n)
  <2>3. Off(x) = IF x < Start THEN x + Wrap - Start ELSE x - Start
    BY <2>2, OffIs
  <2> HIDE DEF x
  <2>4. Off(x) = n
    BY <2>1, <2>2, <2>3, Sizes DEF Counter, x
  <2> QED
    BY <2>2, <2>4 DEF x
<1> QED
  BY <1>1, <1>2, Sizes DEF Counter

(* The pool starts in the invariant, empty or filled.                      *)
LEMMA InitInv == ASSUME PoolInit PROVE PoolInv
<1> DEFINE L == Len(Pooled)
<1>c. /\ L \in 0..MASK /\ L \in Counter /\ MASK \in Nat /\ MASK + 1 = Slots /\ Start \in Counter
      /\ \A k \in 1..L : Pooled[k] \in Objects
      /\ None \notin Objects
  BY Sizes, PoolAssumption DEF Counter
<1>i. /\ prod_head \in Counter /\ prod_tail = prod_head /\ cons_head = Start /\ cons_tail = Start
      /\ Off(prod_head) = L /\ Off(Start) = 0
      /\ pc = [t \in Threads |-> "idle"] /\ head = [t \in Threads |-> Start]
      /\ tail = [t \in Threads |-> Start] /\ ptr = [t \in Threads |-> None]
      /\ owns = Owned /\ open = TRUE /\ calls = 0
      /\ live = {Pooled[k] : k \in 1..L} \union UNION {Owned[t] : t \in Threads}
  BY <1>c, FromStart DEF PoolInit
<1>o. /\ objs \in [0..MASK -> Objects \union {None}]
      /\ \A i \in Counter : Off(i) < L => objs[Slot(i)] = Pooled[Off(i) + 1]
  <2>1. objs = [i \in 0..MASK |-> IF (i + Slots - Slot(Start)) % Slots < L
                                    THEN Pooled[((i + Slots - Slot(Start)) % Slots) + 1] ELSE None]
    BY DEF PoolInit
  <2>2. ASSUME NEW i \in 0..MASK, (i + Slots - Slot(Start)) % Slots < L
        PROVE  Pooled[((i + Slots - Slot(Start)) % Slots) + 1] \in Objects
    <3> DEFINE y == i + Slots - Slot(Start)
               n == y % Slots
    <3>1. Start \in Nat
      BY <1>c DEF Counter
    <3>2. Slot(Start) \in 0..MASK
      BY <3>1, SlotIs
    <3>3. y \in Nat
      BY <1>c, <3>2
    <3> HIDE DEF y
    <3>4. n \in Nat
      BY <3>3, Division, Sizes
    <3>5. n < L
      BY <2>2 DEF y
    <3> HIDE DEF n
    <3>6. n + 1 \in 1..L
      BY <1>c, <3>4, <3>5
    <3>7. Pooled[n + 1] \in Objects
      BY <1>c, <3>6
    <3> QED
      BY <3>7 DEF n, y
  <2>3. objs \in [0..MASK -> Objects \union {None}]
    BY <2>1, <2>2
  <2>4. ASSUME NEW i \in Counter, Off(i) < L
        PROVE  objs[Slot(i)] = Pooled[Off(i) + 1]
    <3> DEFINE s == Slot(i)
               a == Off(i)
    <3>1. a \in Nat /\ a < Slots
      BY <1>c, <2>4, OffFacts
    <3>2. s \in 0..MASK /\ (s + Slots - Slot(Start)) % Slots = a
      BY <3>1, SlotDistance
    <3> HIDE DEF s
    <3>3. objs[s] = IF (s + Slots - Slot(Start)) % Slots < L
                       THEN Pooled[((s + Slots - Slot(Start)) % Slots) + 1] ELSE None
      BY <2>1, <3>2
    <3> QED
      BY <2>4, <3>2, <3>3 DEF s
  <2> QED
    BY <2>3, <2>4
<1>1. PoolTypeOK
  BY <1>c, <1>i, <1>o, Sizes, PoolAssumption DEF PoolTypeOK
<1>2. Order
  BY <1>c, <1>i DEF Order
<1>3. Bounded
  <2>1. Pending = {}
    BY <1>i DEF Pending
  <2>2. Cardinality(Pending) = 0
    BY <2>1, FS_EmptySet
  <2> QED
    BY <1>c, <1>i, <2>2 DEF Bounded
<1>4. Writers
  BY <1>i DEF Writers
<1>5. Readers
  BY <1>i DEF Readers, Getting
<1>6. InHands
  BY <1>i, <1>c DEF InHands
<1>7. \A i : i \in Occupied <=> i \in Counter /\ Off(i) < L
  <2>1. Positions => OccupiedByOffset
    BY OccupiedIs
  <2>2. OccupiedByOffset
    BY <1>1, <1>2, <1>3, <1>4, <1>5, <2>1 DEF Positions
  <2>3. Occupied \subseteq Counter
    BY DEF Occupied, Counter
  <2>4. \A t \in Threads : pc[t] \notin {"put_tail", "get_slot"}
    BY <1>i
  <2>5. \A i \in Counter : Off(i) \in Nat
    BY OffFacts
  <2> QED
    BY <1>i, <2>2, <2>3, <2>4, <2>5 DEF OccupiedByOffset
<1>8. \A i \in Occupied : \E k \in 1..L : k = Off(i) + 1 /\ objs[Slot(i)] = Pooled[k]
  <2>1. \A i \in Occupied : Off(i) \in Nat /\ Off(i) + 1 \in 1..L
    BY <1>7, <1>c, OffFacts
  <2> QED
    BY <2>1, <1>7, <1>o
<1>9. Contents
  BY <1>8, <1>c DEF Contents
<1>10. Stored = {Pooled[k] : k \in 1..L}
  <2>1. ASSUME NEW k \in 1..L PROVE Pooled[k] \in Stored
    <3> DEFINE i == Plus(Start, k - 1)
    <3>1. k - 1 \in Counter /\ k - 1 < L
      BY <1>c, Sizes DEF Counter
    <3>2. i \in Counter /\ Off(i) = k - 1
      BY <3>1, FromStart
    <3> HIDE DEF i
    <3>3. i \in Occupied /\ objs[Slot(i)] = Pooled[k]
      BY <1>7, <1>o, <3>1, <3>2
    <3> QED
      BY <3>3, <1>i DEF Stored
  <2>2. \A x \in Stored : \E k \in 1..L : x = Pooled[k]
    BY <1>8, <1>i DEF Stored
  <2> QED
    BY <2>1, <2>2
<1>11. \A t \in Threads : Hands(t) = Owned[t] /\ ptr[t] = None
  BY <1>i DEF Hands
<1>12. OneOwnerEach
  <2>1. \A t, u \in Threads : t # u => Hands(t) \intersect Hands(u) = {}
    BY <1>11, PoolAssumption
  <2>2. \A t \in Threads : ptr[t] \notin owns[t]
    BY <1>i, <1>11, PoolAssumption
  <2>3. \A t \in Threads : Hands(t) \intersect Stored = {}
    BY <1>10, <1>11, PoolAssumption
  <2>4. \A i, j \in Occupied : objs[Slot(i)] = objs[Slot(j)] => i = j
    <3> SUFFICES ASSUME NEW i \in Occupied, NEW j \in Occupied, objs[Slot(i)] = objs[Slot(j)]
                 PROVE  i = j
      OBVIOUS
    <3>1. PICK k \in 1..L : k = Off(i) + 1 /\ objs[Slot(i)] = Pooled[k]
      BY <1>8
    <3>2. PICK m \in 1..L : m = Off(j) + 1 /\ objs[Slot(j)] = Pooled[m]
      BY <1>8
    <3>3. k = m
      BY <3>1, <3>2, PoolAssumption
    <3>4. i \in Counter /\ j \in Counter
      BY <1>7
    <3>5. Off(i) = Off(j)
      BY <3>1, <3>2, <3>3, <3>4, OffFacts
    <3> QED
      BY <3>4, <3>5, OffFacts
  <2> QED
    BY <2>1, <2>2, <2>3, <2>4 DEF OneOwnerEach
<1>13. NothingLost
  <2>1. \A x : x \in UNION {Hands(t) : t \in Threads} <=> x \in UNION {Owned[t] : t \in Threads}
    BY <1>11
  <2> QED
    BY <1>i, <1>10, <2>1 DEF NothingLost
<1> QED
  BY <1>1, <1>2, <1>3, <1>4, <1>5, <1>6, <1>9, <1>12, <1>13 DEF PoolInv, Positions

(* The destructor runs when nobody is in a call: it destroys what is       *)
(* stored.                                                                 *)
LEMMA DestroyKeeps == ASSUME PoolInv, Destroy PROVE PoolInv'
<1> USE DEF PoolInv, Positions
<1>f. /\ \A t \in Threads : pc[t] = "idle" /\ owns[t] = {} /\ ptr[t] = None
      /\ open = TRUE /\ open' = FALSE
      /\ UNCHANGED <<prod_head, prod_tail, cons_head, cons_tail, objs, pc, head, tail, ptr, owns, calls>>
  BY DEF Destroy, counters, locals, InHands
<1>1. live' = {}
  <2>1. \A x : x \notin UNION {Hands(t) : t \in Threads}
    BY <1>f DEF Hands
  <2>2. live = Stored
    BY <2>1 DEF NothingLost
  <2>3. Occupied = {j \in 0..(Wrap - 1) : Minus(j, cons_head) < Minus(prod_tail, cons_head)}
    BY <1>f DEF Occupied
  <2> QED
    BY <1>f, <2>2, <2>3 DEF Destroy, Stored
<1>2. PoolTypeOK'
  BY <1>f, <1>1 DEF PoolTypeOK
<1>3. Order' /\ Writers' /\ Readers'
  BY <1>f DEF Order, Writers, Readers
<1>4. Bounded'
  BY <1>f DEF Bounded, Pending
<1>5. InHands'
  BY <1>f DEF InHands
<1>6. Contents'
  BY <1>f DEF Contents, Occupied
<1>7. \A t \in Threads : Hands(t)' = {}
  BY <1>f DEF Hands
<1>8. Stored' = {}
  BY <1>f DEF Stored
<1>9. OneOwnerEach'
  BY <1>f, <1>7, <1>8 DEF OneOwnerEach
<1>10. NothingLost'
  BY <1>1, <1>7, <1>8 DEF NothingLost
<1> QED
  BY <1>2, <1>3, <1>4, <1>5, <1>6, <1>9, <1>10

(* A stutter changes nothing.                                              *)
LEMMA StutterKeeps == ASSUME PoolInv, UNCHANGED vars PROVE PoolInv'
<1> USE DEF vars, counters, locals
<1>1. PoolTypeOK' /\ Order' /\ Writers' /\ Readers' /\ InHands'
  BY DEF PoolInv, Positions, PoolTypeOK, Order, Writers, Readers, InHands
<1>2. Bounded'
  BY DEF PoolInv, Positions, Bounded, Pending
<1>3. Occupied' = Occupied
  BY DEF Occupied
<1>4. Contents'
  BY <1>3 DEF PoolInv, Contents
<1>5. Stored' = Stored /\ \A t \in Threads : Hands(t)' = Hands(t)
  BY <1>3 DEF Stored, Hands
<1>6. OneOwnerEach' /\ NothingLost'
  BY <1>3, <1>5 DEF PoolInv, OneOwnerEach, NothingLost
<1> QED
  BY <1>1, <1>2, <1>4, <1>6 DEF PoolInv, Positions

(* Every step keeps the invariant.                                         *)
LEMMA PoolSteps == ASSUME OneGetter, PoolInv, [PoolNext]_vars PROVE PoolInv'
<1>1. ASSUME NEW t \in Threads, PutStep(t) PROVE PoolInv'
  <2>1. CASE LoadConsTail(t) /\ FreeEntries(t) = 0
    BY <2>1, DiscardKeeps
  <2>2. CASE LoadConsTail(t) /\ FreeEntries(t) # 0
    BY <2>2, FindRoomKeeps
  <2> QED
    BY <1>1, <2>1, <2>2, LoadProdHeadKeeps, CasProdHeadKeeps, StoreSlotKeeps,
       PublishProdTailKeeps DEF PutStep
<1>2. ASSUME NEW t \in Threads, GetStep(t) PROVE PoolInv'
  <2>1. CASE LoadConsHead(t) /\ Minus(tail[t], cons_head) = 0
    BY <2>1, MakeNewKeeps
  <2>2. CASE LoadConsHead(t) /\ Minus(tail[t], cons_head) # 0
    BY <2>2, FindObjectKeeps
  <2> QED
    BY <1>2, <2>1, <2>2, LoadProdTailKeeps, CasConsHeadKeeps, LoadSlotKeeps,
       PublishConsTailKeeps DEF GetStep
<1> QED
  BY <1>1, <1>2, PutKeeps, GetKeeps, CasFailsKeeps, HandOverKeeps, DestroyKeeps,
     StutterKeeps DEF PoolNext

(* PoolInv holds in every state the code reaches with one getter: what     *)
(* put_raw() and get_raw() remember between their atomics is never stale   *)
(* in a way that matters.                                                  *)
THEOREM PoolSafe == ASSUME OneGetter PROVE PoolSpec => []PoolInv
<1>1. PoolInit => PoolInv
  BY InitInv
<1>2. PoolInv /\ [PoolNext]_vars => PoolInv'
  BY PoolSteps
<1> QED
  BY <1>1, <1>2, PTL DEF PoolSpec

(* The invariant implies RingInOrder, which counts from _cons_tail.        *)
LEMMA OrderedRing == ASSUME PoolInv PROVE RingInOrder
<1>1. /\ Off(cons_tail) \in Nat /\ Off(cons_head) \in Nat /\ Off(prod_tail) \in Nat
      /\ Off(prod_head) \in Nat /\ MASK \in Nat
      /\ cons_tail \in Counter /\ cons_head \in Counter /\ prod_tail \in Counter /\ prod_head \in Counter
  BY OffFacts DEF PoolInv, Positions, PoolTypeOK
<1>2. /\ Off(cons_tail) <= Off(cons_head) /\ Off(cons_head) <= Off(prod_tail)
      /\ Off(prod_tail) <= Off(prod_head) /\ Off(prod_head) <= Off(cons_tail) + MASK
  BY DEF PoolInv, Positions, Order
<1>3. Minus(cons_head, cons_tail) = Off(cons_head) - Off(cons_tail)
  BY <1>1, <1>2, OffOfMinus
<1>4. Minus(prod_tail, cons_tail) = Off(prod_tail) - Off(cons_tail)
  BY <1>1, <1>2, OffOfMinus
<1>5. Minus(prod_head, cons_tail) = Off(prod_head) - Off(cons_tail)
  BY <1>1, <1>2, OffOfMinus
<1> QED
  BY <1>1, <1>2, <1>3, <1>4, <1>5 DEF RingInOrder

(* Every variable stays in its type: the counters wrap to a counter, slots *)
(* and hands have objects or nullptr.                                      *)
THEOREM PoolTypesCorrect == ASSUME OneGetter PROVE PoolSpec => []PoolTypeOK
<1>1. PoolInv => PoolTypeOK
  BY DEF PoolInv, Positions
<1> QED
  BY <1>1, PoolSafe, PTL

(* put_raw() never reserves past the capacity and get_raw() never passes   *)
(* the writers, though each decides on an old value of the other's         *)
(* counter.                                                                *)
THEOREM RingStaysInOrder == ASSUME OneGetter PROVE PoolSpec => []RingInOrder
<1>1. PoolInv => RingInOrder
  BY OrderedRing
<1> QED
  BY <1>1, PoolSafe, PTL

(* No object is ever in two hands, twice in the ring, or in hands and      *)
(* ring: get() never hands out what another thread still uses.             *)
THEOREM ObjectsHaveOneOwner == ASSUME OneGetter PROVE PoolSpec => []OneOwnerEach
<1>1. PoolInv => OneOwnerEach
  BY DEF PoolInv
<1> QED
  BY <1>1, PoolSafe, PTL

(* The objects allocated and not destroyed are those in hands or in the    *)
(* ring; with the destructor gone none is left.                            *)
THEOREM ObjectsAreAccountedFor == ASSUME OneGetter PROVE PoolSpec => []NothingLost
<1>1. PoolInv => NothingLost
  BY DEF PoolInv
<1> QED
  BY <1>1, PoolSafe, PTL

(* Wrap, a multiple of Slots and more than one, is two rings or more.      *)
LEMMA TwoRings == 2 * Slots <= Wrap
<1>1. PICK q \in Nat, r \in 0..(Slots - 1) : Wrap = q * Slots + r /\ r = Wrap % Slots
  BY Division, Sizes
<1>2. Wrap = q * Slots
  BY <1>1, PoolAssumption
<1>3. q # 0 /\ q # 1
  BY <1>2, Sizes
<1> DEFINE p == q - 2
<1>4. p \in Nat /\ q = p + 2
  BY <1>3
<1>5. q * Slots = p * Slots + 2 * Slots
  BY <1>4, Sizes
<1> DEFINE m == p * Slots
<1>6. m \in Nat
  BY <1>4, Sizes
<1> HIDE DEF m
<1> QED
  BY <1>2, <1>5, <1>6, Sizes

(* The position a ring's length ahead, when it does not wrap.              *)
LEMMA RingFurther ==
  ASSUME NEW c \in Counter, Off(c) + MASK < Wrap
  PROVE  Off(Plus(MASK, c)) = Off(c) + MASK
<1> DEFINE p == Plus(MASK, c)
<1>1. MASK \in Counter
  BY Sizes DEF Counter
<1>2. p = (IF MASK + c < Wrap THEN MASK + c ELSE MASK + c - Wrap) /\ p \in Counter
  BY <1>1, PlusIs
<1>3. /\ Off(c) = (IF c < Start THEN c + Wrap - Start ELSE c - Start)
      /\ Off(p) = (IF p < Start THEN p + Wrap - Start ELSE p - Start)
  BY <1>2, OffIs
<1> HIDE DEF p
<1>4. Off(p) = Off(c) + MASK
  BY <1>2, <1>3, Sizes DEF Counter
<1> QED
  BY <1>4 DEF p

(* A put that computes zero free entries from an old head sees a ring that *)
(* is full now: _prod_head can be no further than MASK from _cons_tail.    *)
LEMMA DiscardOnlyWhenFull ==
  ASSUME PoolInv, NEW t \in Threads, pc[t] = "put_free", FreeEntries(t) = 0
  PROVE  Minus(prod_head, cons_tail) = MASK
<1> DEFINE h == head[t]
           p == Plus(MASK, cons_tail)
<1>1. /\ h \in Counter /\ cons_tail \in Counter /\ prod_head \in Counter /\ MASK \in Counter
      /\ prod_tail \in Counter /\ cons_head \in Counter
  BY Sizes DEF PoolInv, Positions, PoolTypeOK, Counter
<1>2. /\ Off(h) <= Off(prod_head) /\ Off(prod_head) <= Off(cons_tail) + MASK
      /\ Off(cons_tail) <= Off(cons_head) /\ Off(cons_tail) <= Off(prod_head)
  BY <1>1, OffFacts DEF PoolInv, Positions, Order, Writers
<1>3. Off(cons_tail) + MASK < Wrap
  <2>1. Cardinality(Pending) >= 1 /\ Cardinality(Pending) \in Nat
    BY PendingFinite DEF Pending
  <2>2. Off(cons_tail) \in Nat /\ Off(cons_head) \in Nat /\ Off(prod_head) \in Nat
    BY <1>1, OffFacts
  <2>3. Off(prod_head) + Off(cons_head) + Cardinality(Pending) <= Len(Pooled) + calls /\ calls \in 0..MaxCalls
    BY DEF PoolInv, Positions, Bounded, PoolTypeOK
  <2> QED
    BY <1>2, <2>1, <2>2, <2>3, Sizes, TwoRings
<1>4. p = h
  <2>1. p = (IF MASK + cons_tail < Wrap THEN MASK + cons_tail ELSE MASK + cons_tail - Wrap) /\ p \in Counter
    BY <1>1, PlusIs
  <2>2. Minus(p, h) = 0
    BY DEF FreeEntries
  <2>3. Minus(p, h) = IF p < h THEN p + Wrap - h ELSE p - h
    BY <1>1, <2>1, MinusIs
  <2>4. p \in Counter /\ h \in Counter
    BY <1>1, <2>1
  <2> HIDE DEF p, h
  <2> QED
    BY <2>2, <2>3, <2>4, Sizes DEF Counter
<1>5. Off(p) = Off(cons_tail) + MASK
  BY <1>1, <1>3, RingFurther
<1>6. Off(prod_head) = Off(cons_tail) + MASK
  BY <1>1, <1>2, <1>4, <1>5, OffFacts
<1>7. Minus(prod_head, cons_tail) = Off(prod_head) - Off(cons_tail)
  BY <1>1, <1>2, OffOfMinus, OffFacts
<1> QED
  BY <1>1, <1>6, <1>7, OffFacts

(* put_raw() destroys an object only at a moment when the ring is full, as *)
(* the comment at the top of the header says.                              *)
THEOREM DiscardsOnlyWhenFull == ASSUME OneGetter PROVE PoolSpec => DestroysOnlyWhenFull
<1> DEFINE Fine == (open' /\ ~(live \subseteq live')) => Minus(prod_head, cons_tail) = MASK
<1>1. PoolInv /\ [PoolNext]_vars => [Fine]_vars
  <2> SUFFICES ASSUME PoolInv, PoolNext, open', ~(live \subseteq live')
               PROVE  Minus(prod_head, cons_tail) = MASK
    OBVIOUS
  <2>1. PICK t \in Threads : LoadConsTail(t) /\ FreeEntries(t) = 0
    BY DEF PoolNext, Put, PutStep, LoadProdHead, LoadConsTail, CasProdHead, StoreSlot, PublishProdTail,
           Get, GetStep, LoadProdTail, LoadConsHead, CasConsHead, LoadSlot, PublishConsTail,
           CasFails, HandOver, Destroy
  <2>2. pc[t] = "put_free"
    BY <2>1 DEF LoadConsTail, Leave, Goto
  <2> QED
    BY <2>1, <2>2, DiscardOnlyWhenFull
<1> QED
  BY <1>1, PoolSafe, PTL DEF PoolSpec, DestroysOnlyWhenFull

(* With every unique_ptr gone, the positions from _cons_head to _prod_tail *)
(* and the objects alive are one to one.                                   *)
LEMMA Balanced == ASSUME PoolInv PROVE AccountsBalance
<1> SUFFICES ASSUME open, \A t \in Threads : pc[t] = "idle" /\ owns[t] = {}
             PROVE  Cardinality(live) = Minus(prod_tail, cons_head)
  BY DEF AccountsBalance
<1> DEFINE c == Off(cons_head)
           n == Off(prod_tail) - Off(cons_head)
<1>1. /\ cons_head \in Counter /\ prod_tail \in Counter /\ c \in Nat /\ n \in Nat
      /\ Off(prod_tail) \in Nat /\ Off(prod_tail) = c + n /\ c + n < Wrap
  BY OffFacts DEF PoolInv, Positions, PoolTypeOK, Order
<1>2. Minus(prod_tail, cons_head) = n
  BY <1>1, OffOfMinus
<1>3. live = {objs[Slot(i)] : i \in Occupied}
  <2>1. \A t \in Threads : Hands(t) = {}
    BY DEF Hands, PoolInv, InHands
  <2> QED
    BY <2>1 DEF PoolInv, NothingLost, Stored
<1>4. \A i : i \in Occupied <=> i \in Counter /\ c <= Off(i) /\ Off(i) < c + n
  <2>1. OccupiedByOffset
    BY OccupiedIs DEF PoolInv
  <2>2. Occupied \subseteq Counter
    BY DEF Occupied, Counter
  <2> HIDE DEF c, n
  <2> QED
    BY <1>1, <2>1, <2>2 DEF OccupiedByOffset, c
<1> HIDE DEF n, c
<1>5. ExistsBijection(1..n, live)
  <2> DEFINE at(k) == Plus(Start, c + k - 1)
             f == [k \in 1..n |-> objs[Slot(at(k))]]
  <2>1. ASSUME NEW k \in 1..n
        PROVE  at(k) \in Occupied /\ Off(at(k)) = c + k - 1
    <3>1. c + k - 1 \in 0..(Wrap - 1) /\ c <= c + k - 1 /\ c + k - 1 < c + n
      BY <1>1, Sizes
    <3>2. at(k) \in Counter /\ Off(at(k)) = c + k - 1
      BY <3>1, FromStart DEF Counter
    <3> HIDE DEF at
    <3> QED
      BY <1>4, <3>1, <3>2
  <2> HIDE DEF at
  <2>2. f \in [1..n -> live]
    BY <1>3, <2>1
  <2>3. ASSUME NEW k \in 1..n, NEW m \in 1..n, f[k] = f[m]
        PROVE  k = m
    <3>1. at(k) = at(m)
      BY <2>1, <2>3 DEF PoolInv, OneOwnerEach
    <3>2. c + k - 1 = c + m - 1
      BY <2>1, <3>1
    <3> QED
      BY <1>1, <3>2
  <2>4. ASSUME NEW o \in live
        PROVE  \E k \in 1..n : f[k] = o
    <3>1. PICK i \in Occupied : o = objs[Slot(i)]
      BY <1>3
    <3>2. i \in Counter /\ c <= Off(i) /\ Off(i) < c + n /\ Off(i) \in Nat
      BY <1>4, OffFacts
    <3> DEFINE k == Off(i) - c + 1
    <3>3. k \in 1..n /\ c + k - 1 = Off(i)
      BY <1>1, <3>2
    <3> HIDE DEF k
    <3>4. at(k) \in Counter /\ Off(at(k)) = Off(i)
      BY <1>4, <2>1, <3>3
    <3>5. at(k) = i
      BY <3>2, <3>4, OffInjective
    <3> QED
      BY <3>1, <3>3, <3>5
  <2> HIDE DEF f
  <2>5. f \in Bijection(1..n, live)
    BY <2>2, <2>3, <2>4 DEF Bijection, Injection, Surjection, IsInjective
  <2> QED
    BY <2>5 DEF ExistsBijection
<1> QED
  BY <1>1, <1>2, <1>5, FS_CountingElements

(* What object_pool_e_t of the tests asserts holds with one getter: size() *)
(* tells how many objects are alive once every unique_ptr is gone.         *)
THEOREM OneGetterBalances == ASSUME OneGetter PROVE PoolSpec => []AccountsBalance
<1>1. PoolInv => AccountsBalance
  BY Balanced
<1> QED
  BY <1>1, PoolSafe, PTL
=============================================================================
