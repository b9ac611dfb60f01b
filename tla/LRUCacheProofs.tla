--------------------------- MODULE LRUCacheProofs ---------------------------
(***************************************************************************)
(* For any capacity, keys, TTLs and batches: the list and the index of the *)
(* cache agree and stay within capacity, the list is in the order of use,  *)
(* the counters account for every entry, and the cache implements the      *)
(* store that its clients see.                                             *)
(***************************************************************************)
EXTENDS LRUCache, TLAPS, FiniteSetTheorems, SequenceTheorems

-----------------------------------------------------------------------------
(* Walks along the list. *)

\* A set of numbers with 0 and the successor of each of its members has all.
LEMMA SetInduction ==
  ASSUME NEW S, 0 \in S, \A n \in Nat : n \in S => n + 1 \in S
  PROVE  \A n \in Nat : n \in S
<1> SUFFICES ASSUME Nat \ S # {} PROVE FALSE
  OBVIOUS
<1> DEFINE R == {p \in Nat \X Nat : p[1] < p[2]}
<1>1. IsWellFoundedOn(R, Nat)
  BY NatLessThanWellFounded DEF OpToRel
<1>2. PICK x \in Nat \ S : \A y \in Nat \ S : ~ (<<y, x>> \in R)
  <2>1. Nat \ S \in SUBSET Nat
    OBVIOUS
  <2> HIDE DEF R
  <2> QED BY <1>1, <2>1, WFMin
<1>3. \A y \in Nat \ S : ~ (y < x)
  BY <1>2
<1>4. x # 0 /\ x - 1 \in Nat /\ x - 1 < x
  BY <1>2
<1>5. x \in S
  BY <1>3, <1>4
<1> QED BY <1>5

\* One turn of the walk: what is kept of the entries before, and the entry e.
Turn(kept, e, D) == IF e \in D THEN kept ELSE Append(kept, e)

\* K[i] is what the walk keeps of the first i entries of l.
Walk(l, D, K) ==
    K = [i \in 0..Len(l) |-> IF i = 0 THEN <<>> ELSE Turn(K[i - 1], l[i], D)]

\* The walk takes its turns one after the other, to the end of the list.
LEMMA WalkExists ==
  ASSUME NEW E, NEW l \in Seq(E), NEW D
  PROVE  \E K : Walk(l, D, K)
<1> DEFINE Runs(n, g) == /\ g[0] = <<>>
                         /\ \A a \in 1..n : g[a] = Turn(g[a - 1], l[a], D)
           S == {n \in Nat : \E g : g = [a \in 0..n |-> g[a]] /\ Runs(n, g)}
<1>0. Len(l) \in Nat
  OBVIOUS
<1>1. 0 \in S
  <2> DEFINE g == [a \in 0..0 |-> <<>>]
  <2>1. g = [a \in 0..0 |-> g[a]] /\ Runs(0, g)
    OBVIOUS
  <2> HIDE DEF g, Runs
  <2> QED BY <2>1
<1>2. ASSUME NEW n \in Nat, n \in S PROVE n + 1 \in S
  <2>1. PICK g : g = [a \in 0..n |-> g[a]] /\ Runs(n, g)
    BY <1>2
  <2>2. PICK next : next = Turn(g[n], l[n + 1], D)
    OBVIOUS
  <2> DEFINE f == [a \in 0..(n + 1) |-> IF a = n + 1 THEN next ELSE g[a]]
  <2>3. f = [a \in 0..(n + 1) |-> f[a]]
    OBVIOUS
  <2>4. f[0] = <<>> /\ f[n + 1] = next /\ \A a \in 0..n : f[a] = g[a]
    BY <2>1
  <2>5. ASSUME NEW a \in 1..(n + 1) PROVE f[a] = Turn(f[a - 1], l[a], D)
    <3> HIDE DEF f
    <3>1. CASE a = n + 1
      <4>1. f[a - 1] = g[n]
        BY <2>4, <3>1
      <4> QED BY <2>2, <2>4, <3>1, <4>1
    <3>2. CASE a \in 1..n
      <4>1. a \in 0..n /\ a - 1 \in 0..n
        BY <3>2
      <4>2. f[a] = g[a] /\ f[a - 1] = g[a - 1]
        BY <2>4, <4>1
      <4>3. g[a] = Turn(g[a - 1], l[a], D)
        BY <2>1, <3>2
      <4> QED BY <4>2, <4>3
    <3> QED BY <3>1, <3>2
  <2>6. Runs(n + 1, f)
    <3> HIDE DEF f
    <3> QED BY <2>4, <2>5
  <2> HIDE DEF f, Runs
  <2> QED BY <2>3, <2>6
<1>3. Len(l) \in S
  <2> HIDE DEF S
  <2> QED BY <1>0, <1>1, <1>2, SetInduction
<1>4. PICK K : K = [a \in 0..Len(l) |-> K[a]] /\ Runs(Len(l), K)
  BY <1>3
<1>5. \A i \in 0..Len(l) : K[i] = IF i = 0 THEN <<>> ELSE Turn(K[i - 1], l[i], D)
  <2> TAKE i \in 0..Len(l)
  <2>1. CASE i = 0
    BY <1>4, <2>1
  <2>2. CASE i # 0
    <3>1. i \in 1..Len(l)
      BY <1>0, <2>2
    <3>2. K[i] = Turn(K[i - 1], l[i], D)
      BY <1>4, <3>1
    <3> QED BY <2>2, <3>2
  <2> QED BY <2>1, <2>2
<1>6. Walk(l, D, K)
  BY <1>4, <1>5 DEF Walk
<1> QED BY <1>6

(***************************************************************************)
(* r has, in their order, the entries among the first n of l that are not  *)
(* in D.                                                                   *)
(***************************************************************************)
Keeps(r, l, D, n) ==
    /\ \A i, j \in 1..Len(r) : i < j =>
          \E a, b \in 1..n : a < b /\ r[i] = l[a] /\ r[j] = l[b]
    /\ \A i \in 1..Len(r) : \E a \in 1..n : r[i] = l[a] /\ l[a] \notin D
    /\ \A a \in 1..n : l[a] \notin D => \E i \in 1..Len(r) : r[i] = l[a]

\* What one turn of the walk does to what was kept so far.
LEMMA TurnKeeps ==
  ASSUME NEW E, NEW l \in Seq(E), NEW D, NEW n \in Nat, n + 1 <= Len(l),
         NEW r \in Seq(E), Keeps(r, l, D, n)
  PROVE  /\ Turn(r, l[n + 1], D) \in Seq(E)
         /\ Keeps(Turn(r, l[n + 1], D), l, D, n + 1)
<1>0. PICK e \in E : e = l[n + 1]
  OBVIOUS
<1>a. \A a \in 1..n : a \in 1..(n + 1) /\ a < n + 1
  OBVIOUS
<1>b. n + 1 \in 1..(n + 1)
  OBVIOUS
<1>c. \A a \in 1..(n + 1) : a \in 1..n \/ a = n + 1
  OBVIOUS
<1>1. CASE e \in D
  <2>1. Turn(r, e, D) = r
    BY <1>1 DEF Turn
  <2>2. Keeps(r, l, D, n + 1)
    BY <1>0, <1>1, <1>a, <1>c DEF Keeps
  <2> QED BY <1>0, <2>1, <2>2
<1>2. CASE e \notin D
  <2>1. PICK s : s = Append(r, e)
    OBVIOUS
  <2>2. /\ s \in Seq(E)
        /\ Len(s) = Len(r) + 1
        /\ \A i \in 1..Len(r) : s[i] = r[i]
        /\ s[Len(r) + 1] = e
    BY <2>1
  <2>3. Len(r) \in Nat
    OBVIOUS
  <2>4. \A i \in 1..Len(s) : i \in 1..Len(r) \/ i = Len(s)
    BY <2>2, <2>3
  <2>5. \A i, j \in 1..Len(s) : i < j => i \in 1..Len(r)
    BY <2>2, <2>3
  <2>6. \A i \in 1..Len(r) : i \in 1..Len(s)
    BY <2>2, <2>3
  <2>7. s[Len(s)] = e /\ Len(s) \in 1..Len(s)
    BY <2>2, <2>3
  <2>8. ASSUME NEW i \in 1..Len(s), NEW j \in 1..Len(s), i < j
        PROVE  \E a, b \in 1..(n + 1) : a < b /\ s[i] = l[a] /\ s[j] = l[b]
    <3>0. i \in 1..Len(r) /\ s[i] = r[i]
      BY <2>2, <2>5, <2>8
    <3>1. CASE j \in 1..Len(r)
      <4>1. PICK a \in 1..n, b \in 1..n : a < b /\ r[i] = l[a] /\ r[j] = l[b]
        BY <2>8, <3>0, <3>1 DEF Keeps
      <4> QED BY <1>a, <2>2, <3>0, <3>1, <4>1
    <3>2. CASE j = Len(s)
      <4>1. PICK a \in 1..n : r[i] = l[a]
        BY <3>0 DEF Keeps
      <4> QED BY <1>0, <1>a, <1>b, <2>7, <3>0, <3>2, <4>1
    <3> QED BY <2>4, <3>1, <3>2
  <2>9. ASSUME NEW i \in 1..Len(s)
        PROVE  \E a \in 1..(n + 1) : s[i] = l[a] /\ l[a] \notin D
    <3>1. CASE i \in 1..Len(r)
      BY <1>a, <2>2, <3>1 DEF Keeps
    <3>2. CASE i = Len(s)
      BY <1>0, <1>2, <1>b, <2>7, <3>2
    <3> QED BY <2>4, <3>1, <3>2
  <2>10. ASSUME NEW a \in 1..(n + 1), l[a] \notin D
         PROVE  \E i \in 1..Len(s) : s[i] = l[a]
    <3>1. CASE a \in 1..n
      <4>1. PICK i \in 1..Len(r) : r[i] = l[a]
        BY <2>10, <3>1 DEF Keeps
      <4> QED BY <2>2, <2>6, <4>1
    <3>2. CASE a = n + 1
      BY <1>0, <2>7, <3>2
    <3> QED BY <1>c, <3>1, <3>2
  <2>11. Keeps(s, l, D, n + 1)
    BY <2>8, <2>9, <2>10 DEF Keeps
  <2> QED BY <1>0, <1>2, <2>1, <2>2, <2>11 DEF Turn
<1> QED BY <1>1, <1>2

\* The walk keeps every entry that it does not detach, in its place.
LEMMA WithoutKeeps ==
  ASSUME NEW E, NEW l \in Seq(E), NEW D
  PROVE  Without(l, D) \in Seq(E) /\ Keeps(Without(l, D), l, D, Len(l))
<1>1. Without(l, D) = (CHOOSE K : Walk(l, D, K))[Len(l)]
  BY DEF Without, Walk, Turn
<1>2. PICK K : Walk(l, D, K) /\ Without(l, D) = K[Len(l)]
  BY <1>1, WalkExists
<1>0. Len(l) \in Nat
  OBVIOUS
<1>3. K[0] = <<>>
  BY <1>0, <1>2 DEF Walk
<1>4. ASSUME NEW i \in Nat, i + 1 <= Len(l) PROVE K[i + 1] = Turn(K[i], l[i + 1], D)
  <2>1. PICK j : j = i + 1
    OBVIOUS
  <2>2. j \in 0..Len(l) /\ j # 0 /\ j - 1 = i
    BY <1>0, <1>4, <2>1
  <2>3. K[j] = Turn(K[j - 1], l[j], D)
    BY <1>2, <2>2 DEF Walk
  <2> QED BY <2>1, <2>2, <2>3
<1> DEFINE S == {i \in Nat : i <= Len(l) => K[i] \in Seq(E) /\ Keeps(K[i], l, D, i)}
<1>5. 0 \in S
  <2>1. <<>> \in Seq(E) /\ Len(<<>>) = 0
    OBVIOUS
  <2>2. Keeps(<<>>, l, D, 0)
    BY <2>1 DEF Keeps
  <2> QED BY <1>3, <2>1, <2>2
<1>6. ASSUME NEW i \in Nat, i \in S PROVE i + 1 \in S
  <2> SUFFICES ASSUME i + 1 <= Len(l)
               PROVE  K[i + 1] \in Seq(E) /\ Keeps(K[i + 1], l, D, i + 1)
    OBVIOUS
  <2>1. K[i] \in Seq(E) /\ Keeps(K[i], l, D, i)
    BY <1>0, <1>6
  <2>2. PICK r \in Seq(E) : r = K[i]
    BY <2>1
  <2>3. Turn(r, l[i + 1], D) \in Seq(E) /\ Keeps(Turn(r, l[i + 1], D), l, D, i + 1)
    BY <2>1, <2>2, TurnKeeps
  <2> QED BY <1>4, <2>2, <2>3
<1>7. Len(l) \in S
  <2> HIDE DEF S
  <2> QED BY <1>0, <1>5, <1>6, SetInduction
<1> QED BY <1>0, <1>2, <1>7
-----------------------------------------------------------------------------
(* Lists of entries, each key once, and what the operations make of them. *)

\* The times that an entry may have left.
Lives == {NoExpiry} \cup UNION {0..(EffectiveTTL(t) * TicksPerSecond) : t \in GivenTTLs}

Entry == [key : Key, value : Value, left : Lives]

\* A list in which no key is twice.
Proper(l) ==
    /\ l \in Seq(Entry)
    /\ \A i, j \in 1..Len(l) : i < j => l[i].key # l[j].key

\* The list is in the order of R.
InOrder(l, R) == \A i, j \in 1..Len(l) : i < j => <<l[i].key, l[j].key>> \in R

\* r is the list l less the entries D, in the order of l.
Less(r, l, D) ==
    /\ r \in Seq(Entry)
    /\ Range(r) = Range(l) \ D
    /\ \A i, j \in 1..Len(r) : i < j =>
          \E a, b \in 1..Len(l) : a < b /\ r[i] = l[a] /\ r[j] = l[b]

\* Range and keys of a list.
LEMMA RangeOfList ==
  ASSUME NEW l \in Seq(Entry)
  PROVE  /\ \A e : e \in Range(l) <=> \E i \in 1..Len(l) : l[i] = e
         /\ \A k : k \in Keys(l) <=> \E e \in Range(l) : e.key = k
         /\ Range(l) \subseteq Entry
         /\ Keys(l) \subseteq Key
         /\ DOMAIN l = 1..Len(l)
<1>1. DOMAIN l = 1..Len(l) /\ \A i \in 1..Len(l) : l[i] \in Entry
  OBVIOUS
<1>2. \A e : e \in Range(l) <=> \E i \in 1..Len(l) : l[i] = e
  BY <1>1 DEF Range
<1>3. \A k : k \in Keys(l) <=> \E e \in Range(l) : e.key = k
  BY <1>1, <1>2 DEF Keys
<1>4. Range(l) \subseteq Entry
  BY <1>1, <1>2
<1>5. Keys(l) \subseteq Key
  BY <1>3, <1>4 DEF Entry
<1> QED BY <1>1, <1>2, <1>3, <1>4, <1>5

\* In a proper list the key tells which entry it is.
LEMMA KeyIdentifies ==
  ASSUME NEW l, Proper(l), NEW d \in Range(l), NEW e \in Range(l), d.key = e.key
  PROVE  d = e
<1>1. l \in Seq(Entry)
  BY DEF Proper
<1>2. PICK i \in 1..Len(l), j \in 1..Len(l) : l[i] = d /\ l[j] = e
  BY <1>1, RangeOfList
<1>3. ~ (i < j) /\ ~ (j < i)
  BY <1>2 DEF Proper
<1>4. i = j
  BY <1>3
<1> QED BY <1>2, <1>4

\* Taking entries out of a proper list leaves it proper and in its order.
LEMMA LessIsProper ==
  ASSUME NEW l, Proper(l), NEW r, NEW D, Less(r, l, D), NEW R
  PROVE  /\ Proper(r)
         /\ InOrder(l, R) => InOrder(r, R)
         /\ D \subseteq Range(l) => Keys(r) = Keys(l) \ {e.key : e \in D}
<1>0. l \in Seq(Entry) /\ r \in Seq(Entry)
  BY DEF Proper, Less
<1>1. Proper(r)
  BY <1>0 DEF Proper, Less
<1>2. InOrder(l, R) => InOrder(r, R)
  BY DEF InOrder, Less
<1>3. ASSUME D \subseteq Range(l) PROVE Keys(r) = Keys(l) \ {e.key : e \in D}
  <2>1. ASSUME NEW k \in Keys(r) PROVE k \in Keys(l) /\ k \notin {e.key : e \in D}
    <3>1. PICK e \in Range(r) : e.key = k
      BY <1>0, <2>1, RangeOfList
    <3>2. e \in Range(l) /\ e \notin D
      BY <3>1 DEF Less
    <3>3. k \in Keys(l)
      BY <1>0, <3>1, <3>2, RangeOfList
    <3>4. \A d \in D : d.key # k
      BY <1>3, <3>1, <3>2, KeyIdentifies
    <3> QED BY <3>3, <3>4
  <2>2. ASSUME NEW k \in Keys(l), k \notin {e.key : e \in D} PROVE k \in Keys(r)
    <3>1. PICK e \in Range(l) : e.key = k
      BY <1>0, <2>2, RangeOfList
    <3>2. e \in Range(r)
      BY <2>2, <3>1 DEF Less
    <3> QED BY <1>0, <3>1, <3>2, RangeOfList
  <2> QED BY <2>1, <2>2
<1> QED BY <1>1, <1>2, <1>3

\* The walk takes out just what it is told to.
LEMMA WithoutIsLess ==
  ASSUME NEW l \in Seq(Entry), NEW D
  PROVE  Less(Without(l, D), l, D)
<1>1. PICK r \in Seq(Entry) : r = Without(l, D) /\ Keeps(r, l, D, Len(l))
  BY WithoutKeeps
<1>2. ASSUME NEW e \in Range(r) PROVE e \in Range(l) \ D
  <2>1. PICK i \in 1..Len(r) : r[i] = e
    BY RangeOfList
  <2>2. PICK a \in 1..Len(l) : r[i] = l[a] /\ l[a] \notin D
    BY <1>1 DEF Keeps
  <2>3. l[a] \in Range(l)
    BY RangeOfList
  <2> QED BY <2>1, <2>2, <2>3
<1>3. \A e \in Range(l) \ D : e \in Range(r)
  BY <1>1, RangeOfList DEF Keeps
<1>4. Range(r) = Range(l) \ D
  BY <1>2, <1>3
<1> QED BY <1>1, <1>4 DEF Less, Keeps

\* Detaching the node of a key takes that key off the list.
LEMMA DetachedIsLess ==
  ASSUME NEW l, Proper(l), NEW k
  PROVE  /\ Less(Detached(l, k), l, {e \in Range(l) : e.key = k})
         /\ Keys(Detached(l, k)) = Keys(l) \ {k}
<1>0. l \in Seq(Entry)
  BY DEF Proper
<1>1. Less(Detached(l, k), l, {e \in Range(l) : e.key = k})
  BY <1>0, WithoutIsLess DEF Detached
<1>2. PICK r : r = Detached(l, k)
  OBVIOUS
<1>3. r \in Seq(Entry) /\ Range(r) = Range(l) \ {e \in Range(l) : e.key = k}
  BY <1>1, <1>2 DEF Less
<1>4. Keys(r) = Keys(l) \ {k}
  <2>1. \A j : j \in Keys(r) => j \in Keys(l) \ {k}
    BY <1>0, <1>3, RangeOfList
  <2>2. \A j : j \in Keys(l) \ {k} => j \in Keys(r)
    BY <1>0, <1>3, RangeOfList
  <2> QED BY <2>1, <2>2
<1> QED BY <1>1, <1>2, <1>4

\* What is left is in order.
LEMMA DetachedIsProper ==
  ASSUME NEW l, Proper(l), NEW k, NEW R
  PROVE  /\ Proper(Detached(l, k))
         /\ InOrder(l, R) => InOrder(Detached(l, k), R)
<1>1. PICK D : D = {e \in Range(l) : e.key = k}
  OBVIOUS
<1>2. PICK r : r = Detached(l, k)
  OBVIOUS
<1>3. Less(r, l, D)
  BY <1>1, <1>2, DetachedIsLess
<1> QED BY <1>2, <1>3, LessIsProper

\* evict_lru takes the last entry.
LEMMA UpToLastIsLess ==
  ASSUME NEW l, Proper(l), Len(l) > 0
  PROVE  /\ Less(UpToLast(l), l, {l[Len(l)]})
         /\ l[Len(l)] \in Range(l)
<1>0. l \in Seq(Entry) /\ Len(l) \in Nat
  BY DEF Proper
<1>1. PICK n \in Nat : Len(l) = n + 1
  BY <1>0, Len(l) - 1 \in Nat
<1>2. PICK r : r = UpToLast(l)
  OBVIOUS
<1>3. r \in Seq(Entry) /\ Len(r) = n /\ \A i \in 1..n : r[i] = l[i]
  BY <1>0, <1>1, <1>2 DEF UpToLast
<1>4. l[n + 1] \in Range(l)
  BY <1>0, <1>1, RangeOfList
<1>5. \A i \in 1..n : i \in 1..Len(l) /\ i < n + 1
  BY <1>1
<1>6. \A i \in 1..Len(l) : i \in 1..n \/ i = n + 1
  BY <1>1
<1>7. n + 1 \in 1..Len(l)
  BY <1>1
<1>8. ASSUME NEW e \in Range(r) PROVE e \in Range(l) \ {l[n + 1]}
  <2>1. PICK i \in 1..n : l[i] = e
    BY <1>3, RangeOfList
  <2>2. e \in Range(l)
    BY <1>0, <1>5, <2>1, RangeOfList
  <2>3. e.key # l[n + 1].key
    BY <1>5, <1>7, <2>1 DEF Proper
  <2> QED BY <2>2, <2>3
<1>9. ASSUME NEW e \in Range(l) \ {l[n + 1]} PROVE e \in Range(r)
  <2>1. PICK i \in 1..Len(l) : l[i] = e
    BY <1>0, RangeOfList
  <2>2. i \in 1..n
    BY <1>6, <2>1
  <2> QED BY <1>3, <2>1, <2>2, RangeOfList
<1>10. Range(r) = Range(l) \ {l[n + 1]}
  BY <1>8, <1>9
<1>11. \A i, j \in 1..Len(r) : i < j =>
          \E a, b \in 1..Len(l) : a < b /\ r[i] = l[a] /\ r[j] = l[b]
  BY <1>3, <1>5
<1> QED BY <1>1, <1>2, <1>3, <1>4, <1>10, <1>11 DEF Less

\* A new entry at the front of a list that does not have its key.
LEMMA AttachFrontKeepsProper ==
  ASSUME NEW l, Proper(l), NEW e \in Entry, e.key \notin Keys(l), NEW R
  PROVE  /\ Proper(AttachFront(e, l))
         /\ Range(AttachFront(e, l)) = Range(l) \cup {e}
         /\ Keys(AttachFront(e, l)) = Keys(l) \cup {e.key}
         /\ InOrder(l, R) /\ (\A k \in Keys(l) : <<e.key, k>> \in R)
               => InOrder(AttachFront(e, l), R)
<1>0. l \in Seq(Entry) /\ Len(l) \in Nat
  BY DEF Proper
<1>1. PICK r : r = AttachFront(e, l)
  OBVIOUS
<1>2. /\ r \in Seq(Entry)
      /\ Len(r) = Len(l) + 1
      /\ r[1] = e
      /\ \A i \in 1..Len(l) : r[i + 1] = l[i]
  BY <1>0, <1>1 DEF AttachFront
<1>3. \A i \in 1..Len(r) : i = 1 \/ (i - 1 \in 1..Len(l) /\ r[i] = l[i - 1])
  <2> TAKE i \in 1..Len(r)
  <2>1. CASE i = 1
    BY <2>1
  <2>2. CASE i # 1
    <3>1. PICK j \in 1..Len(l) : i = j + 1 /\ j = i - 1
      BY <1>0, <1>2, <2>2
    <3> QED BY <1>2, <3>1
  <2> QED BY <2>1, <2>2
<1>4. \A i \in 1..Len(l) : l[i] \in Range(l) /\ l[i].key \in Keys(l)
  BY <1>0, RangeOfList
<1>5. \A i \in 1..Len(l) : i + 1 \in 1..Len(r)
  BY <1>0, <1>2
<1>6. 1 \in 1..Len(r)
  BY <1>0, <1>2
<1>7. \A x : x \in Range(r) <=> x \in Range(l) \cup {e}
  <2>1. ASSUME NEW x \in Range(r) PROVE x \in Range(l) \cup {e}
    BY <1>2, <1>3, <1>4, RangeOfList
  <2>2. ASSUME NEW x \in Range(l) PROVE x \in Range(r)
    <3>1. PICK i \in 1..Len(l) : l[i] = x
      BY <1>0, RangeOfList
    <3>2. r[i + 1] = x /\ i + 1 \in 1..Len(r)
      BY <1>2, <1>5, <3>1
    <3> QED BY <1>2, <3>2, RangeOfList
  <2>3. e \in Range(r)
    BY <1>2, <1>6, RangeOfList
  <2> QED BY <2>1, <2>2, <2>3
<1>8. Range(r) = Range(l) \cup {e}
  BY <1>7
<1>9. Keys(r) = Keys(l) \cup {e.key}
  <2>1. \A k : k \in Keys(r) <=> k \in Keys(l) \cup {e.key}
    BY <1>0, <1>2, <1>8, RangeOfList
  <2> QED BY <2>1
<1>10. ASSUME NEW i \in 1..Len(r), NEW j \in 1..Len(r), i < j
       PROVE  /\ r[i].key # r[j].key
              /\ InOrder(l, R) /\ (\A k \in Keys(l) : <<e.key, k>> \in R)
                    => <<r[i].key, r[j].key>> \in R
  <2>1. j # 1 /\ j - 1 \in 1..Len(l) /\ r[j] = l[j - 1]
    BY <1>0, <1>2, <1>3, <1>10
  <2>2. CASE i = 1
    BY <1>2, <1>4, <2>1, <2>2
  <2>3. CASE i # 1
    <3>1. i - 1 \in 1..Len(l) /\ r[i] = l[i - 1] /\ i - 1 < j - 1
      BY <1>0, <1>2, <1>3, <1>10, <2>3
    <3> QED BY <2>1, <3>1 DEF Proper, InOrder
  <2> QED BY <2>2, <2>3
<1>11. Proper(r)
  BY <1>2, <1>10 DEF Proper
<1>12. InOrder(l, R) /\ (\A k \in Keys(l) : <<e.key, k>> \in R) => InOrder(r, R)
  BY <1>10 DEF InOrder
<1> QED BY <1>1, <1>8, <1>9, <1>11, <1>12

\* A proper list is as long as it has entries, and as it has keys.
LEMMA LengthOfProper ==
  ASSUME NEW l, Proper(l)
  PROVE  /\ IsFiniteSet(Range(l)) /\ Cardinality(Range(l)) = Len(l)
         /\ IsFiniteSet(Keys(l)) /\ Cardinality(Keys(l)) = Len(l)
<1>0. l \in Seq(Entry) /\ Len(l) \in Nat
  BY DEF Proper
<1>1. PICK n \in Nat : n = Len(l)
  BY <1>0
<1>2. PICK K : K = Keys(l)
  OBVIOUS
<1>3. PICK E : E = Range(l)
  OBVIOUS
<1>4. \A i \in 1..n : l[i].key \in K /\ l[i] \in E
  BY <1>0, <1>1, <1>2, <1>3, RangeOfList
<1>5. \A k \in K : \E i \in 1..n : l[i].key = k
  BY <1>0, <1>1, <1>2, RangeOfList
<1>6. \A e \in E : \E i \in 1..n : l[i] = e
  BY <1>0, <1>1, <1>3, RangeOfList
<1>7. \A i, j \in 1..n : l[i].key = l[j].key => i = j
  <2> SUFFICES ASSUME NEW i \in 1..n, NEW j \in 1..n, l[i].key = l[j].key PROVE i = j
    OBVIOUS
  <2>1. ~ (i < j) /\ ~ (j < i)
    BY <1>1 DEF Proper
  <2> QED BY <2>1
<1>8. IsFiniteSet(1..n) /\ Cardinality(1..n) = n
  BY FS_Interval
<1> DEFINE f == [i \in 1..n |-> l[i].key]
           g == [i \in 1..n |-> l[i]]
<1>9. ExistsBijection(1..n, K)
  <2>1. f \in Bijection(1..n, K)
    BY <1>4, <1>5, <1>7 DEF Bijection, Injection, Surjection, IsInjective
  <2> HIDE DEF f
  <2> QED BY <2>1 DEF ExistsBijection
<1>10. ExistsBijection(1..n, E)
  <2>1. g \in Bijection(1..n, E)
    BY <1>4, <1>6, <1>7 DEF Bijection, Injection, Surjection, IsInjective
  <2> HIDE DEF g
  <2> QED BY <2>1 DEF ExistsBijection
<1>11. PICK I : I = 1..n
  OBVIOUS
<1>12. IsFiniteSet(K) /\ Cardinality(K) = n
  BY <1>8, <1>9, <1>11, FS_Bijection
<1>13. IsFiniteSet(E) /\ Cardinality(E) = n
  BY <1>8, <1>10, <1>11, FS_Bijection
<1> QED BY <1>1, <1>2, <1>3, <1>12, <1>13
-----------------------------------------------------------------------------
(* The invariant. *)

Counters == [evictions : Nat, expirations : Nat, total_puts : Nat, total_dels : Nat]

Inv ==
    /\ Proper(list)
    /\ map_ = Keys(list)
    /\ Len(list) <= capacity
    /\ InOrder(list, newer)
    /\ newer \in SUBSET (Key \X Key)
    /\ metrics \in Counters
    /\ Accounting
    /\ pending \in Seq([key : Key, value : Value, ttl : GivenTTLs])

\* The invariant gives what the run checks.
LEMMA InvGives == Inv => TypeOK /\ MapMatchesList /\ ListInOrderOfUse /\ Accounting
<1> SUFFICES ASSUME Inv PROVE TypeOK /\ MapMatchesList /\ ListInOrderOfUse /\ Accounting
  OBVIOUS
<1>1. list \in Seq(Entry) /\ DOMAIN list = 1..Len(list)
  BY DEF Inv, Proper
<1>2. \A i \in DOMAIN list : list[i] \in Entry
  BY <1>1
<1>3. \A x \in Lives : \/ x = NoExpiry
                       \/ \E t \in GivenTTLs : x \in 0..(EffectiveTTL(t) * TicksPerSecond)
  BY DEF Lives
<1>4. \A i \in DOMAIN list :
         list[i].key \in Key /\ list[i].value \in Value /\ list[i].left \in Lives
  BY <1>2 DEF Entry
<1>5. map_ \subseteq Key
  BY <1>1, RangeOfList DEF Inv
<1>6. \A c \in DOMAIN metrics : metrics[c] \in Nat
  BY DEF Inv, Counters
<1>7. TypeOK
  BY <1>3, <1>4, <1>5, <1>6 DEF Inv, TypeOK
<1>8. MapMatchesList
  BY LengthOfProper DEF Inv, MapMatchesList
<1>9. ListInOrderOfUse
  BY <1>1 DEF Inv, InOrder, ListInOrderOfUse
<1> QED BY <1>7, <1>8, <1>9 DEF Inv

\* TTLs are numbers, and the TTLs of batches are among those given.
LEMMA TTLsAreNumbers ==
  /\ GivenTTLs \subseteq Nat
  /\ TTL \subseteq GivenTTLs
  /\ Batches \subseteq Seq([key : Key, value : Value, ttl : GivenTTLs])
<1>a. PICK S : S = [key : Key, value : Value, ttl : Nat]
  OBVIOUS
<1>b. PICK T : T = [key : Key, value : Value, ttl : GivenTTLs]
  OBVIOUS
<1>c. ASSUME NEW b \in Batches
      PROVE  /\ b \in [1..Len(b) -> S] /\ Len(b) \in Nat
             /\ DOMAIN b = 1..Len(b) /\ \A i \in 1..Len(b) : b[i] \in S
  <2>1. b \in Seq(S)
    BY <1>a, CacheAssumption
  <2> QED BY <2>1
<1>1. ASSUME NEW b \in Batches PROVE b \in Seq(T)
  <2>1. \A i \in 1..Len(b) : b[i] \in S /\ b[i].ttl \in GivenTTLs
    BY <1>c DEF GivenTTLs
  <2>2. \A i \in 1..Len(b) : b[i] \in T
    BY <1>a, <1>b, <2>1
  <2>3. b \in [1..Len(b) -> T] /\ Len(b) \in Nat
    BY <1>c, <2>2
  <2> QED BY <2>3
<1>2. ASSUME NEW b \in Batches, NEW i \in DOMAIN b PROVE b[i].ttl \in Nat
  BY <1>a, <1>c
<1>3. GivenTTLs \subseteq Nat
  BY <1>2, CacheAssumption DEF GivenTTLs
<1> QED BY <1>1, <1>3, <1>b DEF GivenTTLs

\* What the numbers of an entry may be.
LEMMA LivesOf ==
  ASSUME NEW t \in GivenTTLs
  PROVE  /\ EffectiveTTL(t) * TicksPerSecond \in Nat
         /\ Expiry(t) \in Lives
         /\ Expiry(t) # 0
<1>1. EffectiveTTL(t) \in Nat
  BY TTLsAreNumbers, CacheAssumption DEF EffectiveTTL
<1>2. PICK m \in Nat, s \in Nat \ {0} : m = EffectiveTTL(t) /\ s = TicksPerSecond
  BY <1>1, CacheAssumption
<1>3. m * s \in Nat
  BY <1>2
<1>4. m > 0 => m * s > 0
  BY <1>2
<1>5. m * s \in 0..(m * s)
  BY <1>3
<1>6. m * s \in Lives
  BY <1>2, <1>5 DEF Lives
<1>7. Expiry(t) = IF m > 0 THEN m * s ELSE NoExpiry
  BY <1>2 DEF Expiry
<1>8. Expiry(t) \in Lives
  BY <1>6, <1>7 DEF Lives
<1>9. Expiry(t) # 0
  BY <1>3, <1>4, <1>7 DEF NoExpiry
<1> QED BY <1>2, <1>3, <1>8, <1>9

\* A time that is left to an entry is NoExpiry or a number, and one tick less
\* of it is a time that may be left.
LEMMA TicksOff ==
  ASSUME NEW x \in Lives
  PROVE  /\ x = NoExpiry \/ x \in Nat
         /\ x > 0 => x - 1 \in Lives
<1>1. CASE x = NoExpiry
  BY <1>1 DEF NoExpiry
<1>2. CASE x # NoExpiry
  <2>1. PICK t \in GivenTTLs : x \in 0..(EffectiveTTL(t) * TicksPerSecond)
    BY <1>2 DEF Lives
  <2>2. PICK m \in Nat : m = EffectiveTTL(t) * TicksPerSecond
    BY LivesOf
  <2>3. x \in Nat /\ (x > 0 => x - 1 \in 0..m)
    BY <2>1, <2>2
  <2>4. \A y \in 0..m : y \in Lives
    BY <2>2 DEF Lives
  <2> QED BY <2>3, <2>4
<1> QED BY <1>1, <1>2

\* The entry that put writes.
LEMMA NewEntryType ==
  ASSUME NEW k \in Key, NEW v \in Value, NEW t \in GivenTTLs
  PROVE  NewEntry(k, v, t) \in Entry /\ NewEntry(k, v, t).key = k
BY LivesOf DEF NewEntry, Entry

\* The index points at the entry of its key.
LEMMA EntryOfKey ==
  ASSUME Inv
  PROVE  /\ \A k \in map_ : EntryOf(k) \in Range(list) /\ EntryOf(k).key = k
         /\ \A e \in Range(list) : e.key \in map_ /\ EntryOf(e.key) = e
<1>0. list \in Seq(Entry) /\ map_ = Keys(list) /\ Proper(list)
  BY DEF Inv, Proper
<1>1. ASSUME NEW k \in map_ PROVE EntryOf(k) \in Range(list) /\ EntryOf(k).key = k
  <2>1. \E e \in Range(list) : e.key = k
    BY <1>0, RangeOfList
  <2> QED BY <2>1 DEF EntryOf
<1>2. ASSUME NEW e \in Range(list) PROVE e.key \in map_ /\ EntryOf(e.key) = e
  <2>1. e.key \in map_
    BY <1>0, RangeOfList
  <2>2. EntryOf(e.key) \in Range(list) /\ EntryOf(e.key).key = e.key
    BY <1>1, <2>1
  <2> QED BY <1>0, <2>1, <2>2, KeyIdentifies
<1> QED BY <1>1, <1>2
-----------------------------------------------------------------------------
(* Every step keeps the invariant. *)

\* Entries go, each counted once: lazy expiry, purge and deletion.
LEMMA RemovalKeepsInv ==
  ASSUME Inv, NEW D, D \subseteq Range(list), Less(list', list, D),
         map_' = map_ \ {e.key : e \in D}, newer' = newer, pending' = pending,
         metrics' \in Counters, metrics'.total_puts = metrics.total_puts,
         metrics'.evictions + metrics'.expirations + metrics'.total_dels =
            metrics.evictions + metrics.expirations + metrics.total_dels + Cardinality(D)
  PROVE  Inv'
<1>0. Proper(list) /\ list \in Seq(Entry) /\ Len(list) \in Nat
  BY DEF Inv, Proper
<1>1. /\ Proper(list') /\ InOrder(list', newer)
      /\ Keys(list') = Keys(list) \ {e.key : e \in D}
  BY <1>0, LessIsProper DEF Inv
<1>2. Range(list') = Range(list) \ D
  BY DEF Less
<1>3. IsFiniteSet(Range(list)) /\ Cardinality(Range(list)) = Len(list)
  BY <1>0, LengthOfProper
<1>4. Cardinality(Range(list')) = Len(list') /\ Len(list') \in Nat
  BY <1>1, LengthOfProper DEF Proper
<1>5. PICK R : R = Range(list)
  OBVIOUS
<1>6. R \cap D = D /\ D \in SUBSET R
  BY <1>5
<1>7. Cardinality(R \ D) = Cardinality(R) - Cardinality(D)
  <2>1. IsFiniteSet(R)
    BY <1>3, <1>5
  <2>2. Cardinality(R \ D) = Cardinality(R) - Cardinality(R \cap D)
    BY <2>1, FS_Difference
  <2> QED BY <1>6, <2>2
<1>8. Cardinality(D) \in Nat
  BY <1>3, <1>5, <1>6, FS_Subset, FS_CardinalityType
<1>9. Len(list') = Len(list) - Cardinality(D)
  BY <1>2, <1>3, <1>4, <1>5, <1>7
<1>10. metrics \in Counters /\ Accounting /\ Len(list) <= capacity
  BY DEF Inv
<1>11. Accounting' /\ Len(list') <= capacity
  <2>1. /\ metrics.evictions \in Nat /\ metrics.expirations \in Nat
        /\ metrics.total_dels \in Nat /\ metrics.total_puts \in Nat
        /\ metrics'.evictions \in Nat /\ metrics'.expirations \in Nat
        /\ metrics'.total_dels \in Nat
    BY <1>10 DEF Counters
  <2>2. capacity \in Nat
    BY CacheAssumption
  <2>3. Len(list) + (metrics.evictions + metrics.expirations + metrics.total_dels)
           <= metrics.total_puts
    BY <1>0, <1>10, <2>1 DEF Accounting
  <2>4. Len(list') + (metrics'.evictions + metrics'.expirations + metrics'.total_dels)
           <= metrics'.total_puts
    BY <1>0, <1>8, <1>9, <2>1, <2>3
  <2>5. Accounting'
    BY <1>4, <2>1, <2>4 DEF Accounting
  <2> QED BY <1>0, <1>4, <1>8, <1>9, <1>10, <2>2, <2>5
<1> QED BY <1>1, <1>11 DEF Inv

\* An entry goes to the front of the list and its key has been used.
LEMMA FrontedList ==
  ASSUME Inv, NEW r, Proper(r), InOrder(r, newer), NEW e \in Entry, NEW k \in Key,
         e.key = k, k \notin Keys(r), list' = AttachFront(e, r), Touch(k)
  PROVE  /\ Proper(list') /\ InOrder(list', newer')
         /\ newer' \in SUBSET (Key \X Key)
         /\ Keys(list') = Keys(r) \cup {k}
         /\ Range(list') = Range(r) \cup {e}
         /\ Len(list') = Len(r) + 1
<1>0. r \in Seq(Entry) /\ Len(r) \in Nat /\ newer \in SUBSET (Key \X Key)
  BY DEF Inv, Proper
<1>1. newer' = {p \in newer : p[2] # k} \cup ({k} \X (Key \ {k}))
  BY DEF Touch
<1>2. newer' \in SUBSET (Key \X Key)
  BY <1>0, <1>1
<1>3. \A i \in 1..Len(r) : r[i].key \in Keys(r)
  BY <1>0, RangeOfList
<1>4. InOrder(r, newer')
  BY <1>1, <1>3 DEF InOrder
<1>5. \A j \in Keys(r) : <<k, j>> \in newer'
  BY <1>0, <1>1, RangeOfList
<1>6. Len(list') = Len(r) + 1
  BY <1>0 DEF AttachFront
<1> QED BY <1>2, <1>4, <1>5, <1>6, AttachFrontKeepsProper

\* A list without one of its keys is shorter by one.
LEMMA OneKeyLess ==
  ASSUME NEW l, Proper(l), NEW r, Proper(r), NEW k \in Keys(l), Keys(r) = Keys(l) \ {k}
  PROVE  Len(r) = Len(l) - 1 /\ Len(r) \in Nat /\ Len(l) \in Nat
<1>1. PICK K : K = Keys(l)
  OBVIOUS
<1>2. IsFiniteSet(K) /\ Cardinality(K) = Len(l) /\ Cardinality(K \ {k}) = Len(r)
  BY <1>1, LengthOfProper
<1>3. Cardinality(K \ {k}) = Cardinality(K) - 1
  BY <1>1, <1>2, FS_RemoveElement
<1> QED BY <1>2, <1>3 DEF Proper

\* The counters after a put that evicts.
LEMMA CountedEviction ==
  ASSUME NEW m \in Counters
  PROVE  [m EXCEPT !.total_puts = @ + 1, !.evictions = @ + 1] \in Counters
<1>1. PICK a \in Nat, b \in Nat, c \in Nat, d \in Nat :
         m = [evictions |-> a, expirations |-> b, total_puts |-> c, total_dels |-> d]
  BY DEF Counters
<1>2. PICK r : r = [m EXCEPT !.total_puts = @ + 1]
  OBVIOUS
<1>3. r = [evictions |-> a, expirations |-> b, total_puts |-> c + 1, total_dels |-> d]
  BY <1>1, <1>2
<1>4. [r EXCEPT !.evictions = @ + 1]
         = [evictions |-> a + 1, expirations |-> b, total_puts |-> c + 1, total_dels |-> d]
  BY <1>3
<1>5. [m EXCEPT !.total_puts = @ + 1, !.evictions = @ + 1] = [r EXCEPT !.evictions = @ + 1]
  BY <1>2
<1>6. [r EXCEPT !.evictions = @ + 1] \in Counters
  BY <1>4 DEF Counters
<1> QED BY <1>5, <1>6

\* put, by itself or as a turn of bulk_load.
LEMMA PutKeepsInv ==
  ASSUME Inv, NEW k \in Key, NEW v \in Value, NEW t \in GivenTTLs, PutEntry(k, v, t),
         pending' \in Seq([key : Key, value : Value, ttl : GivenTTLs])
  PROVE  Inv'
<1>0. /\ Proper(list) /\ list \in Seq(Entry) /\ Len(list) \in Nat
      /\ map_ = Keys(list) /\ InOrder(list, newer)
      /\ metrics \in Counters /\ Accounting /\ Len(list) <= capacity
      /\ Touch(k)
  BY DEF Inv, Proper, PutEntry
<1>1. PICK e \in Entry : e = NewEntry(k, v, t) /\ e.key = k
  BY NewEntryType
<1>2. Cardinality(map_) = Len(list)
  BY <1>0, LengthOfProper
<1>3. /\ metrics.evictions \in Nat /\ metrics.expirations \in Nat
      /\ metrics.total_dels \in Nat /\ metrics.total_puts \in Nat
  BY <1>0 DEF Counters
<1>4. CASE Update(k, v, t)
  <2>1. PICK r : r = Detached(list, k)
    OBVIOUS
  <2>2. Proper(r) /\ InOrder(r, newer) /\ Keys(r) = Keys(list) \ {k}
    BY <1>0, <2>1, DetachedIsLess, DetachedIsProper
  <2>3. list' = AttachFront(e, r) /\ map_' = map_ /\ k \in Keys(list)
        /\ metrics' = [metrics EXCEPT !.total_puts = @ + 1]
    BY <1>0, <1>1, <1>4, <2>1 DEF Update
  <2>4. Len(r) = Len(list) - 1 /\ Len(r) \in Nat
    BY <1>0, <2>2, <2>3, OneKeyLess
  <2>5. /\ Proper(list') /\ InOrder(list', newer') /\ newer' \in SUBSET (Key \X Key)
        /\ Keys(list') = Keys(r) \cup {k} /\ Len(list') = Len(r) + 1
    BY <1>0, <1>1, <2>2, <2>3, FrontedList
  <2>6. map_' = Keys(list')
    BY <1>0, <2>2, <2>3, <2>5
  <2>7. metrics' \in Counters /\ Accounting'
    BY <1>0, <1>3, <2>3, <2>4, <2>5 DEF Counters, Accounting
  <2> QED BY <1>0, <2>4, <2>5, <2>6, <2>7 DEF Inv
<1>5. CASE Insert(k, v, t)
  <2>1. list' = AttachFront(e, list) /\ map_' = map_ \cup {k} /\ k \notin Keys(list)
        /\ metrics' = [metrics EXCEPT !.total_puts = @ + 1] /\ Len(list) < capacity
    BY <1>0, <1>1, <1>2, <1>5 DEF Insert
  <2>2. /\ Proper(list') /\ InOrder(list', newer') /\ newer' \in SUBSET (Key \X Key)
        /\ Keys(list') = Keys(list) \cup {k} /\ Len(list') = Len(list) + 1
    BY <1>0, <1>1, <2>1, FrontedList
  <2>3. metrics' \in Counters /\ Accounting'
    <3>1. metrics' \in Counters
      BY <1>0, <1>3, <2>1 DEF Counters
    <3>2. /\ metrics'.total_puts = metrics.total_puts + 1
          /\ metrics'.evictions = metrics.evictions
          /\ metrics'.expirations = metrics.expirations
          /\ metrics'.total_dels = metrics.total_dels
      BY <1>0, <2>1 DEF Counters
    <3> QED BY <1>0, <1>3, <2>2, <3>1, <3>2 DEF Accounting
  <2>4. Len(list') <= capacity
    BY <1>0, <2>1, <2>2, CacheAssumption
  <2> QED BY <1>0, <2>1, <2>2, <2>3, <2>4 DEF Inv
<1>6. CASE EvictAndInsert(k, v, t)
  <2>1. /\ list' = AttachFront(e, UpToLast(list)) /\ k \notin Keys(list)
        /\ map_' = (map_ \ {list[Len(list)].key}) \cup {k}
        /\ metrics' = [metrics EXCEPT !.total_puts = @ + 1, !.evictions = @ + 1]
        /\ Len(list) >= capacity
    BY <1>0, <1>1, <1>2, <1>6 DEF EvictAndInsert
  <2>2. PICK r : r = UpToLast(list)
    OBVIOUS
  <2>3. PICK last : last = list[Len(list)]
    OBVIOUS
  <2>4. Len(list) > 0
    BY <1>0, <2>1, CacheAssumption
  <2>5. Less(r, list, {last}) /\ last \in Range(list)
    BY <1>0, <2>2, <2>3, <2>4, UpToLastIsLess
  <2>6. Proper(r) /\ InOrder(r, newer) /\ Keys(r) = Keys(list) \ {x.key : x \in {last}}
    BY <1>0, <2>5, LessIsProper
  <2>7. Keys(r) = Keys(list) \ {last.key} /\ last.key \in Keys(list)
    BY <1>0, <2>5, <2>6, RangeOfList
  <2>8. Len(r) = Len(list) - 1 /\ Len(r) \in Nat
    BY <1>0, <2>6, <2>7, OneKeyLess
  <2>9. /\ Proper(list') /\ InOrder(list', newer') /\ newer' \in SUBSET (Key \X Key)
        /\ Keys(list') = Keys(r) \cup {k} /\ Len(list') = Len(r) + 1
    BY <1>0, <1>1, <2>1, <2>2, <2>6, <2>7, FrontedList
  <2>10. map_' = Keys(list')
    BY <1>0, <2>1, <2>3, <2>7, <2>9
  <2>11. metrics' \in Counters /\ Accounting'
    <3>1. metrics' \in Counters
      BY <1>0, <2>1, CountedEviction
    <3>2. /\ metrics'.total_puts = metrics.total_puts + 1
          /\ metrics'.evictions = metrics.evictions + 1
          /\ metrics'.expirations = metrics.expirations
          /\ metrics'.total_dels = metrics.total_dels
      BY <1>0, <2>1 DEF Counters
    <3> QED BY <1>0, <1>3, <2>8, <2>9, <3>1, <3>2 DEF Accounting
  <2> QED BY <1>0, <2>8, <2>9, <2>10, <2>11 DEF Inv
<1> QED BY <1>4, <1>5, <1>6 DEF PutEntry

\* get answers, moves the entry it finds to the front, and detaches an expired
\* one.
LEMMA GetKeepsInv ==
  ASSUME Inv, NEW k \in Key, Get(k)
  PROVE  Inv'
<1>0. /\ Proper(list) /\ list \in Seq(Entry) /\ Len(list) \in Nat
      /\ map_ = Keys(list) /\ InOrder(list, newer) /\ metrics \in Counters
  BY DEF Inv, Proper
<1>1. CASE GetMisses(k)
  BY <1>1 DEF GetMisses, Inv, Accounting
<1>2. CASE GetExpires(k)
  <2>1. PICK e : e = EntryOf(k) /\ e \in Range(list) /\ e.key = k
    BY <1>2, EntryOfKey DEF GetExpires
  <2>2. {d \in Range(list) : d.key = k} = {e}
    BY <1>0, <2>1, KeyIdentifies
  <2>3. Less(list', list, {e})
    BY <1>0, <1>2, <2>2, DetachedIsLess DEF GetExpires
  <2>4. map_' = map_ \ {d.key : d \in {e}}
    BY <1>2, <2>1 DEF GetExpires
  <2>5. Cardinality({e}) = 1
    BY FS_Singleton
  <2>6. /\ metrics' \in Counters /\ metrics'.total_puts = metrics.total_puts
        /\ metrics'.evictions + metrics'.expirations + metrics'.total_dels =
              metrics.evictions + metrics.expirations + metrics.total_dels + 1
    BY <1>0, <1>2 DEF GetExpires, Counters
  <2> QED BY <1>2, <2>1, <2>3, <2>4, <2>5, <2>6, RemovalKeepsInv DEF GetExpires
<1>3. CASE GetHits(k)
  <2>0. k \in Keys(list) /\ Touch(k)
    BY <1>0, <1>3 DEF GetHits, Contains
  <2>1. PICK e : e = EntryOf(k) /\ e \in Range(list) /\ e.key = k
    BY <1>0, <2>0, EntryOfKey
  <2>2. e \in Entry
    BY <1>0, <2>1, RangeOfList
  <2>3. PICK r : r = Detached(list, k)
    OBVIOUS
  <2>4. Proper(r) /\ InOrder(r, newer) /\ Keys(r) = Keys(list) \ {k}
    BY <1>0, <2>3, DetachedIsLess, DetachedIsProper
  <2>5. list' = AttachFront(e, r)
    BY <1>3, <2>1, <2>3 DEF GetHits
  <2>6. /\ Proper(list') /\ InOrder(list', newer') /\ newer' \in SUBSET (Key \X Key)
        /\ Keys(list') = Keys(r) \cup {k} /\ Len(list') = Len(r) + 1
    BY <1>0, <2>0, <2>1, <2>2, <2>4, <2>5, FrontedList
  <2>7. Len(r) = Len(list) - 1 /\ Len(r) \in Nat
    BY <1>0, <2>0, <2>4, OneKeyLess
  <2>8. Keys(list') = Keys(list) /\ Len(list') = Len(list)
    BY <1>0, <2>0, <2>4, <2>6, <2>7
  <2> QED BY <1>3, <2>6, <2>8 DEF GetHits, Inv, Accounting
<1> QED BY <1>1, <1>2, <1>3 DEF Get

\* remove takes one entry, and counts it.
LEMMA RemoveKeepsInv ==
  ASSUME Inv, NEW k \in Key, Remove(k)
  PROVE  Inv'
<1>0. Proper(list) /\ metrics \in Counters
  BY DEF Inv
<1>1. PICK e : e = EntryOf(k) /\ e \in Range(list) /\ e.key = k
  BY EntryOfKey DEF Remove
<1>2. {d \in Range(list) : d.key = k} = {e}
  BY <1>0, <1>1, KeyIdentifies
<1>3. Less(list', list, {e})
  BY <1>0, <1>2, DetachedIsLess DEF Remove
<1>4. map_' = map_ \ {d.key : d \in {e}}
  BY <1>1 DEF Remove
<1>5. Cardinality({e}) = 1
  BY FS_Singleton
<1>6. /\ metrics' \in Counters /\ metrics'.total_puts = metrics.total_puts
      /\ metrics'.evictions + metrics'.expirations + metrics'.total_dels =
            metrics.evictions + metrics.expirations + metrics.total_dels + 1
  BY <1>0 DEF Remove, Counters
<1> QED BY <1>1, <1>3, <1>4, <1>5, <1>6, RemovalKeepsInv DEF Remove

\* The purge takes all that has expired, and counts it.
LEMMA PurgeKeepsInv ==
  ASSUME Inv, PurgeExpired
  PROVE  Inv'
<1>0. Proper(list) /\ list \in Seq(Entry) /\ metrics \in Counters
  BY DEF Inv, Proper
<1>1. PICK D : D = ExpiredEntries
  OBVIOUS
<1>2. D \subseteq Range(list)
  BY <1>1 DEF ExpiredEntries
<1>3. Less(list', list, D)
  BY <1>0, <1>1, WithoutIsLess DEF PurgeExpired
<1>4. IsFiniteSet(D) /\ Cardinality(D) \in Nat
  BY <1>0, <1>2, LengthOfProper, FS_Subset, FS_CardinalityType
<1>5. metrics' = [metrics EXCEPT !.expirations = @ + Cardinality(D)]
  BY <1>1 DEF PurgeExpired
<1>6. /\ metrics' \in Counters /\ metrics'.total_puts = metrics.total_puts
      /\ metrics'.evictions + metrics'.expirations + metrics'.total_dels =
            metrics.evictions + metrics.expirations + metrics.total_dels + Cardinality(D)
  <2>1. PICK m \in Nat : m = Cardinality(D)
    BY <1>4
  <2>2. metrics' = [metrics EXCEPT !.expirations = @ + m]
    BY <1>5, <2>1
  <2>3. metrics' \in Counters
    BY <1>0, <2>2 DEF Counters
  <2>4. /\ metrics'.total_puts = metrics.total_puts
        /\ metrics'.evictions = metrics.evictions
        /\ metrics'.expirations = metrics.expirations + m
        /\ metrics'.total_dels = metrics.total_dels
    BY <1>0, <2>2 DEF Counters
  <2>5. /\ metrics.evictions \in Nat /\ metrics.expirations \in Nat
        /\ metrics.total_dels \in Nat
    BY <1>0 DEF Counters
  <2> QED BY <2>1, <2>3, <2>4, <2>5
<1>7. map_' = map_ \ {e.key : e \in D} /\ newer' = newer /\ pending' = pending
  BY <1>1 DEF PurgeExpired
<1> QED BY <1>2, <1>3, <1>6, <1>7, RemovalKeepsInv

\* The passing of time ages entries where they are.
LEMMA TickedList ==
  ASSUME Inv, Tick
  PROVE  /\ list' \in Seq(Entry) /\ Len(list') = Len(list)
         /\ \A i \in 1..Len(list) :
               list'[i] = IF list[i].left > 0 THEN [list[i] EXCEPT !.left = @ - 1]
                                              ELSE list[i]
         /\ \A i \in 1..Len(list) : list'[i].key = list[i].key
         /\ Keys(list') = Keys(list)
<1>0. /\ list \in Seq(Entry) /\ Len(list) \in Nat /\ DOMAIN list = 1..Len(list)
      /\ \A i \in 1..Len(list) : list[i] \in Entry
  BY DEF Inv, Proper
<1> DEFINE aged(e) == IF e.left > 0 THEN [e EXCEPT !.left = @ - 1] ELSE e
<1>1. ASSUME NEW e \in Entry PROVE aged(e) \in Entry /\ aged(e).key = e.key
  BY TicksOff DEF Entry
<1>2. list' = [i \in 1..Len(list) |-> aged(list[i])]
  BY <1>0 DEF Tick
<1>3. \A i \in 1..Len(list) : list'[i] = aged(list[i])
  BY <1>2
<1>4. \A i \in 1..Len(list) : list'[i] \in Entry /\ list'[i].key = list[i].key
  <2> HIDE DEF aged
  <2> QED BY <1>0, <1>1, <1>3
<1>5. list' \in [1..Len(list) -> Entry]
  <2> HIDE DEF aged
  <2> QED BY <1>2, <1>3, <1>4
<1>6. list' \in Seq(Entry) /\ Len(list') = Len(list) /\ DOMAIN list' = 1..Len(list)
  BY <1>0, <1>5
<1>7. Keys(list') = Keys(list)
  BY <1>0, <1>4, <1>6 DEF Keys
<1> QED BY <1>3, <1>4, <1>6, <1>7

\* So the order, the keys and the counters are as before.
LEMMA TickKeepsInv ==
  ASSUME Inv, Tick
  PROVE  Inv'
<1>1. /\ list' \in Seq(Entry) /\ Len(list') = Len(list)
      /\ \A i \in 1..Len(list) : list'[i].key = list[i].key
      /\ Keys(list') = Keys(list)
  BY TickedList
<1>2. Proper(list') /\ InOrder(list', newer)
  BY <1>1 DEF Inv, Proper, InOrder
<1> QED BY <1>1, <1>2 DEF Inv, Tick, Accounting

\* clear counts nothing: the entries it frees stay accounted for by their puts.
LEMMA ClearKeepsInv ==
  ASSUME Inv, Clear
  PROVE  Inv'
<1>1. list' = <<>> /\ <<>> \in Seq(Entry) /\ Len(<<>>) = 0
  BY DEF Clear
<1>2. Proper(list') /\ InOrder(list', newer)
  BY <1>1 DEF Proper, InOrder
<1>3. Keys(list') = {}
  BY <1>1 DEF Keys
<1>4. Len(list) \in Nat /\ metrics \in Counters
  BY DEF Inv, Proper
<1>5. Accounting' /\ Len(list') <= capacity
  BY <1>1, <1>4, CacheAssumption DEF Clear, Accounting, Inv, Counters
<1> QED BY <1>2, <1>3, <1>5 DEF Inv, Clear

\* bulk_load starts, or puts the next entry of its batch.
LEMMA BulkLoadKeepsInv ==
  ASSUME Inv, BulkLoadNext \/ \E batch \in Batches : BulkLoad(batch)
  PROVE  Inv'
<1>1. CASE \E batch \in Batches : BulkLoad(batch)
  BY <1>1, TTLsAreNumbers DEF BulkLoad, Inv, Accounting
<1>2. CASE BulkLoadNext
  <2>1. PICK S : S = [key : Key, value : Value, ttl : GivenTTLs]
    OBVIOUS
  <2>2. pending \in Seq(S) /\ pending # <<>>
    BY <1>2, <2>1 DEF Inv, BulkLoadNext
  <2>3. Head(pending) \in S /\ Tail(pending) \in Seq(S)
    BY <2>2
  <2>4. PICK e \in S : e = Head(pending)
    BY <2>3
  <2>5. e.key \in Key /\ e.value \in Value /\ e.ttl \in GivenTTLs
    BY <2>1, <2>4
  <2>6. PutEntry(e.key, e.value, e.ttl) /\ pending' = Tail(pending)
    BY <1>2, <2>4 DEF BulkLoadNext
  <2>7. pending' \in Seq([key : Key, value : Value, ttl : GivenTTLs])
    BY <2>1, <2>3, <2>6
  <2> QED BY <2>5, <2>6, <2>7, PutKeepsInv
<1> QED BY <1>1, <1>2

\* A new cache is empty.
LEMMA InitInv == Init => Inv
<1> SUFFICES ASSUME Init PROVE Inv
  OBVIOUS
<1>1. list = <<>> /\ list \in Seq(Entry) /\ Len(list) = 0 /\ pending = <<>>
  BY DEF Init
<1>2. pending \in Seq([key : Key, value : Value, ttl : GivenTTLs])
  BY <1>1
<1>3. Proper(list) /\ Keys(list) = {} /\ InOrder(list, newer)
  BY <1>1 DEF Proper, Keys, InOrder
<1>4. metrics \in Counters /\ Accounting
  BY <1>1 DEF Init, Counters, Accounting
<1> QED BY <1>1, <1>2, <1>3, <1>4, CacheAssumption DEF Init, Inv

\* Every step keeps the invariant: one case per method.
LEMMA NextInv == Inv /\ [Next]_vars => Inv'
<1> SUFFICES ASSUME Inv, [Next]_vars PROVE Inv'
  OBVIOUS
<1>1. CASE \E k \in Key, v \in Value, t \in TTL : Put(k, v, t)
  <2>1. PICK k \in Key, v \in Value, t \in TTL : Put(k, v, t)
    BY <1>1
  <2>2. t \in GivenTTLs /\ PutEntry(k, v, t) /\ pending' = pending
    BY <2>1, TTLsAreNumbers DEF Put
  <2>3. pending' \in Seq([key : Key, value : Value, ttl : GivenTTLs])
    BY <2>2 DEF Inv
  <2> QED BY <2>2, <2>3, PutKeepsInv
<1>2. CASE UNCHANGED vars
  BY <1>2 DEF vars, Inv, Accounting
<1> QED BY <1>1, <1>2, GetKeepsInv, RemoveKeepsInv, PurgeKeepsInv, ClearKeepsInv,
           BulkLoadKeepsInv, TickKeepsInv DEF Next

\* The invariant of the cache, from which the theorems follow.
LEMMA Invariance == Spec => []Inv
BY InitInv, NextInv, PTL DEF Spec

\* Entries, index and counters keep their types, whatever the TTLs; no entry
\* has longer to live than some caller asked for.
THEOREM TypeCorrect == Spec => []TypeOK
BY Invariance, InvGives, PTL

\* List and index agree and stay within any capacity, whatever the methods and
\* the turns of a bulk_load do in between.
THEOREM MapAlwaysMatchesList == Spec => []MapMatchesList
BY Invariance, InvGives, PTL

\* evict_lru always finds the least recently used entry at the end.
THEOREM ListStaysInOrderOfUse == Spec => []ListInOrderOfUse
BY Invariance, InvGives, PTL

\* No entry is ever counted twice as evicted, expired or deleted.
THEOREM EveryEntryIsAccountedFor == Spec => []Accounting
BY Invariance, InvGives, PTL
-----------------------------------------------------------------------------
(* The cache implements the store of its clients. *)

\* What a client sees of an entry.
Seen(e) == [value |-> e.value, life |-> e.left]

\* Clients see the entries of the list that have not expired, and nothing else.
SeesTheList ==
    /\ Visible = [k \in Key |-> Visible[k]]
    /\ \A e \in Range(list) : e.left # 0 => Visible[e.key] = Seen(e)
    /\ \A k \in Key : (\A e \in Range(list) : e.key = k => e.left = 0)
                         => Visible[k] = Nothing

\* The index leads to the entry that a client sees.
LEMMA ClientsSeeTheList == Inv => SeesTheList
<1> SUFFICES ASSUME Inv PROVE SeesTheList
  OBVIOUS
<1>0. list \in Seq(Entry) /\ Range(list) \subseteq Entry
  BY RangeOfList DEF Inv, Proper
<1>1. Visible = [k \in Key |-> Visible[k]]
  BY DEF Visible
<1>2. ASSUME NEW e \in Range(list), e.left # 0 PROVE Visible[e.key] = Seen(e)
  <2>1. e.key \in Key /\ e.key \in map_ /\ EntryOf(e.key) = e
    BY <1>0, <1>2, EntryOfKey DEF Entry
  <2>2. Contains(e.key)
    BY <1>2, <2>1 DEF Contains, IsExpired
  <2> QED BY <2>1, <2>2 DEF Visible, Seen
<1>3. ASSUME NEW k \in Key, \A e \in Range(list) : e.key = k => e.left = 0
      PROVE  Visible[k] = Nothing
  <2>1. ~ Contains(k)
    BY <1>3, EntryOfKey DEF Contains, IsExpired
  <2> QED BY <2>1 DEF Visible
<1> QED BY <1>1, <1>2, <1>3 DEF SeesTheList

\* What a client sees of k depends only on the unexpired entry of k.
LEMMA SameView ==
  ASSUME SeesTheList, SeesTheList', NEW k \in Key,
         \A e : e.key = k /\ e.left # 0 => (e \in Range(list) <=> e \in Range(list'))
  PROVE  Visible'[k] = Visible[k]
<1>1. CASE \E e \in Range(list) : e.key = k /\ e.left # 0
  BY <1>1 DEF SeesTheList
<1>2. CASE \A e \in Range(list) : e.key = k => e.left = 0
  BY <1>2 DEF SeesTheList
<1> QED BY <1>1, <1>2

\* Nothing changes for clients if nothing changes for any key.
LEMMA SameStore ==
  ASSUME SeesTheList, SeesTheList', \A k \in Key : Visible'[k] = Visible[k]
  PROVE  Visible' = Visible
BY DEF SeesTheList

\* An entry that a client sees is something.
LEMMA SeenIsSomething ==
  ASSUME Inv, NEW e \in Range(list)
  PROVE  /\ Seen(e) # Nothing
         /\ e.key \in Key /\ e.value \in Value /\ e.left \in Lives
         /\ e.left = NoExpiry \/ e.left \in Nat
<1>1. e \in Entry
  BY RangeOfList DEF Inv, Proper
<1>2. e.key \in Key /\ e.value \in Value /\ e.left \in Lives
  BY <1>1 DEF Entry
<1>3. e.left = NoExpiry \/ e.left \in Nat
  BY <1>2, TicksOff
<1>4. e.left \in Int
  BY <1>3 DEF NoExpiry
<1>5. Seen(e) \in [value : Value, life : Int]
  BY <1>2, <1>4 DEF Seen
<1> QED BY <1>2, <1>3, <1>5, CacheAssumption

\* get is a read, or is not noticed.
LEMMA GetReads ==
  ASSUME Inv, SeesTheList, SeesTheList', NEW k \in Key, Get(k)
  PROVE  Store!Read(k)
<1>0. Proper(list) /\ list \in Seq(Entry) /\ map_ = Keys(list)
  BY DEF Inv, Proper
<1>1. CASE GetMisses(k)
  <2>1. Visible[k] = Nothing
    BY <1>1, EntryOfKey DEF GetMisses, SeesTheList
  <2>2. Visible' = Visible
    BY <1>1, SameView, SameStore DEF GetMisses
  <2> QED BY <1>1, <2>1, <2>2 DEF GetMisses, Store!Read
<1>2. CASE GetExpires(k)
  <2>1. PICK e : e = EntryOf(k) /\ e \in Range(list) /\ e.key = k /\ e.left = 0
    BY <1>2, EntryOfKey DEF GetExpires, IsExpired
  <2>2. \A d \in Range(list) : d.key = k => d = e
    BY <1>0, <2>1, KeyIdentifies
  <2>3. Visible[k] = Nothing
    BY <2>1, <2>2 DEF SeesTheList
  <2>4. Range(list') = Range(list) \ {d \in Range(list) : d.key = k}
    BY <1>0, <1>2, DetachedIsLess DEF GetExpires, Less
  <2>5. \A d : d.left # 0 => (d \in Range(list) <=> d \in Range(list'))
    BY <2>1, <2>2, <2>4
  <2>6. Visible' = Visible
    BY <2>5, SameView, SameStore
  <2> QED BY <1>2, <2>3, <2>6 DEF GetExpires, Store!Read
<1>3. CASE GetHits(k)
  <2>1. PICK e : e = EntryOf(k) /\ e \in Range(list) /\ e.key = k /\ e.left # 0
    BY <1>3, EntryOfKey DEF GetHits, Contains, IsExpired
  <2>2. \A d \in Range(list) : d.key = k => d = e
    BY <1>0, <2>1, KeyIdentifies
  <2>3. Visible[k] = Seen(e) /\ Seen(e) # Nothing /\ Seen(e).value = e.value
    BY <2>1, SeenIsSomething DEF SeesTheList, Seen
  <2>4. PICK r : r = Detached(list, k)
    OBVIOUS
  <2>5. /\ Proper(r) /\ k \notin Keys(r) /\ e \in Entry
        /\ Range(r) = Range(list) \ {d \in Range(list) : d.key = k}
    <3>1. Less(r, list, {d \in Range(list) : d.key = k}) /\ Keys(r) = Keys(list) \ {k}
      BY <1>0, <2>4, DetachedIsLess
    <3>2. Proper(r) /\ e \in Entry
      BY <1>0, <2>1, <2>4, DetachedIsProper, RangeOfList
    <3> QED BY <3>1, <3>2 DEF Less
  <2>6. Range(list') = Range(r) \cup {e}
    BY <1>3, <2>1, <2>4, <2>5, AttachFrontKeepsProper DEF GetHits
  <2>7. \A d : d \in Range(list) <=> d \in Range(list')
    BY <2>1, <2>2, <2>5, <2>6
  <2>8. Visible' = Visible
    BY <2>7, SameView, SameStore
  <2>9. answer' = [key |-> k, value |-> e.value]
    BY <1>3, <2>1 DEF GetHits
  <2> QED BY <2>3, <2>8, <2>9 DEF Store!Read
<1> QED BY <1>1, <1>2, <1>3 DEF Get

\* The entries L are lost, the entry e is new, and all others are still there.
LEMMA NewEntryWrites ==
  ASSUME Inv, SeesTheList, SeesTheList', NEW k \in Key, NEW v \in Value,
         NEW t \in GivenTTLs, NEW L \in {{}} \cup {{j} : j \in Key \ {k}},
         \A e \in Range(list') : e.key = k => e = NewEntry(k, v, t),
         NewEntry(k, v, t) \in Range(list'),
         \A e \in Range(list') : e.key \notin L,
         \A e : e.key # k /\ e.key \notin L => (e \in Range(list) <=> e \in Range(list')),
         answer' = answer
  PROVE  Store!Write(k, v, Expiry(t))
<1>1. Visible'[k] = [value |-> v, life |-> Expiry(t)]
  <2>1. PICK e : e = NewEntry(k, v, t)
    OBVIOUS
  <2>2. e.key = k /\ e.left # 0 /\ Seen(e) = [value |-> v, life |-> Expiry(t)]
    BY <2>1, LivesOf DEF NewEntry, Seen
  <2> QED BY <2>1, <2>2 DEF SeesTheList
<1>2. \A j \in L : Visible'[j] = Nothing
  <2>1. L \subseteq Key
    OBVIOUS
  <2> QED BY <2>1 DEF SeesTheList
<1>3. \A j \in Key : j # k /\ j \notin L => Visible'[j] = Visible[j]
  BY SameView
<1>4. \A j \in Key : Visible'[j] = IF j = k THEN [value |-> v, life |-> Expiry(t)]
                                   ELSE IF j \in L THEN Nothing ELSE Visible[j]
  BY <1>1, <1>2, <1>3
<1>5. Visible' = [j \in Key |-> IF j = k THEN [value |-> v, life |-> Expiry(t)]
                                ELSE IF j \in L THEN Nothing ELSE Visible[j]]
  BY <1>4 DEF SeesTheList
<1> QED BY <1>5 DEF Store!Write

\* put is a write, that loses at most the entry evict_lru takes.
LEMMA PutWrites ==
  ASSUME Inv, SeesTheList, SeesTheList', NEW k \in Key, NEW v \in Value,
         NEW t \in GivenTTLs, PutEntry(k, v, t)
  PROVE  Store!Write(k, v, Expiry(t))
<1>0. /\ Proper(list) /\ list \in Seq(Entry) /\ map_ = Keys(list) /\ answer' = answer
  BY DEF Inv, Proper, PutEntry
<1>1. PICK e \in Entry : e = NewEntry(k, v, t) /\ e.key = k
  BY NewEntryType
<1>2. {} \in {{}} \cup {{j} : j \in Key \ {k}}
  OBVIOUS
<1>3. CASE Update(k, v, t)
  <2>1. PICK r : r = Detached(list, k)
    OBVIOUS
  <2>2. /\ Proper(r) /\ k \notin Keys(r)
        /\ Range(r) = Range(list) \ {d \in Range(list) : d.key = k}
    <3>1. Less(r, list, {d \in Range(list) : d.key = k}) /\ Keys(r) = Keys(list) \ {k}
      BY <1>0, <2>1, DetachedIsLess
    <3>2. Proper(r)
      BY <1>0, <2>1, DetachedIsProper
    <3> QED BY <3>1, <3>2 DEF Less
  <2>3. Range(list') = Range(r) \cup {e}
    BY <1>1, <1>3, <2>1, <2>2, AttachFrontKeepsProper DEF Update
  <2>4. \A d \in Range(list') : d.key = k => d = e
    BY <2>2, <2>3
  <2>5. \A d : d.key # k => (d \in Range(list) <=> d \in Range(list'))
    BY <1>1, <2>2, <2>3
  <2> QED BY <1>0, <1>1, <1>2, <2>3, <2>4, <2>5, NewEntryWrites
<1>4. CASE Insert(k, v, t)
  <2>1. list' = AttachFront(e, list) /\ k \notin Keys(list)
    BY <1>0, <1>1, <1>4 DEF Insert
  <2>2. Range(list') = Range(list) \cup {e}
    BY <1>0, <1>1, <2>1, AttachFrontKeepsProper
  <2>3. \A d \in Range(list) : d.key # k
    BY <1>0, <2>1, RangeOfList
  <2>4. \A d : d.key # k => (d \in Range(list) <=> d \in Range(list'))
    BY <1>1, <2>2
  <2> QED BY <1>0, <1>1, <1>2, <2>2, <2>3, <2>4, NewEntryWrites
<1>5. CASE EvictAndInsert(k, v, t)
  <2>1. /\ list' = AttachFront(e, UpToLast(list)) /\ k \notin Keys(list)
        /\ Cardinality(Keys(list)) >= capacity
    BY <1>0, <1>1, <1>5 DEF EvictAndInsert
  <2>2. PICK r : r = UpToLast(list)
    OBVIOUS
  <2>3. PICK last : last = list[Len(list)]
    OBVIOUS
  <2>4. Len(list) > 0
    BY <1>0, <2>1, LengthOfProper, CacheAssumption
  <2>5. Less(r, list, {last}) /\ last \in Range(list)
    BY <1>0, <2>2, <2>3, <2>4, UpToLastIsLess
  <2>6. Proper(r) /\ Range(r) = Range(list) \ {last}
    BY <1>0, <2>5, LessIsProper DEF Less
  <2>7. r \in Seq(Entry)
    BY <2>6 DEF Proper
  <2>8. k \notin Keys(r) /\ \A d \in Range(list) : d.key # k
    BY <1>0, <2>1, <2>6, <2>7, RangeOfList
  <2>9. Range(list') = Range(r) \cup {e}
    BY <1>1, <2>1, <2>2, <2>6, <2>8, AttachFrontKeepsProper
  <2>10. \A d \in Range(list) : d.key = last.key => d = last
    BY <1>0, <2>5, KeyIdentifies
  <2>11. last.key \in Key /\ last.key # k
    BY <2>5, <2>8, SeenIsSomething
  <2>12. PICK L : L = {last.key}
    OBVIOUS
  <2>13. L \in {{}} \cup {{j} : j \in Key \ {k}}
    BY <2>11, <2>12
  <2>14. \A d \in Range(list') : d.key \notin L /\ (d.key = k => d = e)
    BY <1>1, <2>6, <2>8, <2>9, <2>10, <2>11, <2>12
  <2>15. \A d : d.key # k /\ d.key \notin L => (d \in Range(list) <=> d \in Range(list'))
    BY <1>1, <2>6, <2>9, <2>12
  <2> QED BY <1>0, <1>1, <2>9, <2>13, <2>14, <2>15, NewEntryWrites
<1> QED BY <1>3, <1>4, <1>5 DEF PutEntry

\* remove is a delete.
LEMMA RemoveDeletes ==
  ASSUME Inv, SeesTheList, SeesTheList', NEW k \in Key, Remove(k)
  PROVE  Store!Delete(k)
<1>1. Range(list') = Range(list) \ {d \in Range(list) : d.key = k}
  BY DetachedIsLess DEF Inv, Remove, Less
<1>2. Visible'[k] = Nothing
  BY <1>1 DEF SeesTheList
<1>3. \A j \in Key : j # k => Visible'[j] = Visible[j]
  BY <1>1, SameView
<1>4. \A j \in Key : Visible'[j] = [Visible EXCEPT ![k] = Nothing][j]
  BY <1>2, <1>3 DEF SeesTheList
<1>5. Visible' = [Visible EXCEPT ![k] = Nothing]
  BY <1>4 DEF SeesTheList
<1> QED BY <1>5 DEF Remove, Store!Delete

\* The purge takes nothing that a client could still see.
LEMMA PurgeIsInvisible ==
  ASSUME Inv, SeesTheList, SeesTheList', PurgeExpired
  PROVE  Visible' = Visible
<1>1. Range(list') = Range(list) \ ExpiredEntries
  BY WithoutIsLess DEF Inv, Proper, PurgeExpired, Less
<1>2. \A e : e.left # 0 => (e \in Range(list) <=> e \in Range(list'))
  BY <1>1 DEF ExpiredEntries, IsExpired
<1> QED BY <1>2, SameView, SameStore

\* clear leaves nothing to be seen.
LEMMA ClearClears ==
  ASSUME SeesTheList', Clear
  PROVE  Store!Clear
<1>1. Range(list') = {}
  BY DEF Clear, Range
<1>2. \A k \in Key : Visible'[k] = Nothing
  BY <1>1 DEF SeesTheList
<1>3. Visible' = [k \in Key |-> Nothing]
  BY <1>2 DEF SeesTheList
<1> QED BY <1>3 DEF Clear, Store!Clear

\* Time takes from what clients see what it takes from the entries.
LEMMA TickTicks ==
  ASSUME Inv, Inv', SeesTheList, SeesTheList', Tick
  PROVE  Store!Tick
<1>0. /\ list \in Seq(Entry) /\ list' \in Seq(Entry) /\ Len(list') = Len(list)
      /\ \A i \in 1..Len(list) :
            list'[i] = IF list[i].left > 0 THEN [list[i] EXCEPT !.left = @ - 1]
                                           ELSE list[i]
  BY TickedList DEF Inv, Proper
<1>1. ASSUME NEW k \in Key, NEW e \in Range(list), e.key = k, e.left # 0
      PROVE  Visible'[k] = Store!Aged(Visible[k])
  <2>1. PICK i \in 1..Len(list) : list[i] = e
    BY <1>0, RangeOfList
  <2>2. PICK d \in Range(list') : d = list'[i]
    BY <1>0, <2>1, RangeOfList
  <2>3. /\ Visible[k] = Seen(e) /\ Seen(e) # Nothing /\ e \in Entry
        /\ e.left = NoExpiry \/ e.left \in Nat
    BY <1>0, <1>1, SeenIsSomething, RangeOfList DEF SeesTheList
  <2>4. Seen(e).life = e.left /\ Seen(e).value = e.value
    BY DEF Seen
  <2>5. CASE e.left = NoExpiry
    <3>0. ~ (e.left > 0)
      BY <2>5 DEF NoExpiry
    <3>1. d = e
      BY <1>0, <2>1, <2>2, <3>0
    <3>2. Visible'[k] = Seen(e)
      BY <1>1, <2>2, <3>1 DEF SeesTheList
    <3> QED BY <2>3, <2>4, <2>5, <3>2 DEF Store!Aged
  <2>6. CASE e.left \in Nat
    <3>0. e.left > 0 /\ e.left # NoExpiry
      BY <1>1, <2>6 DEF NoExpiry
    <3>1. d = [e EXCEPT !.left = @ - 1]
      BY <1>0, <2>1, <2>2, <3>0
    <3>2. d.key = k /\ d.left = e.left - 1 /\ d.value = e.value
      BY <1>1, <2>3, <3>1 DEF Entry
    <3>3. CASE e.left = 1
      <4>1. Proper(list')
        BY DEF Inv
      <4>2. d.left = 0
        BY <3>2, <3>3
      <4>3. \A c \in Range(list') : c.key = k => c.left = 0
        BY <2>2, <3>2, <4>1, <4>2, KeyIdentifies
      <4>4. Visible'[k] = Nothing
        BY <4>3 DEF SeesTheList
      <4> QED BY <2>3, <2>4, <3>0, <3>3, <4>4 DEF Store!Aged
    <3>4. CASE e.left # 1
      <4>1. d.left # 0
        BY <2>6, <3>2, <3>4
      <4>2. Visible'[k] = Seen(d)
        BY <2>2, <3>2, <4>1 DEF SeesTheList
      <4>3. Seen(d) = [Seen(e) EXCEPT !.life = @ - 1]
        BY <3>2 DEF Seen
      <4> QED BY <2>3, <2>4, <3>0, <3>4, <4>2, <4>3 DEF Store!Aged
    <3> QED BY <3>3, <3>4
  <2> QED BY <2>3, <2>5, <2>6
<1>2. ASSUME NEW k \in Key, \A e \in Range(list) : e.key = k => e.left = 0
      PROVE  Visible'[k] = Store!Aged(Visible[k])
  <2>1. ASSUME NEW d \in Range(list'), d.key = k PROVE d.left = 0
    <3>1. PICK i \in 1..Len(list) : list'[i] = d
      BY <1>0, <2>1, RangeOfList
    <3>2. PICK e \in Range(list) : e = list[i]
      BY <1>0, <3>1, RangeOfList
    <3>3. e \in Entry
      BY <1>0, <3>2, RangeOfList
    <3>4. e.key = k
      BY <1>0, <2>1, <3>1, <3>2, TickedList
    <3>5. e.left = 0
      BY <1>2, <3>4
    <3>6. ~ (e.left > 0)
      BY <3>5
    <3>7. d = e
      BY <1>0, <3>1, <3>2, <3>6
    <3> QED BY <3>5, <3>7
  <2>2. Visible[k] = Nothing /\ Visible'[k] = Nothing
    BY <1>2, <2>1 DEF SeesTheList
  <2> QED BY <2>2 DEF Store!Aged
<1>3. \A k \in Key : Visible'[k] = Store!Aged(Visible[k])
  BY <1>1, <1>2
<1>4. Visible' = [k \in Key |-> Store!Aged(Visible[k])]
  BY <1>3 DEF SeesTheList
<1> QED BY <1>4 DEF Tick, Store!Tick

\* A new cache is an empty store.
LEMMA InitStore == Init => Store!Init
<1> SUFFICES ASSUME Init PROVE Store!Init
  OBVIOUS
<1>1. Visible = [k \in Key |-> Nothing]
  BY DEF Init, Visible, Contains
<1> QED BY <1>1 DEF Init, Store!Init

\* Every step of the cache is one of the store, or clients do not notice it.
LEMMA StoreStep ==
  Inv /\ Inv' /\ SeesTheList /\ SeesTheList' /\ [Next]_vars => [Store!Next]_Store!vars
<1> SUFFICES ASSUME Inv, Inv', SeesTheList, SeesTheList', [Next]_vars
             PROVE  [Store!Next]_Store!vars
  OBVIOUS
<1>1. CASE \E k \in Key : Get(k)
  BY <1>1, GetReads DEF Store!Next
<1>2. CASE \E k \in Key, v \in Value, t \in TTL : Put(k, v, t)
  <2>1. PICK k \in Key, v \in Value, t \in TTL : Put(k, v, t)
    BY <1>2
  <2>2. t \in GivenTTLs /\ PutEntry(k, v, t)
    BY <2>1, TTLsAreNumbers DEF Put
  <2>3. Store!Write(k, v, Expiry(t))
    BY <2>2, PutWrites
  <2>4. Expiry(t) \in {Expiry(x) : x \in GivenTTLs}
    BY <2>2
  <2> QED BY <2>3, <2>4 DEF Store!Next
<1>3. CASE BulkLoadNext
  <2>1. PICK S : S = [key : Key, value : Value, ttl : GivenTTLs]
    OBVIOUS
  <2>2. pending \in Seq(S) /\ pending # <<>>
    BY <1>3, <2>1 DEF Inv, BulkLoadNext
  <2>3. PICK e \in S : e = Head(pending)
    BY <2>2
  <2>4. e.key \in Key /\ e.value \in Value /\ e.ttl \in GivenTTLs
    BY <2>1, <2>3
  <2>5. Store!Write(e.key, e.value, Expiry(e.ttl))
    BY <1>3, <2>3, <2>4, PutWrites DEF BulkLoadNext
  <2>6. Expiry(e.ttl) \in {Expiry(x) : x \in GivenTTLs}
    BY <2>4
  <2> QED BY <2>4, <2>5, <2>6 DEF Store!Next
<1>4. CASE \E k \in Key : Remove(k)
  BY <1>4, RemoveDeletes DEF Store!Next
<1>5. CASE PurgeExpired
  BY <1>5, PurgeIsInvisible DEF PurgeExpired, Store!vars
<1>6. CASE Clear
  BY <1>6, ClearClears DEF Store!Next
<1>7. CASE Tick
  BY <1>7, TickTicks DEF Store!Next
<1>8. CASE UNCHANGED <<list, map_, answer>>
  <2>1. Visible' = Visible
    BY <1>8, SameView, SameStore
  <2> QED BY <1>8, <2>1 DEF Store!vars
<1> QED BY <1>1, <1>2, <1>3, <1>4, <1>5, <1>6, <1>7, <1>8 DEF Next, BulkLoad, vars

\* The cache implements the store its clients see, for any capacity, keys and
\* TTLs: a read returns what was written last, until its life is over, it is
\* deleted, or another write takes its place.
THEOREM CacheIsAStore == Spec => ImplementsStore
<1>1. Inv /\ Inv' /\ [Next]_vars => [Store!Next]_Store!vars
  <2>1. Inv' => SeesTheList'
    BY ClientsSeeTheList, PTL
  <2> QED BY <2>1, ClientsSeeTheList, StoreStep
<1> QED BY <1>1, InitStore, Invariance, PTL DEF Spec, ImplementsStore, Store!Spec
=============================================================================
