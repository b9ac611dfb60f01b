--------------------------- MODULE HashRingProofs ---------------------------
(***************************************************************************)
(* For any nodes, any size of the ring, any number of virtual nodes and    *)
(* any placement of them: the ring that grows and shrinks is the one its   *)
(* nodes make, bisect finds the closest virtual node clockwise, the walk   *)
(* of get_replicas meets the nodes in the order of their distances, and a  *)
(* change of one node moves only the keys that it must.                    *)
(*                                                                         *)
(* The lookups count positions, so the heart of the argument is that the   *)
(* number of positions up to p determines p.  The walk is a recursion over *)
(* its turns, and what it has found after each turn is shown by induction. *)
(***************************************************************************)
EXTENDS HashRing, TLAPS, FiniteSetTheorems

\* The least-number principle for sets ...
LEMMA LeastNumber ==
    ASSUME NEW T \in SUBSET Nat, T # {}
    PROVE  \E x \in T : \A y \in T : x <= y
<1> DEFINE R == {p \in Nat \X Nat : p[1] < p[2]}
<1>1. IsWellFoundedOn(R, Nat)
  BY NatLessThanWellFounded DEF OpToRel
<1>2. PICK x \in T : \A y \in T : ~ (<<y, x>> \in R)
  <2> HIDE DEF R
  <2> QED
    BY <1>1, WFMin
<1>3. \A y \in T : ~ (y < x)
  BY <1>2
<1> QED
  BY <1>3

\* ... and induction, for the set of the numbers that have a property.
LEMMA SetInduction ==
    ASSUME NEW S, 0 \in S, \A n \in Nat : n \in S => n + 1 \in S
    PROVE  \A n \in Nat : n \in S
<1> SUFFICES ASSUME Nat \ S # {} PROVE FALSE
  OBVIOUS
<1>1. PICK x \in Nat \ S : \A y \in Nat \ S : x <= y
  BY LeastNumber
<1>2. x # 0 /\ x - 1 \in Nat /\ x - 1 \in S
  BY <1>1
<1> QED
  BY <1>1, <1>2

\* A bounded set of numbers has a greatest one.
LEMMA GreatestNumber ==
    ASSUME NEW b \in Nat, NEW T \in SUBSET (0..b), T # {}
    PROVE  \E x \in T : \A y \in T : y <= x
<1> DEFINE R == {d \in Nat : \E x \in T : d = b - x}
<1>1. R \in SUBSET Nat /\ R # {}
  <2>1. PICK y \in T : y \in 0..b
    OBVIOUS
  <2>2. b - y \in Nat
    BY <2>1
  <2>3. b - y \in R
    BY <2>2
  <2> QED
    BY <2>3
<1>2. PICK d \in R : \A e \in R : d <= e
  <2> HIDE DEF R
  <2> QED
    BY <1>1, LeastNumber
<1>3. PICK x \in T : d = b - x
  BY <1>2
<1>4. \A y \in T : b - x <= b - y
  BY <1>2, <1>3
<1> QED
  BY <1>4

-----------------------------------------------------------------------------
(* The ring. *)

\* Every node has its virtual nodes, no two on one position, and the ring
\* holds those of its nodes.
Placed ==
    /\ \A n \in Node : place[n] # {}
    /\ \A m, n \in Node : m # n => place[m] \cap place[n] = {}

Inv == TypeOK /\ RingIsItsNodes /\ Placed

\* The ring starts empty, with the virtual nodes of all nodes apart.
LEMMA InitInv == Init => Inv
<1> SUFFICES ASSUME Init PROVE Inv
  OBVIOUS
<1>1. /\ place \in [Node -> SUBSET Hash]
      /\ \A n \in Node : Cardinality(place[n]) = virtual_nodes
      /\ \A m, n \in Node : m # n => place[m] \cap place[n] = {}
  BY DEF Init, Placements, kSubset
<1>2. \A n \in Node : place[n] # {}
  BY <1>1, FS_EmptySet, RingAssumption
<1>3. DOMAIN ring = {} /\ nodes = {} /\ ring \in [{} -> nodes]
  BY DEF Init
<1> QED
  BY <1>1, <1>2, <1>3 DEF Inv, TypeOK, RingIsItsNodes, Placed

\* Adding a node adds its positions, removing it removes them and no others.
LEMMA StepKeepsInv ==
    ASSUME Inv, [Next]_vars
    PROVE  Inv'
<1>1. ASSUME NEW n \in Node, AddNode(n) PROVE Inv'
  <2>1. /\ n \notin nodes /\ nodes' = nodes \cup {n} /\ place' = place
        /\ DOMAIN ring' = DOMAIN ring \cup place[n]
        /\ ring' = [p \in DOMAIN ring \cup place[n] |-> IF p \in place[n] THEN n ELSE ring[p]]
    BY <1>1 DEF AddNode
  <2>2. TypeOK'
    BY <2>1 DEF Inv, TypeOK
  <2>3. RingIsItsNodes'
    BY <2>1 DEF Inv, TypeOK, RingIsItsNodes
  <2> QED
    BY <2>1, <2>2, <2>3 DEF Inv, Placed
<1>2. ASSUME NEW n \in Node, RemoveNode(n) PROVE Inv'
  <2>1. /\ n \in nodes /\ nodes' = nodes \ {n} /\ place' = place
        /\ DOMAIN ring' = {p \in DOMAIN ring : ring[p] # n}
        /\ ring' = [p \in {q \in DOMAIN ring : ring[q] # n} |-> ring[p]]
    BY <1>2 DEF RemoveNode, Restrict
  <2>2. TypeOK'
    BY <2>1 DEF Inv, TypeOK
  <2>3. \A p \in DOMAIN ring, m \in nodes : p \in place[m] <=> ring[p] = m
    BY DEF Inv, TypeOK, RingIsItsNodes, Placed
  <2>4. RingIsItsNodes'
    BY <2>1, <2>3 DEF Inv, TypeOK, RingIsItsNodes
  <2> QED
    BY <2>1, <2>2, <2>4 DEF Inv, Placed
<1>3. CASE UNCHANGED vars
  BY <1>3 DEF vars, Inv, TypeOK, RingIsItsNodes, Placed
<1> QED
  BY <1>1, <1>2, <1>3 DEF Next

\* What the properties below are read off.
LEMMA Invariance == Spec => []Inv
  BY InitInv, StepKeepsInv, PTL DEF Spec

\* Every occupied position belongs to a node of the ring.
THEOREM TypeCorrect == Spec => []TypeOK
<1>1. Inv => TypeOK
  BY DEF Inv
<1> QED
  BY <1>1, Invariance, PTL

\* However the ring grew and shrank, it is the ring of its nodes.
THEOREM RingIsAlwaysItsNodes == Spec => []RingIsItsNodes
<1>1. Inv => RingIsItsNodes
  BY DEF Inv
<1> QED
  BY <1>1, Invariance, PTL
-----------------------------------------------------------------------------
(* Counting positions.  D is the set of occupied ones. *)

Count(D, h) == Cardinality({q \in D : q <= h})

\* Counts are numbers up to the size of the set ...
LEMMA CountType ==
    ASSUME NEW b \in Nat, NEW D \in SUBSET (0..b)
    PROVE  /\ IsFiniteSet(D) /\ Cardinality(D) \in Nat
           /\ \A h \in Nat : Count(D, h) \in 0..Cardinality(D)
<1>1. IsFiniteSet(D)
  BY FS_BoundedSetOfNaturals
<1>2. \A h \in Nat : {q \in D : q <= h} \in SUBSET D
  OBVIOUS
<1> QED
  BY <1>1, <1>2, FS_Subset, FS_CardinalityType DEF Count

\* ... that grow with every position passed ...
LEMMA CountGrows ==
    ASSUME NEW b \in Nat, NEW D \in SUBSET (0..b), NEW g \in Nat, NEW h \in Nat, g <= h
    PROVE  /\ Count(D, g) <= Count(D, h)
           /\ Count(D, g) = Count(D, h) => \A p \in D : ~ (g < p /\ p <= h)
<1> DEFINE G == {q \in D : q <= g}
           H == {q \in D : q <= h}
<1>1. G \in SUBSET H
  <2>1. \A q \in D : q <= g => q <= h
    OBVIOUS
  <2> QED
    BY <2>1
<1>2. IsFiniteSet(H)
  <2>1. H \in SUBSET D
    OBVIOUS
  <2> HIDE DEF H
  <2> QED
    BY <2>1, CountType, FS_Subset
<1>3. Cardinality(G) <= Cardinality(H) /\ (Cardinality(H) = Cardinality(G) => H = G)
  <2> HIDE DEF G, H
  <2> QED
    BY <1>1, <1>2, FS_Subset
<1> QED
  BY <1>3 DEF Count

\* ... and reach its size when all are passed.
LEMMA CountAll ==
    ASSUME NEW b \in Nat, NEW D \in SUBSET (0..b), NEW h \in Nat
    PROVE  Count(D, h) = Cardinality(D) <=> \A p \in D : p <= h
<1> DEFINE H == {q \in D : q <= h}
<1>1. H \in SUBSET D
  OBVIOUS
<1>2. Cardinality(D) = Cardinality(H) => D = H
  <2> HIDE DEF H
  <2> QED
    BY <1>1, CountType, FS_Subset
<1> QED
  BY <1>2 DEF Count

\* No number is skipped: some position has exactly i positions up to itself.
LEMMA CountHits ==
    ASSUME NEW b \in Nat, NEW D \in SUBSET (0..b), NEW i \in 1..Cardinality(D)
    PROVE  \E p \in D : Count(D, p) = i
<1> USE CountType
<1>1. D # {}
  BY FS_EmptySet
<1> DEFINE T == {p \in D : Count(D, p) >= i}
<1>2. PICK m \in D : \A p \in D : p <= m
  BY <1>1, GreatestNumber
<1>3. m \in T
  BY <1>2, CountAll
<1>4. PICK p \in T : \A q \in T : p <= q
  <2>0. \A q \in D : q \in Nat
    OBVIOUS
  <2>1. T \in SUBSET Nat /\ T # {}
    BY <1>3, <2>0
  <2> HIDE DEF T
  <2> QED
    BY <2>1, LeastNumber
<1>5. ASSUME Count(D, p) > i PROVE FALSE
  <2>0. /\ \A q \in D : q \in Nat /\ q \in 0..b
        /\ p \in D /\ p \in Nat
    BY <1>4
  <2> DEFINE L == {q \in D : q < p}
             U == {q \in D : q <= p}
  <2>1. U = L \cup {p} /\ p \notin L /\ L \in SUBSET D /\ L \in SUBSET (0..b)
    <3>1. \A q \in D : (q <= p <=> q < p \/ q = p) /\ ~ (p < p)
      BY <2>0
    <3> QED
      BY <2>0, <3>1, Zenon
  <2>2. IsFiniteSet(L) /\ Cardinality(U) = Cardinality(L) + 1 /\ Cardinality(L) \in Nat
    <3> HIDE DEF L, U
    <3> QED
      BY <2>1, FS_Subset, FS_AddElement, FS_CardinalityType
  <2>3. Cardinality(L) >= i
    BY <1>5, <2>2 DEF Count
  <2>4. L # {}
    <3> HIDE DEF L
    <3> QED
      BY <2>3, FS_EmptySet
  <2>5. PICK l \in L : \A q \in L : q <= l
    <3> HIDE DEF L
    <3> QED
      BY <2>1, <2>4, GreatestNumber
  <2>6. {q \in D : q <= l} = L
    <3>1. \A q \in D : q <= l => q < p
      BY <2>0, <2>5
    <3> QED
      BY <2>5, <3>1
  <2>7. l \in T /\ l < p
    BY <1>4, <2>3, <2>5, <2>6 DEF Count
  <2> QED
    BY <1>4, <2>7
<1>6. Count(D, p) = i
  <2>1. p \in D /\ Count(D, p) >= i
    BY <1>4
  <2>2. p \in Nat
    BY <2>1
  <2>3. Count(D, p) \in 0..Cardinality(D) /\ Cardinality(D) \in Nat
    BY <2>2
  <2> QED
    BY <1>5, <2>1, <2>3
<1> QED
  BY <1>4, <1>6
-----------------------------------------------------------------------------
(* The walk around the ring. *)

Size == Cardinality(DOMAIN ring)

\* The index and the position that the walk from h reaches after a turns.
Index(h, a) == ((StartIndex(h) + a) % Size) + 1

At(h, a) == sorted_keys[Index(h, a)]

\* One lap at most.
LEMMA Modulo ==
    ASSUME NEW m \in Nat \ {0}, NEW x \in Nat
    PROVE  /\ x < m => x % m = x
           /\ m <= x /\ x < 2 * m => x % m = x - m
OBVIOUS

\* The positions of the ring can be counted.
LEMMA RingCounts ==
    ASSUME Inv
    PROVE  /\ RingSize - 1 \in Nat /\ DOMAIN ring \in SUBSET (0..(RingSize - 1))
           /\ Size \in Nat /\ (nodes # {} => Size # 0)
           /\ \A h \in Hash : Count(DOMAIN ring, h) \in 0..Size
<1>1. RingSize - 1 \in Nat /\ DOMAIN ring \in SUBSET (0..(RingSize - 1))
  BY RingAssumption DEF Inv, TypeOK, Hash
<1>2. IsFiniteSet(DOMAIN ring) /\ Size \in Nat
  BY <1>1, CountType DEF Size
<1>3. nodes # {} => DOMAIN ring # {}
  BY DEF Inv, TypeOK, RingIsItsNodes, Placed
<1>4. nodes # {} => Size # 0
  BY <1>2, <1>3, FS_EmptySet DEF Size
<1>5. \A h \in Hash : Count(DOMAIN ring, h) \in 0..Size
  <2>1. PICK b \in Nat, D \in SUBSET Nat : D = DOMAIN ring /\ D \in SUBSET (0..b) /\ Hash = 0..b
    BY <1>1 DEF Hash
  <2>2. \A h \in Nat : Count(D, h) \in 0..Cardinality(D)
    BY <2>1, CountType
  <2> QED
    BY <2>1, <2>2 DEF Size
<1> QED
  BY <1>1, <1>2, <1>4, <1>5

\* sorted_keys[i] is the position with i positions up to itself.
LEMMA SortedKeys ==
    ASSUME Inv, NEW i \in 1..Size
    PROVE  sorted_keys[i] \in DOMAIN ring /\ Count(DOMAIN ring, sorted_keys[i]) = i
<1>1. \E p \in DOMAIN ring : Count(DOMAIN ring, p) = i
  BY RingCounts, CountHits DEF Size
<1>2. sorted_keys[i] = CHOOSE p \in DOMAIN ring : Count(DOMAIN ring, p) = i
  BY DEF sorted_keys, Count, Size
<1> QED
  BY <1>1, <1>2

\* Positions are in the order of their counts, and those with a count above
\* that of a hash h come after h.
LEMMA CountsOrder ==
    ASSUME Inv, NEW p \in DOMAIN ring, NEW q \in Hash
    PROVE  Count(DOMAIN ring, p) <= Count(DOMAIN ring, q) <=> p <= q
<1>1. PICK b \in Nat, D \in SUBSET Nat : D = DOMAIN ring /\ D \in SUBSET (0..b) /\ Hash = 0..b
  BY RingCounts DEF Hash
<1>2. p \in D /\ p \in Nat /\ q \in Nat
  BY <1>1
<1>3. Count(D, p) \in Nat /\ Count(D, q) \in Nat
  <2>1. Cardinality(D) \in Nat /\ \A h \in Nat : Count(D, h) \in 0..Cardinality(D)
    BY <1>1, CountType
  <2> QED
    BY <1>2, <2>1
<1>4. CASE p <= q
  BY <1>1, <1>2, <1>4, CountGrows
<1>5. CASE q < p
  <2>1. /\ Count(D, q) <= Count(D, p)
        /\ Count(D, q) = Count(D, p) => \A r \in D : ~ (q < r /\ r <= p)
    <3>1. q <= p
      BY <1>2, <1>5
    <3> QED
      BY <1>1, <1>2, <3>1, CountGrows
  <2>2. Count(D, q) < Count(D, p)
    BY <1>2, <1>3, <1>5, <2>1
  <2> QED
    BY <1>1, <1>2, <1>3, <1>5, <2>2
<1> QED
  BY <1>2, <1>4, <1>5

\* The walk starts after the positions up to h, wrapped around if there are
\* no others.
LEMMA Starts ==
    ASSUME Inv, nodes # {}, NEW h \in Hash
    PROVE  /\ StartIndex(h) \in 0..(Size - 1)
           /\ \/ StartIndex(h) = Count(DOMAIN ring, h)
              \/ StartIndex(h) = 0 /\ Count(DOMAIN ring, h) = Size
BY RingCounts DEF StartIndex, Count, Size

\* It meets the positions at indices above the start first, then the rest.
LEMMA Indices ==
    ASSUME Inv, nodes # {}, NEW h \in Hash, NEW a \in 0..(Size - 1)
    PROVE  /\ Index(h, a) \in 1..Size
           /\ Index(h, a) = IF StartIndex(h) + a < Size THEN StartIndex(h) + a + 1
                            ELSE StartIndex(h) + a + 1 - Size
<1>1. Size \in Nat \ {0} /\ StartIndex(h) \in 0..(Size - 1)
  BY RingCounts, Starts
<1>2. StartIndex(h) + a \in Nat /\ StartIndex(h) + a < 2 * Size
  BY <1>1
<1>3. (StartIndex(h) + a) % Size = IF StartIndex(h) + a < Size THEN StartIndex(h) + a
                                   ELSE StartIndex(h) + a - Size
  BY <1>1, <1>2, Modulo
<1> QED
  BY <1>1, <1>3 DEF Index
\* Where the walk is: at a position of the ring, whose count is the index, and
\* past h or not as the index is past the count of h.
LEMMA Positions ==
    ASSUME Inv, nodes # {}, NEW h \in Hash, NEW a \in 0..(Size - 1)
    PROVE  /\ At(h, a) \in DOMAIN ring /\ At(h, a) \in Hash
           /\ Count(DOMAIN ring, At(h, a)) = Index(h, a)
           /\ At(h, a) <= h <=> Index(h, a) <= Count(DOMAIN ring, h)
<1>1. Index(h, a) \in 1..Size
  BY Indices
<1>2. At(h, a) \in DOMAIN ring /\ Count(DOMAIN ring, At(h, a)) = Index(h, a)
  BY <1>1, SortedKeys DEF At
<1>3. At(h, a) \in Hash
  BY <1>2, RingCounts DEF Hash
<1> QED
  BY <1>2, <1>3, CountsOrder

\* Turn by turn the walk gets farther away from h: bisect_right starts it at
\* the first position after h, and the modulo takes it past the end of the list.
LEMMA WalkGoesAway ==
    ASSUME Inv, nodes # {}, NEW h \in Hash,
           NEW a \in 0..(Size - 1), NEW b \in 0..(Size - 1), a < b
    PROVE  Clockwise(h, At(h, a)) < Clockwise(h, At(h, b))
<1>1. /\ RingSize \in Nat /\ Size \in Nat \ {0}
      /\ StartIndex(h) \in 0..(Size - 1) /\ Count(DOMAIN ring, h) \in 0..Size
      /\ \/ StartIndex(h) = Count(DOMAIN ring, h)
         \/ StartIndex(h) = 0 /\ Count(DOMAIN ring, h) = Size
  BY RingCounts, Starts, RingAssumption
<1>2. /\ At(h, a) \in 0..(RingSize - 1) /\ At(h, b) \in 0..(RingSize - 1)
      /\ h \in 0..(RingSize - 1)
      /\ At(h, a) <= h <=> Index(h, a) <= Count(DOMAIN ring, h)
      /\ At(h, b) <= h <=> Index(h, b) <= Count(DOMAIN ring, h)
  BY Positions DEF Hash
<1>3. At(h, b) <= At(h, a) <=> Index(h, b) <= Index(h, a)
  BY Positions, CountsOrder
<1>4. /\ Index(h, a) = IF StartIndex(h) + a < Size THEN StartIndex(h) + a + 1
                       ELSE StartIndex(h) + a + 1 - Size
      /\ Index(h, b) = IF StartIndex(h) + b < Size THEN StartIndex(h) + b + 1
                       ELSE StartIndex(h) + b + 1 - Size
  BY Indices
<1> QED
  BY <1>1, <1>2, <1>3, <1>4 DEF Clockwise

\* In Size turns the walk meets every position of the ring.
LEMMA WalkMeetsAll ==
    ASSUME Inv, nodes # {}, NEW h \in Hash, NEW p \in DOMAIN ring
    PROVE  \E a \in 0..(Size - 1) : At(h, a) = p
<1>1. /\ Size \in Nat \ {0} /\ StartIndex(h) \in 0..(Size - 1)
      /\ p \in Hash /\ Count(DOMAIN ring, p) \in 0..Size
  BY RingCounts, Starts DEF Hash
<1>2. Count(DOMAIN ring, p) # 0
  <2> DEFINE U == {q \in DOMAIN ring : q <= p}
  <2>1. p \in U /\ U \in SUBSET DOMAIN ring
    BY <1>1 DEF Hash
  <2>2. IsFiniteSet(DOMAIN ring)
    BY RingCounts, CountType
  <2>3. Cardinality(U) # 0
    <3> HIDE DEF U
    <3> QED
      BY <2>1, <2>2, FS_Subset, FS_EmptySet
  <2> QED
    BY <2>3 DEF Count
<1> DEFINE i == Count(DOMAIN ring, p)
           a == IF i - 1 >= StartIndex(h) THEN i - 1 - StartIndex(h)
                ELSE i - 1 - StartIndex(h) + Size
<1> HIDE DEF i
<1>3. i \in 1..Size
  BY <1>1, <1>2 DEF i
<1>4. a \in 0..(Size - 1)
  BY <1>1, <1>3
<1>5. Index(h, a) = i
  BY <1>1, <1>3, <1>4, Indices
<1>6. At(h, a) \in DOMAIN ring /\ At(h, a) \in Hash /\ Count(DOMAIN ring, At(h, a)) = i
  BY <1>4, <1>5, Positions
<1>7. At(h, a) <= p /\ p <= At(h, a)
  BY <1>1, <1>3, <1>6, CountsOrder DEF i
<1> QED
  BY <1>1, <1>4, <1>6, <1>7 DEF Hash
-----------------------------------------------------------------------------
(* The owner of a key. *)

\* Turn a of the walk from h is the first that meets node n.
FirstMeets(h, a, n) ==
    /\ ring[At(h, a)] = n
    /\ \A b \in 0..(Size - 1) : ring[At(h, b)] = n => a <= b

\* The ring has a virtual node of n at p if and only if it was placed there.
LEMMA Occupied ==
    ASSUME Inv, NEW n \in nodes
    PROVE  place[n] = {p \in DOMAIN ring : ring[p] = n}
BY DEF Inv, TypeOK, RingIsItsNodes, Placed

\* The walk meets every node of the ring, each for the first time at its
\* distance from h.
LEMMA WalkMeetsNodes ==
    ASSUME Inv, NEW h \in Hash, NEW n \in nodes
    PROVE  \E a \in 0..(Size - 1) :
               FirstMeets(h, a, n) /\ Distance(h, n) = Clockwise(h, At(h, a))
<1>1. nodes # {} /\ n \in Node /\ place[n] # {}
  BY DEF Inv, TypeOK, Placed
<1>2. \A p \in place[n] : p \in DOMAIN ring /\ ring[p] = n
  BY Occupied
<1> DEFINE T == {a \in 0..(Size - 1) : ring[At(h, a)] = n}
<1>3. T \in SUBSET Nat /\ T # {}
  <2>1. PICK p \in place[n] : TRUE
    BY <1>1
  <2>2. PICK a \in 0..(Size - 1) : At(h, a) = p
    BY <1>1, <1>2, WalkMeetsAll
  <2> QED
    BY <1>2, <2>2
<1>4. PICK a \in T : \A b \in T : a <= b
  <2> HIDE DEF T
  <2> QED
    BY <1>3, LeastNumber
<1>5. a \in 0..(Size - 1) /\ FirstMeets(h, a, n)
  BY <1>4 DEF FirstMeets
<1>6. At(h, a) \in place[n]
  BY <1>1, <1>5, Positions, Occupied DEF FirstMeets
<1> DEFINE C == {Clockwise(h, p) : p \in place[n]}
           c == Clockwise(h, At(h, a))
<1>7. c \in C
  BY <1>6
<1>8. ASSUME NEW p \in place[n], Clockwise(h, p) # c
      PROVE  c < Clockwise(h, p)
  <2>1. PICK b \in 0..(Size - 1) : At(h, b) = p
    BY <1>1, <1>2, WalkMeetsAll
  <2>2. b \in T
    BY <1>2, <2>1
  <2>3. a <= b /\ a # b
    BY <1>4, <1>8, <2>1, <2>2
  <2>4. a < b
    BY <1>5, <2>1, <2>3
  <2> QED
    BY <1>1, <1>5, <2>1, <2>4, WalkGoesAway
<1>9. \A p \in place[n] : Clockwise(h, p) \in Nat /\ c \in Nat
  BY <1>2, <1>6, RingCounts, RingAssumption DEF Clockwise, Hash
<1>10. \A x \in C : c <= x /\ x \in Nat
  BY <1>8, <1>9
<1>11. Distance(h, n) = c
  <2> HIDE DEF C, c
  <2>1. \A x \in C : (\A y \in C : x <= y) => x = c
    BY <1>7, <1>10
  <2>2. Distance(h, n) = CHOOSE x \in C : \A y \in C : x <= y
    BY DEF Distance, Min, C
  <2> QED
    BY <1>7, <1>10, <2>1, <2>2
<1> QED
  BY <1>5, <1>11

\* get_node takes the node that the walk meets first.
LEMMA OwnerIsFirst ==
    ASSUME Inv, nodes # {}, NEW h \in Hash
    PROVE  /\ 0 \in 0..(Size - 1) /\ FirstMeets(h, 0, GetNode(h))
           /\ GetNode(h) \in nodes
<1>1. Size \in Nat \ {0} /\ StartIndex(h) \in 0..(Size - 1)
  BY RingCounts, Starts
<1>2. 0 \in 0..(Size - 1) /\ Index(h, 0) = StartIndex(h) + 1
  BY <1>1, Indices
<1>3. GetNode(h) = ring[At(h, 0)]
  BY <1>2 DEF GetNode, At
<1>4. ring[At(h, 0)] \in nodes
  BY <1>2, Positions DEF Inv, TypeOK
<1> QED
  BY <1>2, <1>3, <1>4 DEF FirstMeets

\* Nodes met earlier are closer.
LEMMA EarlierIsCloser ==
    ASSUME Inv, NEW h \in Hash, NEW m \in nodes, NEW n \in nodes,
           NEW a \in 0..(Size - 1), FirstMeets(h, a, m),
           \A b \in 0..(Size - 1) : ring[At(h, b)] = n => a < b
    PROVE  Distance(h, m) < Distance(h, n)
<1>1. PICK c \in 0..(Size - 1) : FirstMeets(h, c, m) /\ Distance(h, m) = Clockwise(h, At(h, c))
  BY WalkMeetsNodes
<1>2. PICK d \in 0..(Size - 1) : FirstMeets(h, d, n) /\ Distance(h, n) = Clockwise(h, At(h, d))
  BY WalkMeetsNodes
<1>3. c = a /\ a < d
  BY <1>1, <1>2 DEF FirstMeets
<1> QED
  BY <1>1, <1>2, <1>3, WalkGoesAway

\* Distances are numbers.
LEMMA DistanceType ==
    ASSUME Inv, NEW h \in Hash, NEW n \in nodes
    PROVE  Distance(h, n) \in Int
<1>1. PICK a \in 0..(Size - 1) : Distance(h, n) = Clockwise(h, At(h, a))
  BY WalkMeetsNodes
<1> QED
  BY <1>1, Positions, RingAssumption DEF Clockwise, Hash

\* Lookups are right whenever the ring is that of its nodes.
LEMMA OwnerFound == Inv => OwnerIsClosest
<1> SUFFICES ASSUME Inv, nodes # {}, NEW h \in Hash, NEW n \in nodes
             PROVE  GetNode(h) \in nodes /\ Distance(h, GetNode(h)) <= Distance(h, n)
  BY DEF OwnerIsClosest
<1>1. 0 \in 0..(Size - 1) /\ FirstMeets(h, 0, GetNode(h)) /\ GetNode(h) \in nodes
  BY OwnerIsFirst
<1>2. Distance(h, GetNode(h)) \in Int /\ Distance(h, n) \in Int
  BY <1>1, DistanceType
<1>3. ASSUME n # GetNode(h) PROVE Distance(h, GetNode(h)) < Distance(h, n)
  <2>1. \A b \in 0..(Size - 1) : ring[At(h, b)] = n => 0 < b
    BY <1>1, <1>3 DEF FirstMeets
  <2> QED
    BY <1>1, <2>1, EarlierIsCloser
<1> QED
  BY <1>1, <1>2, <1>3

\* bisect_right with wrap-around finds the owner: the node with the closest
\* virtual node clockwise from the hash of the key.
THEOREM OwnersAreClosest == Spec => []OwnerIsClosest
  BY Invariance, OwnerFound, PTL
-----------------------------------------------------------------------------
(* The replicas of a key. *)

\* A turn of the loop of get_replicas, that makes a turns of it.
Turn(h, rf, replicas, a) ==
    IF Len(replicas) < rf /\ ring[At(h, a - 1)] \notin Range(replicas)
    THEN Append(replicas, ring[At(h, a - 1)])
    ELSE replicas

\* F[a] is the list after a turns.
Loop(h, rf, F) ==
    F = [a \in 0..Size |-> IF a = 0 THEN <<>> ELSE Turn(h, rf, F[a - 1], a)]

\* get_replicas returns the list after Size turns.
LEMMA GetReplicasLoops ==
    ASSUME NEW h, NEW rf
    PROVE  GetReplicas(h, rf) = (CHOOSE F : Loop(h, rf, F))[Size]
BY DEF GetReplicas, Loop, Turn, At, Index, Size
\* A turn adds a node of the ring or nothing.
LEMMA TurnType ==
    ASSUME Inv, nodes # {}, NEW h \in Hash, NEW rf \in Nat, NEW a \in 1..Size,
           NEW r \in Seq(nodes)
    PROVE  Turn(h, rf, r, a) \in Seq(nodes)
<1>1. a - 1 \in 0..(Size - 1)
  BY RingCounts
<1>2. ring[At(h, a - 1)] \in nodes
  BY <1>1, Positions DEF Inv, TypeOK
<1> QED
  BY <1>2 DEF Turn

\* The recursion has a solution.
LEMMA LoopExists ==
    ASSUME Inv, nodes # {}, NEW h \in Hash, NEW rf \in Nat
    PROVE  \E F : Loop(h, rf, F)
<1> DEFINE Runs(n, g) == g[0] = <<>> /\ \A a \in 1..n : g[a] = Turn(h, rf, g[a - 1], a)
           S == {n \in Nat : n <= Size => \E g \in [0..n -> Seq(nodes)] : Runs(n, g)}
<1>1. 0 \in S
  <2> DEFINE g == [a \in 0..0 |-> <<>>]
  <2>1. g \in [0..0 -> Seq(nodes)] /\ Runs(0, g)
    OBVIOUS
  <2> HIDE DEF g, Runs
  <2> QED
    BY <2>1
<1>2. ASSUME NEW n \in Nat, n \in S PROVE n + 1 \in S
  <2> SUFFICES ASSUME n + 1 <= Size
               PROVE  \E g \in [0..(n + 1) -> Seq(nodes)] : Runs(n + 1, g)
    <3> HIDE DEF Runs
    <3> QED
      OBVIOUS
  <2>1. PICK g \in [0..n -> Seq(nodes)] : Runs(n, g)
    BY <1>2, RingCounts
  <2> DEFINE next == Turn(h, rf, g[n], n + 1)
             f == [a \in 0..(n + 1) |-> IF a = n + 1 THEN next ELSE g[a]]
  <2>2. next \in Seq(nodes)
    <3>1. n + 1 \in 1..Size /\ g[n] \in Seq(nodes)
      BY <2>1, RingCounts
    <3> QED
      BY <3>1, TurnType
  <2>3. f \in [0..(n + 1) -> Seq(nodes)]
    <3> HIDE DEF next
    <3> QED
      BY <2>2
  <2>4. f[0] = <<>> /\ f[n + 1] = next /\ \A a \in 0..n : f[a] = g[a]
    <3> HIDE DEF next
    <3> QED
      BY <2>1
  <2>5. ASSUME NEW a \in 1..(n + 1) PROVE f[a] = Turn(h, rf, f[a - 1], a)
    <3> HIDE DEF f
    <3>1. CASE a = n + 1
      <4>1. f[a - 1] = g[n]
        BY <2>4, <3>1
      <4> QED
        BY <2>4, <3>1, <4>1
    <3>2. CASE a \in 1..n
      <4>1. f[a] = g[a] /\ f[a - 1] = g[a - 1] /\ g[a] = Turn(h, rf, g[a - 1], a)
        BY <2>1, <2>4, <3>2
      <4> QED
        BY <4>1
    <3> QED
      BY <3>1, <3>2
  <2> HIDE DEF f
  <2> QED
    BY <2>3, <2>4, <2>5
<1>3. Size \in S
  <2> HIDE DEF S
  <2> QED
    BY <1>1, <1>2, SetInduction, RingCounts
<1>4. PICK F \in [0..Size -> Seq(nodes)] : Runs(Size, F)
  BY <1>3, RingCounts
<1>5. \A a \in 0..Size : F[a] = IF a = 0 THEN <<>> ELSE Turn(h, rf, F[a - 1], a)
  BY <1>4, RingCounts
<1>6. Loop(h, rf, F)
  BY <1>4, <1>5 DEF Loop
<1> QED
  BY <1>6

\* What the list r has after a turns: different nodes, in the order of their
\* distances, closer than all the others; and if there is still room, all the
\* nodes met so far.
Found(h, rf, r, a) ==
    /\ r \in Seq(nodes) /\ Len(r) <= rf
    /\ \A i, j \in 1..Len(r) : i # j => r[i] # r[j]
    /\ Len(r) < rf => \A b \in 0..(a - 1) : ring[At(h, b)] \in Range(r)
    /\ \A i \in 1..Len(r), n \in nodes :
           n \notin {r[j] : j \in 1..i} => Distance(h, r[i]) < Distance(h, n)

\* A turn keeps it so: a node that is new on the walk is farther than those
\* met before, and closer than those not met yet.
LEMMA TurnFinds ==
    ASSUME Inv, nodes # {}, NEW h \in Hash, NEW rf \in Nat, NEW a \in 0..(Size - 1),
           NEW r, Found(h, rf, r, a)
    PROVE  Found(h, rf, Turn(h, rf, r, a + 1), a + 1)
<1> DEFINE x == ring[At(h, a)]
<1>1. a + 1 - 1 = a /\ a + 1 \in 1..Size /\ a \in Nat
  BY RingCounts
<1>2. r \in Seq(nodes) /\ Len(r) \in Nat /\ x \in nodes
  BY Positions DEF Found, Inv, TypeOK
<1>3. \A y : y \in Range(r) <=> \E i \in 1..Len(r) : y = r[i]
  BY <1>2 DEF Range
<1> HIDE DEF x
<1>4. CASE Len(r) < rf /\ x \notin Range(r)
  <2> DEFINE s == Append(r, x)
  <2>1. Turn(h, rf, r, a + 1) = s
    BY <1>1, <1>4 DEF Turn, x
  <2>2. /\ s \in Seq(nodes) /\ Len(s) = Len(r) + 1 /\ s[Len(r) + 1] = x
        /\ \A i \in 1..Len(r) : s[i] = r[i]
    BY <1>2
  <2> HIDE DEF s
  <2>3. Len(s) <= rf
    BY <1>2, <1>4, <2>2
  <2>4. ASSUME NEW i \in 1..Len(s), NEW j \in 1..Len(s), i # j PROVE s[i] # s[j]
    <3>1. i \in 1..Len(r) \/ i = Len(r) + 1
      BY <1>2, <2>2
    <3>2. j \in 1..Len(r) \/ j = Len(r) + 1
      BY <1>2, <2>2
    <3> QED
      BY <1>3, <1>4, <2>2, <2>4, <3>1, <3>2 DEF Found
  <2>5. \A y : y \in Range(s) <=> y \in Range(r) \/ y = x
    <3>1. \A y : y \in Range(s) <=> \E i \in 1..Len(s) : y = s[i]
      BY <2>2 DEF Range
    <3>2. \A i \in 1..Len(s) : i \in 1..Len(r) \/ i = Len(r) + 1
      BY <1>2, <2>2
    <3>3. 1..Len(r) \subseteq 1..Len(s) /\ Len(r) + 1 \in 1..Len(s)
      BY <1>2, <2>2
    <3> QED
      BY <1>3, <2>2, <3>1, <3>2, <3>3
  <2>6. \A b \in 0..a : ring[At(h, b)] \in Range(s)
    <3>1. \A b \in 0..(a - 1) : ring[At(h, b)] \in Range(r)
      BY <1>4 DEF Found
    <3>2. \A b \in 0..a : b \in 0..(a - 1) \/ b = a
      BY <1>1
    <3> QED
      BY <2>5, <3>1, <3>2 DEF x
  <2>7. \A b \in 0..(Size - 1) : ring[At(h, b)] \notin Range(r) => a <= b
    <3>1. \A b \in 0..(Size - 1) : ~ (a <= b) => b \in 0..(a - 1)
      BY <1>1
    <3> QED
      BY <1>4, <3>1 DEF Found
  <2>8. FirstMeets(h, a, x)
    BY <1>4, <2>7 DEF FirstMeets, x
  <2>9. ASSUME NEW i \in 1..Len(s), NEW n \in nodes, n \notin {s[j] : j \in 1..i}
        PROVE  Distance(h, s[i]) < Distance(h, n)
    <3>1. CASE i = Len(s)
      <4>1. n \notin Range(s)
        BY <2>2, <2>9, <3>1 DEF Range
      <4>2. \A b \in 0..(Size - 1) : ring[At(h, b)] = n => a <= b /\ a # b
        BY <2>5, <2>7, <4>1 DEF x
      <4>3. \A b \in 0..(Size - 1) : ring[At(h, b)] = n => a < b
        BY <1>1, <4>2
      <4> QED
        BY <1>2, <2>2, <2>8, <3>1, <4>3, EarlierIsCloser
    <3>2. CASE i \in 1..Len(r)
      <4>1. \A j \in 1..i : j \in 1..Len(r)
        BY <1>2, <3>2
      <4>2. s[i] = r[i] /\ \A j \in 1..i : s[j] = r[j]
        BY <2>2, <3>2, <4>1
      <4>3. n \notin {r[j] : j \in 1..i}
        BY <2>9, <4>2
      <4> QED
        BY <3>2, <4>2, <4>3 DEF Found
    <3> QED
      BY <1>2, <2>2, <3>1, <3>2
  <2>10. 0..((a + 1) - 1) = 0..a
    BY <1>1
  <2> QED
    BY <2>1, <2>2, <2>3, <2>4, <2>6, <2>9, <2>10 DEF Found
<1>5. CASE ~ (Len(r) < rf /\ x \notin Range(r))
  <2>1. Turn(h, rf, r, a + 1) = r
    BY <1>1, <1>5 DEF Turn, x
  <2>2. \A b \in 0..((a + 1) - 1) : b \in 0..(a - 1) \/ b = a
    BY <1>1
  <2>3. Len(r) < rf => \A b \in 0..((a + 1) - 1) : ring[At(h, b)] \in Range(r)
    BY <1>5, <2>2 DEF Found, x
  <2> QED
    BY <2>1, <2>3 DEF Found
<1> QED
  BY <1>4, <1>5
\* get_replicas returns what is found after a whole lap.
LEMMA LapFinds ==
    ASSUME Inv, nodes # {}, NEW h \in Hash, NEW rf \in Nat
    PROVE  Found(h, rf, GetReplicas(h, rf), Size)
<1>1. PICK F : Loop(h, rf, F) /\ GetReplicas(h, rf) = F[Size]
  BY LoopExists, GetReplicasLoops
<1> DEFINE S == {a \in Nat : a <= Size => Found(h, rf, F[a], a)}
<1>2. Size \in Nat
  BY RingCounts
<1>3. /\ F[0] = <<>>
      /\ \A a \in Nat : a + 1 <= Size => F[a + 1] = Turn(h, rf, F[a], a + 1)
  BY <1>1, <1>2 DEF Loop
<1>4. 0 \in S
  <2>1. <<>> \in Seq(nodes) /\ Len(<<>>) = 0 /\ 1..0 = {} /\ 0..(0 - 1) = {}
    OBVIOUS
  <2>2. Found(h, rf, <<>>, 0)
    BY <2>1 DEF Found
  <2> QED
    BY <1>3, <2>2
<1>5. ASSUME NEW a \in Nat, a \in S PROVE a + 1 \in S
  <2>1. a + 1 <= Size => a \in 0..(Size - 1) /\ a <= Size
    BY <1>2
  <2>2. a + 1 <= Size => Found(h, rf, F[a + 1], a + 1)
    BY <1>3, <1>5, <2>1, TurnFinds
  <2> QED
    BY <2>2
<1>6. Size \in S
  <2> HIDE DEF S
  <2> QED
    BY <1>2, <1>4, <1>5, SetInduction
<1> QED
  BY <1>1, <1>2, <1>6

\* The ring has finitely many nodes, since it has finitely many positions.
LEMMA FinitelyMany ==
    ASSUME Inv
    PROVE  IsFiniteSet(nodes) /\ Cardinality(nodes) \in Nat
<1>1. IsFiniteSet(DOMAIN ring)
  BY RingCounts, CountType
<1>2. \A n \in nodes : \E p \in DOMAIN ring : ring[p] = n
  BY Occupied DEF Inv, TypeOK, Placed
<1>3. ring \in Surjection(DOMAIN ring, nodes)
  BY <1>2 DEF Surjection, Inv, TypeOK
<1> QED
  BY <1>1, <1>3, FS_Surjection, FS_CardinalityType

\* There are as many replicas as asked for, or all nodes are.
LEMMA EnoughReplicas ==
    ASSUME Inv, nodes # {}, NEW h \in Hash, NEW rf \in Nat, NEW r,
           Found(h, rf, r, Size)
    PROVE  \/ Len(r) = rf /\ rf <= Cardinality(nodes)
           \/ Len(r) < rf /\ Len(r) = Cardinality(nodes)
<1>1. r \in Seq(nodes) /\ Len(r) \in Nat /\ Len(r) <= rf /\ r \in [1..Len(r) -> nodes]
  BY DEF Found
<1>2. r \in Bijection(1..Len(r), Range(r)) /\ Range(r) \in SUBSET nodes
  BY <1>1 DEF Found, Range, Bijection, Injection, Surjection, IsInjective
<1>3. Cardinality(Range(r)) = Len(r)
  BY <1>1, <1>2, FS_CountingElements DEF ExistsBijection
<1>4. Len(r) <= Cardinality(nodes)
  BY <1>2, <1>3, FinitelyMany, FS_Subset
<1>5. ASSUME Len(r) < rf PROVE Range(r) = nodes
  <2>1. \A b \in 0..(Size - 1) : ring[At(h, b)] \in Range(r)
    BY <1>5 DEF Found
  <2>2. ASSUME NEW n \in nodes PROVE n \in Range(r)
    <3>1. PICK b \in 0..(Size - 1) : FirstMeets(h, b, n)
      BY WalkMeetsNodes
    <3> QED
      BY <2>1, <3>1 DEF FirstMeets
  <2> QED
    BY <1>2, <2>2
<1>6. Cardinality(nodes) \in Nat /\ (Len(r) < rf => Len(r) = Cardinality(nodes))
  BY <1>3, <1>5, FinitelyMany
<1>7. Len(r) \in Nat /\ Len(r) <= rf
  BY <1>1
<1> QED
  BY <1>4, <1>6, <1>7

\* The smaller of two numbers.
LEMMA MinOfTwo ==
    ASSUME NEW x \in Nat, NEW y \in Nat
    PROVE  Min({x, y}) = IF x <= y THEN x ELSE y
<1>1. PICK m \in {x, y} : m = IF x <= y THEN x ELSE y
  OBVIOUS
<1>2. \A z \in {x, y} : m <= z
  BY <1>1
<1>3. \A z \in {x, y} : (\A w \in {x, y} : z <= w) => z = m
  BY <1>1
<1> QED
  BY <1>1, <1>2, <1>3 DEF Min

\* The list that get_replicas returns, for any number of replicas.
LEMMA ReplicasInOrder ==
    ASSUME Inv, nodes # {}, NEW h \in Hash, NEW rf \in Nat \ {0}, NEW r,
           r = GetReplicas(h, rf)
    PROVE  /\ r \in Seq(nodes) /\ Len(r) = Min({rf, Cardinality(nodes)}) /\ 1 \in 1..Len(r)
           /\ r[1] = GetNode(h)
           /\ \A i \in 1..Len(r), n \in nodes :
                  n \notin {r[j] : j \in 1..i} => Distance(h, r[i]) < Distance(h, n)
<1>1. Found(h, rf, r, Size)
  BY LapFinds
<1>2. /\ r \in Seq(nodes) /\ Len(r) \in Nat
      /\ \A i \in 1..Len(r), n \in nodes :
             n \notin {r[j] : j \in 1..i} => Distance(h, r[i]) < Distance(h, n)
  BY <1>1 DEF Found
<1>3. Cardinality(nodes) \in Nat \ {0}
  BY FinitelyMany, FS_EmptySet
<1>4. \/ Len(r) = rf /\ rf <= Cardinality(nodes)
      \/ Len(r) < rf /\ Len(r) = Cardinality(nodes)
  BY <1>1, EnoughReplicas
<1>5. Len(r) = Min({rf, Cardinality(nodes)})
  BY <1>3, <1>4, MinOfTwo
<1>6. 1 \in 1..Len(r) /\ r[1] \in nodes
  BY <1>2, <1>3, <1>4
<1>7. r[1] = GetNode(h)
  <2> SUFFICES ASSUME r[1] # GetNode(h) PROVE FALSE
    OBVIOUS
  <2>1. GetNode(h) \in nodes /\ Distance(h, GetNode(h)) <= Distance(h, r[1])
    BY <1>6, OwnerFound DEF OwnerIsClosest
  <2>2. GetNode(h) \notin {r[j] : j \in 1..1}
    OBVIOUS
  <2>3. Distance(h, r[1]) < Distance(h, GetNode(h))
    BY <1>2, <1>6, <2>1, <2>2
  <2>4. Distance(h, r[1]) \in Int /\ Distance(h, GetNode(h)) \in Int
    BY <1>6, <2>1, DistanceType
  <2> QED
    BY <2>1, <2>3, <2>4
<1> QED
  BY <1>2, <1>5, <1>6, <1>7

\* Lookups of replicas are right whenever the ring is that of its nodes.
LEMMA ReplicasFound == Inv => ReplicasAreClosest
<1> SUFFICES ASSUME Inv, nodes # {}, NEW h \in Hash, NEW rf \in 1..(Cardinality(Node) + 1),
                    NEW r, r = GetReplicas(h, rf)
             PROVE  /\ Len(r) = Min({rf, Cardinality(nodes)})
                    /\ r[1] = GetNode(h)
                    /\ \A i \in DOMAIN r : \A n \in nodes \ {r[j] : j \in 1..i} :
                           Distance(h, r[i]) < Distance(h, n)
  BY DEF ReplicasAreClosest
<1>1. rf \in Nat \ {0}
  OBVIOUS
<1>2. DOMAIN r = 1..Len(r)
  BY <1>1, ReplicasInOrder
<1> QED
  BY <1>1, <1>2, ReplicasInOrder

\* get_replicas returns the closest nodes, in the order of their distances, the
\* owner first, as many as asked for or as there are.
THEOREM ReplicasAreTheClosest == Spec => []ReplicasAreClosest
  BY Invariance, ReplicasFound, PTL

-----------------------------------------------------------------------------
(* What a change of the ring moves. *)

\* No two nodes of the ring are equally far from a key.
LEMMA DistancesDiffer ==
    ASSUME Inv, NEW h \in Hash, NEW m \in nodes, NEW n \in nodes,
           Distance(h, m) = Distance(h, n)
    PROVE  m = n
<1>1. PICK a \in 0..(Size - 1) : FirstMeets(h, a, m) /\ Distance(h, m) = Clockwise(h, At(h, a))
  BY WalkMeetsNodes
<1>2. PICK b \in 0..(Size - 1) : FirstMeets(h, b, n) /\ Distance(h, n) = Clockwise(h, At(h, b))
  BY WalkMeetsNodes
<1>3. At(h, a) \in Hash /\ At(h, b) \in Hash
  BY Positions
<1>4. \A p, q \in Hash : Clockwise(h, p) = Clockwise(h, q) => p = q
  BY RingAssumption DEF Clockwise, Hash
<1>5. At(h, a) = At(h, b)
  BY <1>1, <1>2, <1>3, <1>4
<1> QED
  BY <1>1, <1>2, <1>5 DEF FirstMeets

\* A node that joins takes keys over; no key goes from one old node to another.
LEMMA JoinMovesToNew ==
    ASSUME Inv, Inv', OwnerIsClosest, OwnerIsClosest', NEW h \in Hash,
           place' = place, nodes # {}, nodes \subseteq nodes'
    PROVE  GetNode(h)' \in {GetNode(h)} \cup (nodes' \ nodes)
<1> SUFFICES ASSUME GetNode(h)' \in nodes PROVE GetNode(h)' = GetNode(h)
  BY DEF OwnerIsClosest
<1>1. GetNode(h) \in nodes /\ GetNode(h) \in nodes'
  BY DEF OwnerIsClosest
<1>2. \A n \in nodes : Distance(h, n)' = Distance(h, n)
  BY DEF Distance
<1> PICK o, p : o = GetNode(h) /\ p = GetNode(h)'
  OBVIOUS
<1>3. Distance(h, o) <= Distance(h, p)
  BY DEF OwnerIsClosest
<1>4. Distance(h, p)' <= Distance(h, o)'
  BY <1>1 DEF OwnerIsClosest
<1>5. Distance(h, o) \in Int /\ Distance(h, p) \in Int
  BY <1>1, DistanceType
<1>6. Distance(h, o) = Distance(h, p)
  BY <1>1, <1>2, <1>3, <1>4, <1>5
<1> QED
  BY <1>1, <1>6, DistancesDiffer
\* The second replica is the closest node but for the owner.
LEMMA SecondReplica ==
    ASSUME Inv, NEW h \in Hash, NEW p \in nodes, p # GetNode(h),
           \A m \in nodes : m # GetNode(h) => Distance(h, p) <= Distance(h, m)
    PROVE  GetReplicas(h, 2)[1] = GetNode(h) /\ GetReplicas(h, 2)[2] = p
<1>1. GetNode(h) \in nodes
  BY OwnerFound DEF OwnerIsClosest
<1>2. PICK two, r : two \in Nat \ {0} /\ two = 2 /\ r = GetReplicas(h, two)
  OBVIOUS
<1>3. /\ r \in Seq(nodes) /\ Len(r) = Min({two, Cardinality(nodes)})
      /\ r[1] = GetNode(h)
      /\ \A i \in 1..Len(r), m \in nodes :
             m \notin {r[j] : j \in 1..i} => Distance(h, r[i]) < Distance(h, m)
      /\ \A i, j \in 1..Len(r) : i # j => r[i] # r[j]
  <2>1. two \in Nat \ {0} /\ r = GetReplicas(h, two) /\ nodes # {}
    BY <1>2
  <2>2. r \in Seq(nodes) /\ Len(r) = Min({two, Cardinality(nodes)})
    BY <2>1, ReplicasInOrder
  <2>3. r[1] = GetNode(h)
    BY <2>1, ReplicasInOrder
  <2>4. \A i \in 1..Len(r), n \in nodes :
             n \notin {r[j] : j \in 1..i} => Distance(h, r[i]) < Distance(h, n)
    BY <2>1, ReplicasInOrder
  <2>5. \A i, j \in 1..Len(r) : i # j => r[i] # r[j]
    <3>1. Found(h, two, r, Size)
      BY <2>1, LapFinds
    <3> QED
      BY <3>1, Zenon DEF Found
  <2> QED
    BY <2>2, <2>3, <2>4, <2>5
<1>4. Cardinality(nodes) >= 2 /\ Cardinality(nodes) \in Nat
  <2> DEFINE pair == {p} \cup {GetNode(h)}
  <2>1. pair \in SUBSET nodes
    BY <1>1
  <2>2. IsFiniteSet({p}) /\ Cardinality({p}) = 1 /\ GetNode(h) \notin {p}
    BY FS_Singleton
  <2>3. Cardinality(pair) = 2
    BY <2>2, FS_AddElement
  <2> HIDE DEF pair
  <2> QED
    BY <2>1, <2>3, FinitelyMany, FS_Subset
<1>5. Len(r) = 2
  BY <1>2, <1>3, <1>4, MinOfTwo
<1>6. 1 \in 1..Len(r) /\ 2 \in 1..Len(r) /\ 1 # 2
  BY <1>5
<1>7. r[1] # r[2] /\ r[2] \in nodes
  <2>1. \A i \in 1..Len(r) : r[i] \in nodes
    BY <1>3
  <2> QED
    BY <1>3, <1>6, <2>1, Zenon
<1>8. r[2] = p
  <2> SUFFICES ASSUME r[2] # p PROVE FALSE
    OBVIOUS
  <2>1. p \notin {r[j] : j \in 1..2}
    <3>1. \A j \in 1..2 : j = 1 \/ j = 2
      OBVIOUS
    <3> QED
      BY <1>3, <3>1
  <2>2. Distance(h, r[2]) < Distance(h, p)
    BY <1>3, <1>6, <2>1, Zenon
  <2>3. Distance(h, p) <= Distance(h, r[2])
    BY <1>3, <1>7
  <2>4. Distance(h, p) \in Int /\ Distance(h, r[2]) \in Int
    BY <1>7, DistanceType
  <2> QED
    BY <2>2, <2>3, <2>4
<1> QED
  BY <1>2, <1>3, <1>8

\* When a node leaves, a key stays where it is unless it was on that node; then
\* the second replica, closest of those that remain, is its new owner.
LEMMA LeavePromotes ==
    ASSUME Inv, Inv', OwnerIsClosest, OwnerIsClosest', NEW h \in Hash, NEW n \in nodes,
           place' = place, nodes' = nodes \ {n}, nodes' # {}
    PROVE  GetNode(h)' = GetNode(h) \/ Promoted(n, h)
<1>1. GetNode(h) \in nodes /\ GetNode(h)' \in nodes'
  BY DEF OwnerIsClosest
<1>2. \A m \in nodes : Distance(h, m)' = Distance(h, m)
  BY DEF Distance
<1> PICK o, p : o = GetNode(h) /\ p = GetNode(h)'
  OBVIOUS
<1>3. \A m \in nodes : Distance(h, m) \in Int /\ Distance(h, o) <= Distance(h, m)
  BY <1>1, DistanceType DEF OwnerIsClosest
<1>4. \A m \in nodes' : Distance(h, p)' <= Distance(h, m)'
  BY <1>1 DEF OwnerIsClosest
<1>5. \A m \in nodes' : Distance(h, p) <= Distance(h, m)
  BY <1>1, <1>2, <1>4
<1>6. CASE o # n
  <2>1. Distance(h, o) = Distance(h, p)
    BY <1>1, <1>3, <1>5, <1>6
  <2> QED
    BY <1>1, <2>1, DistancesDiffer
<1>7. CASE o = n
  <2>1. p \in nodes /\ p # GetNode(h)
    BY <1>1, <1>7
  <2>2. \A m \in nodes : m # GetNode(h) => Distance(h, p) <= Distance(h, m)
    BY <1>5, <1>7
  <2>3. GetReplicas(h, 2)[1] = GetNode(h) /\ GetReplicas(h, 2)[2] = p
    BY <2>1, <2>2, SecondReplica
  <2> QED
    BY <1>7, <2>3 DEF Promoted
<1> QED
  BY <1>6, <1>7

\* A step of the ring moves only the keys it must.
LEMMA OnlyAffectedKeysMoveInAStep ==
    ASSUME Inv, Inv', OwnerIsClosest, OwnerIsClosest', Next, NEW h \in Hash
    PROVE  /\ nodes # {} /\ nodes \subseteq nodes'
                 => GetNode(h)' \in {GetNode(h)} \cup (nodes' \ nodes)
           /\ nodes' # {} /\ nodes' \subseteq nodes
                 => \/ GetNode(h)' = GetNode(h)
                    \/ \E n \in nodes \ nodes' : Promoted(n, h)
<1>1. place' = place
  BY DEF Next, AddNode, RemoveNode
<1>2. nodes # {} /\ nodes \subseteq nodes' => GetNode(h)' \in {GetNode(h)} \cup (nodes' \ nodes)
  BY <1>1, JoinMovesToNew
<1>3. ASSUME NEW n \in Node, AddNode(n) PROVE ~ (nodes' \subseteq nodes)
  BY <1>3 DEF AddNode
<1>4. ASSUME NEW n \in Node, RemoveNode(n), nodes' # {}
      PROVE  GetNode(h)' = GetNode(h) \/ \E m \in nodes \ nodes' : Promoted(m, h)
  <2>1. n \in nodes /\ nodes' = nodes \ {n}
    BY <1>4 DEF RemoveNode
  <2>2. GetNode(h)' = GetNode(h) \/ Promoted(n, h)
    BY <1>1, <1>4, <2>1, LeavePromotes
  <2> QED
    BY <2>1, <2>2
<1> QED
  BY <1>2, <1>3, <1>4 DEF Next

\* Consistent hashing: a node that joins takes keys over and no other node gains
\* any; the keys of a node that leaves go to their second replicas, and no other
\* key moves.
THEOREM OnlyAffectedKeysEverMove == Spec => OnlyAffectedKeysMove
<1>1. Inv /\ Inv' /\ OwnerIsClosest /\ OwnerIsClosest' /\ [Next]_vars =>
        [\A h \in Hash :
          /\ nodes # {} /\ nodes \subseteq nodes'
                => GetNode(h)' \in {GetNode(h)} \cup (nodes' \ nodes)
          /\ nodes' # {} /\ nodes' \subseteq nodes
                => \/ GetNode(h)' = GetNode(h)
                   \/ \E n \in nodes \ nodes' : Promoted(n, h)]_vars
  BY OnlyAffectedKeysMoveInAStep
<1> QED
  BY <1>1, Invariance, OwnerFound, PTL DEF Spec, OnlyAffectedKeysMove
=============================================================================
