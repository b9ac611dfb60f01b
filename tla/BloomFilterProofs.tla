------------------------- MODULE BloomFilterProofs --------------------------
(***************************************************************************)
(* The Bloom filter answers right for every set of keys, every hash        *)
(* function and every size.                                                *)
(***************************************************************************)
EXTENDS BloomFilter, TLAPS

\* The bit array is the one that the keys added so far account for, bit by
\* bit.  The answers of might_exist follow from it.
Inv ==
    /\ added \in SUBSET Key
    /\ bit_array = [b \in 0..(size_bytes - 1) |-> BitsOf(added, b)]

\* A position of a key is a bit of one of the bytes ...
LEMMA PositionInArray ==
  ASSUME FilterAssumption, NEW k \in Key, NEW p \in Hashes(k)
  PROVE  p \in Nat /\ ByteIdx(p) \in 0..(size_bytes - 1)
<1>1. PICK h \in Nat : p = h % size_bits
  BY DEF Hashes, FilterAssumption
<1>2. size_bits \in Nat /\ size_bits > 0 /\ size_bits = 8 * size_bytes
  BY DEF size_bits, FilterAssumption
<1>3. p \in Nat /\ p < size_bits
  BY <1>1, <1>2
<1>4. p \div 8 \in Nat /\ p \div 8 < size_bytes
  BY <1>2, <1>3 DEF FilterAssumption
<1> QED BY <1>3, <1>4 DEF ByteIdx, FilterAssumption

\* ... and no other position has the same byte and bit.
LEMMA PositionUnique ==
  ASSUME NEW p \in Nat, NEW q \in Nat, ByteIdx(p) = ByteIdx(q),
         BitIdx(p) = BitIdx(q)
  PROVE  p = q
<1>1. p = 8 * (p \div 8) + (p % 8) /\ q = 8 * (q \div 8) + (q % 8)
  OBVIOUS
<1> QED BY <1>1 DEF ByteIdx, BitIdx

\* An empty filter holds no bits.
LEMMA NoBits ==
  ASSUME NEW b
  PROVE  BitsOf({}, b) = {}
  BY DEF BitsOf

\* Every operation leaves exactly the bits of the keys that were added.
LEMMA NextInv == Inv /\ [Next]_vars => Inv'
<1> SUFFICES ASSUME Inv, [Next]_vars PROVE Inv'
  OBVIOUS
<1>1. ASSUME NEW k \in Key, Add(k) PROVE Inv'
  <2>1. added' = added \cup {k} /\ DOMAIN bit_array = 0..(size_bytes - 1)
    BY <1>1 DEF Inv, Add
  <2>2. \A b \in 0..(size_bytes - 1) :
           bit_array[b] \cup BitsOf({k}, b) = BitsOf(added', b)
    <3> TAKE b \in 0..(size_bytes - 1)
    <3>1. bit_array[b] = BitsOf(added, b)
      BY DEF Inv
    <3>2. BitsOf(added \cup {k}, b) = BitsOf(added, b) \cup BitsOf({k}, b)
      BY DEF BitsOf
    <3> QED BY <2>1, <3>1, <3>2
  <2>3. bit_array' = [b \in 0..(size_bytes - 1) |-> BitsOf(added', b)]
    BY <1>1, <2>1, <2>2 DEF Add
  <2> QED BY <2>1, <2>3 DEF Inv
<1>2. CASE Clear
  BY <1>2, NoBits DEF Inv, Clear, Empty
<1>3. ASSUME NEW keys \in SUBSET Key, LoadFromSnapshot(keys) PROVE Inv'
  BY <1>3 DEF Inv, LoadFromSnapshot, Empty
<1>4. CASE UNCHANGED vars
  BY <1>4 DEF Inv, vars
<1> QED BY <1>1, <1>2, <1>3, <1>4 DEF Next

\* Inv holds in every reachable state of the filter.
THEOREM Invariance == Spec => []Inv
<1>1. Init => Inv
  BY NoBits DEF Init, Inv, Empty
<1> QED BY <1>1, NextInv, PTL DEF Spec

\* What might_exist answers in a state that satisfies Inv.
LEMMA Answer ==
  ASSUME FilterAssumption, Inv, NEW k \in Key
  PROVE  MightExist(k) <=> Hashes(k) \subseteq UNION {Hashes(j) : j \in added}
<1>1. ASSUME NEW p \in Hashes(k)
      PROVE  BitIdx(p) \in bit_array[ByteIdx(p)]
                <=> p \in UNION {Hashes(j) : j \in added}
  <2>1. p \in Nat /\ bit_array[ByteIdx(p)] = BitsOf(added, ByteIdx(p))
    BY <1>1, PositionInArray DEF Inv
  <2>2. \A q \in UNION {Hashes(j) : j \in added} : q \in Nat
    BY PositionInArray DEF Inv
  <2>3. ASSUME BitIdx(p) \in BitsOf(added, ByteIdx(p))
        PROVE  p \in UNION {Hashes(j) : j \in added}
    BY <2>1, <2>2, <2>3, PositionUnique DEF BitsOf
  <2>4. ASSUME p \in UNION {Hashes(j) : j \in added}
        PROVE  BitIdx(p) \in BitsOf(added, ByteIdx(p))
    BY <2>4 DEF BitsOf
  <2> QED BY <2>1, <2>3, <2>4
<1> QED BY <1>1 DEF MightExist

\* might_exist is wrong about a key only if its hashes collide with those of
\* keys that were added, for every hash function and every size.
THEOREM CollisionsOnly ==
  ASSUME FilterAssumption
  PROVE  Spec => []OnlyCollisionsMislead
<1>1. Inv => OnlyCollisionsMislead
  BY Answer DEF OnlyCollisionsMislead
<1> QED BY <1>1, Invariance, PTL

\* The filter never says that a key is absent that was added.
THEOREM NeverAbsent ==
  ASSUME FilterAssumption
  PROVE  Spec => []NoFalseNegatives
<1>1. Inv => NoFalseNegatives
  BY Answer DEF NoFalseNegatives, Inv
<1> QED BY <1>1, Invariance, PTL
=============================================================================
