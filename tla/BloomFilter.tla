---------------------------- MODULE BloomFilter -----------------------------
(***************************************************************************)
(* The Bloom filter of the gateway (gateway/app/services/bloom_filter.py). *)
(* It is created at start-up and no request uses it yet; a GET is meant to *)
(* answer 404 without a call when the filter says that the key is absent,  *)
(* so a false negative would hide a cached key.                            *)
(*                                                                         *)
(* A byte of the bit array is the set of the positions of its one bits.    *)
(* SHA-256 is arbitrary: digest[k] holds the num_hashes integers that are  *)
(* read off the digests for k.                                             *)
(***************************************************************************)
EXTENDS Naturals

CONSTANTS
    Key,
    size_bytes,
    digest

VARIABLES
    bit_array,
    added       \* history: the keys added since the filter was last empty

vars == <<bit_array, added>>

size_bits == size_bytes * 8

\* The filter has at least one byte; with none, _hashes would divide by zero.
FilterAssumption ==
    /\ size_bytes \in Nat \ {0}
    /\ digest \in [Key -> SUBSET Nat]

\* _hashes
Hashes(k) == {h % size_bits : h \in digest[k]}

ByteIdx(bit_pos) == bit_pos \div 8

BitIdx(bit_pos) == bit_pos % 8

\* The bits of byte b that add sets for the keys S.
BitsOf(S, b) ==
    {BitIdx(p) : p \in {q \in UNION {Hashes(k) : k \in S} : ByteIdx(q) = b}}

Empty == [b \in 0..(size_bytes - 1) |-> {}]

Init == bit_array = Empty /\ added = {}

Add(k) ==
    /\ bit_array' = [b \in DOMAIN bit_array |-> bit_array[b] \cup BitsOf({k}, b)]
    /\ added' = added \cup {k}

Clear ==
    /\ bit_array' = Empty
    /\ added' = {}

\* clear, then add for every key of the list
LoadFromSnapshot(keys) ==
    /\ bit_array' = [b \in DOMAIN Empty |-> BitsOf(keys, b)]
    /\ added' = keys

MightExist(k) == \A p \in Hashes(k) : BitIdx(p) \in bit_array[ByteIdx(p)]

Next ==
    \/ \E k \in Key : Add(k)
    \/ Clear
    \/ \E keys \in SUBSET Key : LoadFromSnapshot(keys)

Spec == Init /\ [][Next]_vars

-----------------------------------------------------------------------------
(***************************************************************************)
(* "False negatives: NEVER": every key added since the last clear might    *)
(* exist, whatever else was added.                                         *)
(***************************************************************************)
NoFalseNegatives == \A k \in added : MightExist(k)

(***************************************************************************)
(* A key might exist exactly when each of its positions is a position of   *)
(* some key that was added: the split of a position into byte and bit      *)
(* makes no two positions share a bit, so false positives come from        *)
(* colliding hashes alone.                                                 *)
(***************************************************************************)
OnlyCollisionsMislead ==
    \A k \in Key :
        MightExist(k) <=> Hashes(k) \subseteq UNION {Hashes(j) : j \in added}
=============================================================================
