------------------------------ MODULE HashRing ------------------------------
(***************************************************************************)
(* The consistent-hash ring (gateway/app/hash_ring.py).  Where MD5 puts    *)
(* the virtual nodes of each node is not the ring's choice: place is drawn *)
(* once, at random, in the initial state.  Two virtual nodes never fall on *)
(* the same position (MD5 has 2^128 of them).                              *)
(***************************************************************************)
EXTENDS Naturals, Sequences, FiniteSets, Functions, FiniteSetsExt

CONSTANTS
    Node,
    RingSize,       \* hash values are 0 .. RingSize - 1
    virtual_nodes   \* positions per node

ASSUME RingAssumption ==
    /\ RingSize \in Nat \ {0}
    /\ virtual_nodes \in Nat \ {0}

Hash == 0..(RingSize - 1)

VARIABLES
    place,  \* place[n]: the hashes of n#0, n#1, ...
    ring,   \* self.ring: the node at each occupied position
    nodes   \* self.nodes

vars == <<place, ring, nodes>>

\* Every occupied position belongs to a node of the ring: remove_node leaves
\* no virtual node behind.
TypeOK ==
    /\ place \in [Node -> SUBSET Hash]
    /\ nodes \subseteq Node
    /\ DOMAIN ring \subseteq Hash
    /\ ring \in [DOMAIN ring -> nodes]

Placements ==
    {f \in [Node -> kSubset(virtual_nodes, Hash)] :
        \A m, n \in Node : m # n => f[m] \cap f[n] = {}}

Init ==
    /\ place \in Placements
    /\ ring = [p \in {} |-> {}]
    /\ nodes = {}

-----------------------------------------------------------------------------
(* add_node and remove_node; each returns at once when there is nothing to *)
(* do.                                                                     *)

\* Faulty variant: one virtual node too few.
AddNodeOneShort(n) ==
    LET placed == place[n] \ {Max(place[n])}
    IN  /\ n \notin nodes
        /\ nodes' = nodes \cup {n}
        /\ ring' = [p \in DOMAIN ring \cup placed |->
                       IF p \in placed THEN n ELSE ring[p]]
        /\ UNCHANGED place

AddNode(n) ==
    /\ n \notin nodes
    /\ nodes' = nodes \cup {n}
    /\ ring' = [p \in DOMAIN ring \cup place[n] |->
                   IF p \in place[n] THEN n ELSE ring[p]]
    /\ UNCHANGED place

\* Faulty variant: only one of the virtual nodes is removed.
RemoveNodeOneVirtual(n) ==
    /\ n \in nodes
    /\ nodes' = nodes \ {n}
    /\ ring' = Restrict(ring, DOMAIN ring \ {Max({p \in DOMAIN ring : ring[p] = n})})
    /\ UNCHANGED place

RemoveNode(n) ==
    /\ n \in nodes
    /\ nodes' = nodes \ {n}
    /\ ring' = Restrict(ring, {p \in DOMAIN ring : ring[p] # n})
    /\ UNCHANGED place

Next ==
    \/ \E n \in Node : AddNode(n)
    \/ \E n \in Node : RemoveNode(n)

Spec == Init /\ [][Next]_vars

-----------------------------------------------------------------------------
(* Lookups.  Sequences count from 1, the list sorted_keys from 0. *)

\* sorted(self.ring.keys()): the i-th has i positions up to itself
sorted_keys ==
    [i \in 1..Cardinality(DOMAIN ring) |->
        CHOOSE p \in DOMAIN ring : Cardinality({q \in DOMAIN ring : q <= p}) = i]

\* Faulty variant: hashing modulo the number of virtual nodes.
StartIndexModulo(h) == h % Cardinality(DOMAIN ring)

\* Faulty variant: the index is not wrapped around but held at the end.
StartIndexClamped(h) ==
    LET idx == Cardinality({p \in DOMAIN ring : p <= h})
    IN  IF idx = Cardinality(DOMAIN ring) THEN idx - 1 ELSE idx

\* bisect_right(sorted_keys, h), wrapped around
StartIndex(h) ==
    LET idx == Cardinality({p \in DOMAIN ring : p <= h})
    IN  IF idx = Cardinality(DOMAIN ring) THEN 0 ELSE idx

\* get_node of a key with hash h, on a ring that is not empty
GetNode(h) == ring[sorted_keys[StartIndex(h) + 1]]

\* Faulty variant: every virtual node met on the walk is taken.
GetReplicasRepeating(h, replication_factor) ==
    LET size == Cardinality(DOMAIN ring)
        node(attempt) == ring[sorted_keys[((StartIndex(h) + attempt) % size) + 1]]
        Found[attempts \in 0..size] ==
            IF attempts = 0 THEN <<>>
            ELSE LET replicas == Found[attempts - 1]
                 IN  IF Len(replicas) < replication_factor
                     THEN Append(replicas, node(attempts - 1))
                     ELSE replicas
    IN  Found[size]

\* get_replicas: Found[i] is the list after i turns of the while loop
GetReplicas(h, replication_factor) ==
    LET size == Cardinality(DOMAIN ring)
        node(attempt) == ring[sorted_keys[((StartIndex(h) + attempt) % size) + 1]]
        Found[attempts \in 0..size] ==
            IF attempts = 0 THEN <<>>
            ELSE LET replicas == Found[attempts - 1]
                 IN  IF /\ Len(replicas) < replication_factor
                        /\ node(attempts - 1) \notin Range(replicas)
                     THEN Append(replicas, node(attempts - 1))
                     ELSE replicas
    IN  Found[size]

-----------------------------------------------------------------------------
(***************************************************************************)
(* The reference: steps clockwise from h to position p, never 0, and to    *)
(* the first virtual node of n.                                            *)
(***************************************************************************)
Clockwise(h, p) == IF p > h THEN p - h ELSE p + RingSize - h

Distance(h, n) == Min({Clockwise(h, p) : p \in place[n]})

(***************************************************************************)
(* A ring that grew and shrank is the ring built from scratch for its      *)
(* nodes.  The cluster manager always builds a new one, the rebalancer     *)
(* compares an old and a new one: they agree on what a set of nodes means. *)
(***************************************************************************)
RingIsItsNodes ==
    /\ DOMAIN ring = UNION {place[n] : n \in nodes}
    /\ \A p \in DOMAIN ring : p \in place[ring[p]]

(***************************************************************************)
(* bisect and wrap-around find the owner: no node of the ring has a        *)
(* virtual node closer to the key, walking clockwise from its hash.        *)
(***************************************************************************)
OwnerIsClosest ==
    nodes # {} =>
        \A h \in Hash :
            /\ GetNode(h) \in nodes
            /\ \A n \in nodes : Distance(h, GetNode(h)) <= Distance(h, n)

(***************************************************************************)
(* The replicas of a key are the nodes closest to it, in order: the        *)
(* primary first, every one a different node, as many as asked for or as   *)
(* there are, and every node left out is farther away than those taken.    *)
(***************************************************************************)
ReplicasAreClosest ==
    nodes # {} =>
        \A h \in Hash, rf \in 1..(Cardinality(Node) + 1) :
            LET replicas == GetReplicas(h, rf)
            IN  /\ Len(replicas) = Min({rf, Cardinality(nodes)})
                /\ replicas[1] = GetNode(h)
                /\ \A i \in DOMAIN replicas :
                       \A n \in nodes \ {replicas[j] : j \in 1..i} :
                           Distance(h, replicas[i]) < Distance(h, n)

\* The owner n of h is replaced by the node that was its second replica.
Promoted(n, h) == GetReplicas(h, 2)[1] = n /\ GetReplicas(h, 2)[2] = GetNode(h)'

(***************************************************************************)
(* Only the keys that must move do: a node that joins takes keys over and  *)
(* no other node gains any; when a node leaves, the keys of the others     *)
(* stay where they are, and each of its own goes to the node that was its  *)
(* second replica.                                                         *)
(***************************************************************************)
OnlyAffectedKeysMove ==
    [][\A h \in Hash :
          /\ nodes # {} /\ nodes \subseteq nodes'
                => GetNode(h)' \in {GetNode(h)} \cup (nodes' \ nodes)
          /\ nodes' # {} /\ nodes' \subseteq nodes
                => \/ GetNode(h)' = GetNode(h)
                   \/ \E n \in nodes \ nodes' : Promoted(n, h)]_vars
=============================================================================
