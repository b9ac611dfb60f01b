---------------------------- MODULE MCDataPlane -----------------------------
(***************************************************************************)
(* Instances of DataPlane for TLC: the walk around the ring visits the     *)
(* nodes in the same order for every key.  The order makes no difference   *)
(* to the set of next states, since a call finds any ring and any replicas *)
(* available: any node is the primary or the first replica of some ring.   *)
(* So the nodes are symmetric, as are the calls and the values.            *)
(***************************************************************************)
EXTENDS DataPlane, TLC

Walk ==
    [k \in Key |-> CHOOSE f \in [Node -> 1..Cardinality(Node)] :
                      \A m, n \in Node : f[m] = f[n] => m = n]

Symmetry == Permutations(Node) \cup Permutations(Call) \cup Permutations(Value)
=============================================================================
