---------------------------- MODULE MCRebalancer ----------------------------
(* Instances of Rebalancer.tla for model checking. *)
EXTENDS Rebalancer

CONSTANTS a, b, k1, k2

\* k2 stays on a node, k1 moves from that node to the other and back.
MCRings ==
    {[k \in {k1, k2} |-> a], [k \in {k1, k2} |-> IF k = k1 THEN b ELSE a]}

\* One key that may be anywhere or, with no node alive, nowhere.
MCRingsOfOneKey == [{k1} -> {a, b, NoNode}]
=============================================================================
