---------------------------- MODULE MCLRUCache -----------------------------
(***************************************************************************)
(* Instances of LRUCache.tla for TLC.                                      *)
(***************************************************************************)
EXTENDS LRUCache

CONSTANTS a, b, c, u, v

MCKey == {a, b, c}

MCValue == {u, v}

\* A batch as a snapshot of another node gives it.
MCBatches == {<<[key |-> c, value |-> v, ttl |-> 1], [key |-> a, value |-> v, ttl |-> 0]>>}
=============================================================================
