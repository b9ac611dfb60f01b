--------------------------- MODULE ClusterManager ---------------------------
(***************************************************************************)
(* The gateway's view of the cluster                                       *)
(* (gateway/app/services/cluster_manager.py): which nodes are registered,  *)
(* the health status of each, and the hash ring that routes requests.      *)
(* The endpoints /heartbeat and /register (gateway/app/api/heartbeat.py)   *)
(* and the periodic timeout scan change it.  Every method runs to its end  *)
(* on the event loop, so one call is one step.                             *)
(*                                                                         *)
(* This module allows a scan at any moment; Gateway.tla adds the loop that *)
(* decides when scans happen.                                              *)
(*                                                                         *)
(* A wall-clock reading is only ever used in now - last_heartbeat, which   *)
(* is silence here: the seconds since the last heartbeat, counted up to    *)
(* SilenceCap.  Metrics carried by a heartbeat and the event log are not   *)
(* read by any decision and are left out.                                  *)
(***************************************************************************)
EXTENDS Naturals

CONSTANTS
    Node,                 \* ids of the cache nodes that may ever register
    heartbeat_timeout_s,  \* seconds of silence that count as a miss
    DEAD_THRESHOLD,       \* misses that make a node dead
    SilenceCap            \* where the model stops counting seconds

ASSUME ClusterAssumption ==
    /\ heartbeat_timeout_s \in Nat
    /\ DEAD_THRESHOLD \in Nat \ {0}
    /\ SilenceCap \in Nat
    /\ SilenceCap > heartbeat_timeout_s

VARIABLES
    status,           \* health status; "unregistered": not a key of self.nodes
    silence,          \* seconds since last_heartbeat
    failed_attempts,  \* misses since the last heartbeat
    before,           \* insertion order of the dict self.nodes: the pairs
                      \* <<m, n>> with m enumerated before n
    hash_ring         \* nodes the current HashRing was built from; {} is None

vars == <<status, silence, failed_attempts, before, hash_ring>>

HealthStatus == {"alive", "suspect", "dead", "recovered"}

\* The state has its type; in particular no node collects more misses than
\* DEAD_THRESHOLD, since check_heartbeat_timeouts skips the dead.
TypeOK ==
    /\ status \in [Node -> HealthStatus \cup {"unregistered"}]
    /\ silence \in [Node -> 0..SilenceCap]
    /\ failed_attempts \in [Node -> 0..DEAD_THRESHOLD]
    /\ before \in SUBSET (Node \X Node)
    /\ hash_ring \in SUBSET Node

Registered == {n \in Node : status[n] # "unregistered"}

Init ==
    /\ status = [n \in Node |-> "unregistered"]
    /\ silence = [n \in Node |-> 0]
    /\ failed_attempts = [n \in Node |-> 0]
    /\ before = {}
    /\ hash_ring = {}

\* Faulty variant: recovered nodes are put on the ring as well.
RingOfRespondingNodes(st) == {n \in Node : st[n] \in {"alive", "recovered"}}

\* _rebuild_hash_ring, given the statuses it finds
RingOf(st) == {n \in Node : st[n] = "alive"}

-----------------------------------------------------------------------------
(***************************************************************************)
(* register_node: the metadata of n is replaced by a new one, whatever it  *)
(* was; a node that was known keeps its place in the dict.                 *)
(***************************************************************************)
RegisterNode(n) ==
    /\ status' = [status EXCEPT ![n] = "alive"]
    /\ silence' = [silence EXCEPT ![n] = 0]
    /\ failed_attempts' = [failed_attempts EXCEPT ![n] = 0]
    /\ before' = IF n \in Registered THEN before
                                     ELSE before \cup (Registered \X {n})
    /\ hash_ring' = RingOf(status')

DeregisterNode(n) ==
    /\ n \in Registered
    /\ status' = [status EXCEPT ![n] = "unregistered"]
    /\ silence' = [silence EXCEPT ![n] = 0]
    /\ failed_attempts' = [failed_attempts EXCEPT ![n] = 0]
    /\ before' = {p \in before : p[1] # n /\ p[2] # n}
    /\ hash_ring' = RingOf(status')

\* The status a heartbeat gives to a node that had status s.
Heard(s) == IF s = "dead" THEN "recovered"
            ELSE IF s = "suspect" THEN "alive"
            ELSE s

\* Faulty variant: the ring is rebuilt only when a dead node comes back.
ProcessHeartbeatRebuildsOnRecovery(n) ==
    /\ n \in Registered
    /\ silence' = [silence EXCEPT ![n] = 0]
    /\ failed_attempts' = [failed_attempts EXCEPT ![n] = 0]
    /\ status' = [status EXCEPT ![n] = Heard(@)]
    /\ hash_ring' = IF status[n] = "dead" THEN RingOf(status') ELSE hash_ring
    /\ UNCHANGED before

\* Faulty variant: the misses of a node that is heard again are not forgotten.
ProcessHeartbeatKeepsMisses(n) ==
    /\ n \in Registered
    /\ silence' = [silence EXCEPT ![n] = 0]
    /\ status' = [status EXCEPT ![n] = Heard(@)]
    /\ hash_ring' = IF status' # status THEN RingOf(status') ELSE hash_ring
    /\ UNCHANGED <<failed_attempts, before>>

\* process_heartbeat for a node that is registered
ProcessHeartbeat(n) ==
    /\ n \in Registered
    /\ silence' = [silence EXCEPT ![n] = 0]
    /\ failed_attempts' = [failed_attempts EXCEPT ![n] = 0]
    /\ status' = [status EXCEPT ![n] = Heard(@)]
    /\ hash_ring' = IF status' # status THEN RingOf(status') ELSE hash_ring
    /\ UNCHANGED before

(***************************************************************************)
(* POST /heartbeat: an unknown node is registered first; processing the    *)
(* heartbeat of a node registered in this very step changes nothing more.  *)
(***************************************************************************)
Heartbeat(n) ==
    \/ n \notin Registered /\ RegisterNode(n)
    \/ ProcessHeartbeat(n)

-----------------------------------------------------------------------------
(***************************************************************************)
(* check_heartbeat_timeouts.  Overdue nodes get one more miss; a node with *)
(* DEAD_THRESHOLD misses is dead, an alive one with fewer is suspect.      *)
(***************************************************************************)

\* Faulty variant: dead nodes are not skipped, their misses count for ever.
OverdueEvenDead ==
    {n \in Registered : silence[n] > heartbeat_timeout_s}

Overdue ==
    {n \in Registered : status[n] # "dead" /\ silence[n] > heartbeat_timeout_s}

Misses(n) == failed_attempts[n] + 1

\* Faulty variant: one miss short of the threshold is enough.
NewlyDeadTooSoon == {n \in Overdue : Misses(n) + 1 >= DEAD_THRESHOLD}

NewlyDead == {n \in Overdue : Misses(n) >= DEAD_THRESHOLD}

NewlySuspect == {n \in Overdue \ NewlyDead : status[n] = "alive"}

(***************************************************************************)
(* The scan rebuilds the ring every time it finds a dead node, while it is *)
(* still walking the dict: the rebuild for d sees the nodes up to d as     *)
(* they are after the scan and the later ones as they were before it.  The *)
(* last rebuild counts.  So a node that turns suspect in this scan stays   *)
(* on the ring exactly when every node that dies comes before it.          *)
(***************************************************************************)
RingAfterScan ==
    RingOf(status') \cup
        {n \in NewlySuspect : \A d \in NewlyDead : <<d, n>> \in before}

\* Faulty variant: a node is marked dead, but the ring is left as it is.
CheckHeartbeatTimeoutsKeepsRing ==
    /\ failed_attempts' = [n \in Node |-> IF n \in Overdue THEN Misses(n)
                                          ELSE failed_attempts[n]]
    /\ status' = [n \in Node |-> IF n \in NewlyDead THEN "dead"
                                 ELSE IF n \in NewlySuspect THEN "suspect"
                                 ELSE status[n]]
    /\ UNCHANGED <<hash_ring, silence, before>>

CheckHeartbeatTimeouts ==
    /\ failed_attempts' = [n \in Node |-> IF n \in Overdue THEN Misses(n)
                                          ELSE failed_attempts[n]]
    /\ status' = [n \in Node |-> IF n \in NewlyDead THEN "dead"
                                 ELSE IF n \in NewlySuspect THEN "suspect"
                                 ELSE status[n]]
    /\ hash_ring' = IF NewlyDead = {} THEN hash_ring ELSE RingAfterScan
    /\ UNCHANGED <<silence, before>>

-----------------------------------------------------------------------------
\* One second passes.
Tick ==
    /\ silence' = [n \in Node |->
                      IF n \in Registered /\ silence[n] < SilenceCap
                      THEN silence[n] + 1 ELSE silence[n]]
    /\ UNCHANGED <<status, failed_attempts, before, hash_ring>>

Next ==
    \/ \E n \in Node : RegisterNode(n)
    \/ \E n \in Node : DeregisterNode(n)
    \/ \E n \in Node : Heartbeat(n)
    \/ CheckHeartbeatTimeouts
    \/ Tick

Spec == Init /\ [][Next]_vars

-----------------------------------------------------------------------------
(***************************************************************************)
(* No request is routed to a node the gateway holds for dead, that came    *)
(* back from the dead without registering again, or that left: every node  *)
(* on the ring is alive or suspect.                                        *)
(***************************************************************************)
RoutesOnlyToLiveNodes ==
    \A n \in hash_ring : status[n] \in {"alive", "suspect"}

(***************************************************************************)
(* Every node whose status is alive is on the ring, whatever the order of  *)
(* misses, heartbeats and deaths of others that rebuilt the ring.          *)
(***************************************************************************)
AliveNodesAreRouted ==
    \A n \in Node : status[n] = "alive" => n \in hash_ring

(***************************************************************************)
(* The miss counter and the status tell the same story: dead means that    *)
(* the threshold was reached, suspect that something but not enough was    *)
(* missed, alive that nothing was missed.                                  *)
(***************************************************************************)
MissesMatchStatus ==
    \A n \in Node :
        /\ status[n] = "dead" <=> failed_attempts[n] = DEAD_THRESHOLD
        /\ status[n] = "suspect" => failed_attempts[n] > 0
        /\ status[n] = "alive" => failed_attempts[n] = 0
=============================================================================
