------------------------------ MODULE Gateway -------------------------------
(***************************************************************************)
(* The control plane of the gateway: the cluster manager and the circuit   *)
(* breaker, driven by the endpoints, by the client requests in flight and  *)
(* by the background task _failure_detection_loop of gateway/app/main.py.  *)
(*                                                                         *)
(* The cluster manager is ClusterManager.tla, the breaker                  *)
(* CircuitBreaker.tla; this module says when their operations happen and   *)
(* which of them happen together.  One tick is one second for both.        *)
(*                                                                         *)
(* The endpoint /api/health-check runs the scan on a worker thread.  Here  *)
(* that scan is one step, which shows what the scan alone brings about: a  *)
(* miss at no interval, and a death that the breaker is not told of.  How  *)
(* it interleaves with the event loop is in HealthCheck.tla.  The values   *)
(* that requests carry are in DataPlane.tla.                               *)
(***************************************************************************)
EXTENDS Naturals, FiniteSets

CONSTANTS
    Node, heartbeat_timeout_s, DEAD_THRESHOLD, SilenceCap,
    Request, NoNode, failure_threshold, timeout_s,
    replication_factor,     \* nodes that a key is looked up on
    STARTUP_DELAY_S,        \* the loop's first sleep
    SCAN_INTERVAL_S,        \* the loop's sleep between two scans
    HEARTBEAT_INTERVAL_S    \* how often a healthy node sends a heartbeat

VARIABLES
    status, silence, failed_attempts, before, hash_ring,    \* cluster manager
    circuits, target, admitted,                             \* circuit breaker
    wake,       \* seconds until the loop's asyncio.sleep may return
    asked       \* history: how many of failed_attempts[n] a health check counted

CM == INSTANCE ClusterManager

CB == INSTANCE CircuitBreaker

\* The earliest age of a node's last heartbeat at which it can be found dead.
DetectionFloor == heartbeat_timeout_s + 1 + (DEAD_THRESHOLD - 1) * SCAN_INTERVAL_S

(***************************************************************************)
(* The last conjuncts relate constants that live in different files: the   *)
(* gateway's timeout and scan interval, and the nodes' heartbeat interval. *)
(* They hold for the defaults (10 + 1 >= 5, 10 + 1 + 2 * 3 >= 3 * 5); with *)
(* the scan interval of 2 s that config.py announces and nothing reads,    *)
(* the last would hold with nothing to spare.                              *)
(***************************************************************************)
ASSUME GatewayAssumption ==
    /\ heartbeat_timeout_s \in Nat
    /\ DEAD_THRESHOLD \in Nat \ {0}
    /\ SilenceCap \in Nat
    /\ failure_threshold \in Nat \ {0}
    /\ timeout_s \in Nat
    /\ NoNode \notin Node
    /\ replication_factor \in Nat \ {0}
    /\ STARTUP_DELAY_S \in Nat
    /\ SCAN_INTERVAL_S \in Nat \ {0}
    /\ HEARTBEAT_INTERVAL_S \in Nat
    /\ SilenceCap >= heartbeat_timeout_s + 1 + DEAD_THRESHOLD * SCAN_INTERVAL_S
    /\ heartbeat_timeout_s + 1 >= HEARTBEAT_INTERVAL_S
    /\ DetectionFloor >= DEAD_THRESHOLD * HEARTBEAT_INTERVAL_S

clusterVars == <<status, silence, failed_attempts, before, hash_ring>>
breakerVars == <<circuits, target, admitted>>
vars == <<clusterVars, breakerVars, wake, asked>>

\* Both services, the timer of the loop and the history have their types.
TypeOK ==
    /\ CM!TypeOK
    /\ CB!TypeOK
    /\ wake \in 0..(STARTUP_DELAY_S + SCAN_INTERVAL_S)
    /\ asked \in [Node -> 0..DEAD_THRESHOLD]

Init ==
    /\ CM!Init
    /\ CB!Init
    /\ wake = STARTUP_DELAY_S
    /\ asked = [n \in Node |-> 0]

-----------------------------------------------------------------------------
(***************************************************************************)
(* The endpoints that the cache nodes call.  They never touch the breaker, *)
(* and they forget all misses of the node.                                 *)
(***************************************************************************)

MissesForgotten(n) ==
    /\ asked' = [asked EXCEPT ![n] = 0]
    /\ UNCHANGED <<breakerVars, wake>>

Register(n) == CM!RegisterNode(n) /\ MissesForgotten(n)

Deregister(n) == CM!DeregisterNode(n) /\ MissesForgotten(n)

Heartbeat(n) == CM!Heartbeat(n) /\ MissesForgotten(n)

-----------------------------------------------------------------------------
(* The background loop. *)

\* Faulty variant: one failure is recorded for a dead node.
TripOnce(c) == CB!AfterFailure(c)

\* failure_threshold calls of record_failure, one after the other
Trip(c) ==
    LET Recorded[k \in 0..failure_threshold] ==
            IF k = 0 THEN c ELSE CB!AfterFailure(Recorded[k - 1])
    IN  Recorded[failure_threshold]

\* Faulty variant: the loop returns after a scan that found a dead node.
FailureDetectionLoopStops ==
    /\ wake = 0
    /\ \A n \in Node : status[n] # "dead"
    /\ CM!CheckHeartbeatTimeouts
    /\ circuits' = [n \in Node |-> IF n \in CM!NewlyDead THEN Trip(circuits[n])
                                                         ELSE circuits[n]]
    /\ wake' = SCAN_INTERVAL_S
    /\ UNCHANGED <<target, admitted, asked>>

\* One iteration: scan, trip the breaker of every node that died, sleep.
FailureDetectionLoop ==
    /\ wake = 0
    /\ CM!CheckHeartbeatTimeouts
    /\ circuits' = [n \in Node |-> IF n \in CM!NewlyDead THEN Trip(circuits[n])
                                                         ELSE circuits[n]]
    /\ wake' = SCAN_INTERVAL_S
    /\ UNCHANGED <<target, admitted, asked>>

-----------------------------------------------------------------------------
(***************************************************************************)
(* POST /api/health-check: the same scan, at any time and as often as one  *)
(* likes.  Its result is only logged: no circuit is tripped, and the loop, *)
(* which skips the dead, will not trip it later.                           *)
(***************************************************************************)
HealthCheck ==
    /\ CM!CheckHeartbeatTimeouts
    /\ asked' = [n \in Node |-> IF n \in CM!Overdue THEN asked[n] + 1
                                                    ELSE asked[n]]
    /\ UNCHANGED <<breakerVars, wake>>

-----------------------------------------------------------------------------
(***************************************************************************)
(* Client requests.  A GET asks the breaker for every replica of its key,  *)
(* a PUT or DELETE for the primary alone.  Which nodes these are depends   *)
(* on the key: over all keys, any node of the ring is a primary and, no    *)
(* latency being ever measured, the first of any min(replication_factor,   *)
(* #ring) of them is called.  With an empty ring the answer is 503 and     *)
(* nothing changes.                                                        *)
(***************************************************************************)

\* Faulty variant: replicas are drawn from all registered nodes.
ReplicaSetsOfRegistered ==
    {S \in SUBSET CM!Registered :
        \/ Cardinality(S) = replication_factor
        \/ S = CM!Registered /\ Cardinality(S) < replication_factor}

ReplicaSets ==
    {S \in SUBSET hash_ring :
        \/ Cardinality(S) = replication_factor
        \/ S = hash_ring /\ Cardinality(S) < replication_factor}

Get(r) ==
    /\ \E S \in ReplicaSets : \E n \in S : CB!Dispatch(r, S, n)
    /\ UNCHANGED <<clusterVars, wake, asked>>

Write(r) ==
    /\ \E p \in hash_ring : CB!Dispatch(r, {p}, p)
    /\ UNCHANGED <<clusterVars, wake, asked>>

GetRefused ==
    /\ \E S \in ReplicaSets \ {{}} : CB!Refuse(S)
    /\ UNCHANGED <<clusterVars, wake, asked>>

WriteRefused ==
    /\ \E p \in hash_ring : CB!Refuse({p})
    /\ UNCHANGED <<clusterVars, wake, asked>>

CallSucceeds(r) == CB!CallSucceeds(r) /\ UNCHANGED <<clusterVars, wake, asked>>

CallFails(r) == CB!CallFails(r) /\ UNCHANGED <<clusterVars, wake, asked>>

CallBreaks(r) == CB!CallBreaks(r) /\ UNCHANGED <<clusterVars, wake, asked>>

CallEnds(r) == CallSucceeds(r) \/ CallFails(r) \/ CallBreaks(r)

-----------------------------------------------------------------------------
(* GET /api/cluster/health and GET /status. *)

\* Faulty variant: every registered node counts.
HealthOfRegistered == IF CM!Registered # {} THEN "healthy" ELSE "degraded"

\* alive_nodes of get_cluster_stats, compared with zero
Health ==
    IF \E n \in Node : status[n] = "alive" THEN "healthy" ELSE "degraded"

-----------------------------------------------------------------------------
\* One second passes.  asyncio.sleep sleeps at least as long as it was asked
\* to: the loop may run from wake = 0 on, and any number of ticks later.
Tick ==
    /\ CM!Tick
    /\ CB!AgeCircuits
    /\ wake' = IF wake > 0 THEN wake - 1 ELSE wake
    /\ UNCHANGED <<target, admitted, asked>>

Next ==
    \/ \E n \in Node : Register(n)
    \/ \E n \in Node : Deregister(n)
    \/ \E n \in Node : Heartbeat(n)
    \/ FailureDetectionLoop
    \/ HealthCheck
    \/ \E r \in Request : Get(r)
    \/ \E r \in Request : Write(r)
    \/ GetRefused
    \/ WriteRefused
    \/ \E r \in Request : CallSucceeds(r)
    \/ \E r \in Request : CallFails(r)
    \/ \E r \in Request : CallBreaks(r)
    \/ Tick

Spec == Init /\ [][Next]_vars

\* Time passes, the loop's exceptions are caught so that it always runs again,
\* and the HTTP client gives up on a call after five seconds.
Fairness ==
    /\ WF_vars(Tick)
    /\ WF_vars(FailureDetectionLoop)
    /\ \A r \in Request : WF_vars(CallEnds(r))

FairSpec == Spec /\ Fairness

\* In addition, every node goes on sending heartbeats.
HeartbeatSpec == FairSpec /\ \A n \in Node : WF_vars(Heartbeat(n))

-----------------------------------------------------------------------------
(***************************************************************************)
(* What the cluster manager promises, of the gateway as a whole: calls and *)
(* trips of the breaker come between its steps.  No request is routed to a *)
(* node that is dead, came back from the dead or left ...                  *)
(***************************************************************************)
RoutesOnlyToLiveNodes == CM!RoutesOnlyToLiveNodes

(***************************************************************************)
(* ... every alive node gets its keys, whatever the order in which misses, *)
(* heartbeats and the deaths of others rebuilt the ring ...                *)
(***************************************************************************)
AliveNodesAreRouted == CM!AliveNodesAreRouted

(***************************************************************************)
(* ... and the miss counter and the status of a node tell the same story.  *)
(***************************************************************************)
MissesMatchStatus == CM!MissesMatchStatus

(***************************************************************************)
(* The inspection API is honest although it counts statuses and never      *)
(* looks at the ring: when it says healthy no request fails for want of a  *)
(* node, and when it says degraded all that is routed to is suspect.       *)
(***************************************************************************)
HealthIsHonest ==
    /\ Health = "healthy" => hash_ring # {}
    /\ Health = "degraded" => \A n \in hash_ring : status[n] = "suspect"

\* The misses of n that the loop counted, at its own pace.
Scanned(n) == failed_attempts[n] - asked[n]

(***************************************************************************)
(* The misses that the loop counts against a node are spread over time: k  *)
(* of them need the heartbeat timeout and k - 1 sleeps of the loop, the    *)
(* wait for the next scan included.  A heartbeat between two scans starts  *)
(* all over; health checks in between change nothing about it.             *)
(***************************************************************************)
MissesTakeTime ==
    \A n \in Node :
        Scanned(n) > 0 =>
            silence[n] + wake >=
                heartbeat_timeout_s + 1 + Scanned(n) * SCAN_INTERVAL_S

\* n is found dead in this step.
Dies(n) == status[n] # "dead" /\ status'[n] = "dead"

(***************************************************************************)
(* The scan only counts its own passes over an overdue node, but a pass of *)
(* the loop stands for a heartbeat: whatever the interleaving of           *)
(* heartbeats, scans, health checks and other nodes' deaths, when a node   *)
(* is found dead its last heartbeat is DEAD_THRESHOLD heartbeat intervals  *)
(* old, less one for each miss that a health check counted.  The comment   *)
(* on a node's heartbeat loop at cache_server.cpp:361 promises death after *)
(* two intervals instead: with the default threshold of three the loop     *)
(* alone never finds a node dead that early, and no setting of the manager *)
(* follows the interval of the nodes.                                      *)
(***************************************************************************)
DeadOnlyAfterMisses ==
    [][\A n \in Node :
          Dies(n) => silence[n] >= (DEAD_THRESHOLD - asked'[n]) * HEARTBEAT_INTERVAL_S]_vars

(***************************************************************************)
(* In the step in which a node is found dead it is off the ring, whoever   *)
(* scanned; and if the loop found it, its circuit opens, whatever state    *)
(* earlier calls, probes and health checks left it in.                     *)
(***************************************************************************)
DeathCutsOff ==
    [][\A n \in Node :
          Dies(n) => /\ n \notin hash_ring'
                     /\ asked'[n] = asked[n] => circuits'[n].state = "open"]_vars

(***************************************************************************)
(* A new call goes only to a node that the cluster manager holds for alive *)
(* or suspect and whose circuit is not open: the two services, which know  *)
(* nothing of each other, never disagree about a node that is called.      *)
(***************************************************************************)
CallsOnlyServingNodes ==
    [][\A r \in Request :
          target'[r] \notin {NoNode, target[r]}
              => /\ status[target'[r]] \in {"alive", "suspect"}
                 /\ circuits'[target'[r]].state # "open"]_vars

Silent(n) == status[n] # "unregistered" /\ silence[n] > heartbeat_timeout_s

(***************************************************************************)
(* Self-healing: a node that falls silent and stays silent is in the end   *)
(* off the ring with no call to it left in flight.                         *)
(***************************************************************************)
SilentNodeIsDrained ==
    \A n \in Node :
        []<>(Silent(n) => /\ n \notin hash_ring
                          /\ \A r \in Request : target[r] # n)

(***************************************************************************)
(* What the loop's documentation and the README say of recovery: a node    *)
(* that sends heartbeats again is marked ALIVE.                            *)
(***************************************************************************)
RecoveredNodeBecomesAlive ==
    \A n \in Node :
        [](/\ status[n] = "recovered"
           /\ [](status[n] # "unregistered" /\ silence[n] <= heartbeat_timeout_s)
           => <>(status[n] = "alive"))
=============================================================================
