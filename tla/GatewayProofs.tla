---------------------------- MODULE GatewayProofs ---------------------------
(***************************************************************************)
(* The invariants of the cluster manager, and the gateway as a whole,      *)
(* which keeps them: a node is found dead only after the heartbeats that   *)
(* the loop counted are really missing, it is then cut off, and calls go   *)
(* only to nodes that both services consider fit.                          *)
(***************************************************************************)
EXTENDS Gateway, TLAPS, WellFoundedInduction

-----------------------------------------------------------------------------
(* Arithmetic of the scan counter. *)

\* One more miss is one more sleep of the loop.
LEMMA NextMiss ==
  ASSUME NEW a \in Nat, NEW b \in Nat
  PROVE  a * b \in Nat /\ (a + 1) * b = a * b + b
  OBVIOUS

\* Fewer misses take no longer.
LEMMA FewerMisses ==
  ASSUME NEW a \in Nat, NEW b \in Nat, NEW c \in Nat, a <= c
  PROVE  a * b <= c * b
<1>1. PICK d \in Nat : c = a + d
  BY c - a \in Nat
<1>2. c * b = a * b + d * b /\ d * b \in Nat /\ a * b \in Nat
  BY <1>1
<1> QED BY <1>2

\* Any number of passes of the loop, up to the threshold, takes at least as
\* many heartbeat intervals: between one pass and DEAD_THRESHOLD passes, for
\* which it is assumed, either interval may be the longer one.
LEMMA Pace ==
  ASSUME NEW L \in Nat, 0 < L, L <= DEAD_THRESHOLD
  PROVE  heartbeat_timeout_s + 1 + (L - 1) * SCAN_INTERVAL_S >= L * HEARTBEAT_INTERVAL_S
<1> USE GatewayAssumption
<1>1. PICK p \in Nat : p = L - 1
  OBVIOUS
<1>2. PICK d \in Nat : DEAD_THRESHOLD = L + d
  BY DEAD_THRESHOLD - L \in Nat
<1>3. /\ L * HEARTBEAT_INTERVAL_S = p * HEARTBEAT_INTERVAL_S + HEARTBEAT_INTERVAL_S
      /\ p * HEARTBEAT_INTERVAL_S \in Nat
      /\ p * SCAN_INTERVAL_S \in Nat
  BY <1>1
<1>4. CASE HEARTBEAT_INTERVAL_S <= SCAN_INTERVAL_S
  <2>1. p * HEARTBEAT_INTERVAL_S <= p * SCAN_INTERVAL_S
    <3>1. HEARTBEAT_INTERVAL_S * p <= SCAN_INTERVAL_S * p
      BY <1>4, FewerMisses
    <3> QED BY <3>1
  <2> QED BY <1>1, <1>3, <2>1
<1>5. CASE SCAN_INTERVAL_S <= HEARTBEAT_INTERVAL_S
  <2>1. d * SCAN_INTERVAL_S <= d * HEARTBEAT_INTERVAL_S
    <3>1. SCAN_INTERVAL_S * d <= HEARTBEAT_INTERVAL_S * d
      BY <1>5, FewerMisses
    <3> QED BY <3>1
  <2>2. (DEAD_THRESHOLD - 1) * SCAN_INTERVAL_S = p * SCAN_INTERVAL_S + d * SCAN_INTERVAL_S
    <3>1. DEAD_THRESHOLD - 1 = p + d
      BY <1>1, <1>2
    <3>2. (p + d) * SCAN_INTERVAL_S = p * SCAN_INTERVAL_S + d * SCAN_INTERVAL_S
      OBVIOUS
    <3> QED BY <3>1, <3>2
  <2>3. DEAD_THRESHOLD * HEARTBEAT_INTERVAL_S
          = L * HEARTBEAT_INTERVAL_S + d * HEARTBEAT_INTERVAL_S
    BY <1>2
  <2>4. /\ d * SCAN_INTERVAL_S \in Nat /\ d * HEARTBEAT_INTERVAL_S \in Nat
        /\ L * HEARTBEAT_INTERVAL_S \in Nat
    OBVIOUS
  <2>5. heartbeat_timeout_s + 1 + (p * SCAN_INTERVAL_S + d * SCAN_INTERVAL_S)
          >= L * HEARTBEAT_INTERVAL_S + d * HEARTBEAT_INTERVAL_S
    BY <2>2, <2>3 DEF DetectionFloor
  <2> QED BY <1>1, <1>3, <2>1, <2>4, <2>5
<1> QED BY <1>4, <1>5

\* The constants of the gateway satisfy what the cluster manager assumes.
LEMMA ClusterConstants ==
  /\ heartbeat_timeout_s \in Nat
  /\ DEAD_THRESHOLD \in Nat \ {0}
  /\ SilenceCap \in Nat
  /\ SilenceCap > heartbeat_timeout_s
<1>1. DEAD_THRESHOLD * SCAN_INTERVAL_S \in Nat
  BY GatewayAssumption
<1> QED BY <1>1, GatewayAssumption

-----------------------------------------------------------------------------
(***************************************************************************)
(* The four invariants together are inductive.  The miss counter stays in  *)
(* its type only because a node with DEAD_THRESHOLD misses is dead, and is *)
(* no longer counted: TypeOK needs MissesMatchStatus.                      *)
(***************************************************************************)
ClusterInv ==
    /\ CM!TypeOK
    /\ CM!MissesMatchStatus
    /\ CM!RoutesOnlyToLiveNodes
    /\ CM!AliveNodesAreRouted

\* Nothing is registered at start-up, so every part of ClusterInv holds.
LEMMA ClusterInitInv == CM!Init => ClusterInv
  BY ClusterConstants
     DEF CM!Init, ClusterInv, CM!TypeOK, CM!MissesMatchStatus,
         CM!RoutesOnlyToLiveNodes, CM!AliveNodesAreRouted, CM!HealthStatus

\* A ring rebuilt from the statuses has exactly the nodes with status alive,
\* so the routing invariants hold after every call of _rebuild_hash_ring.
LEMMA RebuiltRing ==
  ASSUME NEW st, NEW n \in Node
  PROVE  n \in CM!RingOf(st) <=> st[n] = "alive"
  BY DEF CM!RingOf

\* register_node: a new alive node with no misses, and a rebuilt ring.
LEMMA RegisterInv ==
  ASSUME ClusterInv, NEW n \in Node, CM!RegisterNode(n)
  PROVE  ClusterInv'
<1>1. CM!TypeOK'
  BY ClusterConstants DEF ClusterInv, CM!TypeOK, CM!RegisterNode, CM!RingOf,
                          CM!Registered, CM!HealthStatus
<1>2. CM!MissesMatchStatus'
  BY ClusterConstants DEF ClusterInv, CM!TypeOK, CM!MissesMatchStatus,
                          CM!RegisterNode
<1>3. CM!RoutesOnlyToLiveNodes' /\ CM!AliveNodesAreRouted'
  BY RebuiltRing, <1>1 DEF CM!RegisterNode, CM!RoutesOnlyToLiveNodes,
                           CM!AliveNodesAreRouted, CM!TypeOK
<1> QED BY <1>1, <1>2, <1>3 DEF ClusterInv

\* deregister_node: the node is forgotten, and the ring rebuilt.
LEMMA DeregisterInv ==
  ASSUME ClusterInv, NEW n \in Node, CM!DeregisterNode(n)
  PROVE  ClusterInv'
<1>1. CM!TypeOK'
  BY ClusterConstants DEF ClusterInv, CM!TypeOK, CM!DeregisterNode,
                          CM!RingOf, CM!HealthStatus
<1>2. CM!MissesMatchStatus'
  BY ClusterConstants DEF ClusterInv, CM!TypeOK, CM!MissesMatchStatus,
                          CM!DeregisterNode
<1>3. CM!RoutesOnlyToLiveNodes' /\ CM!AliveNodesAreRouted'
  BY RebuiltRing, <1>1 DEF CM!DeregisterNode, CM!RoutesOnlyToLiveNodes,
                           CM!AliveNodesAreRouted, CM!TypeOK
<1> QED BY <1>1, <1>2, <1>3 DEF ClusterInv

\* process_heartbeat: the ring is rebuilt exactly when the status changed.
LEMMA ProcessHeartbeatInv ==
  ASSUME ClusterInv, NEW n \in Node, CM!ProcessHeartbeat(n)
  PROVE  ClusterInv'
<1>1. CM!TypeOK'
  BY ClusterConstants DEF ClusterInv, CM!TypeOK, CM!ProcessHeartbeat,
                          CM!RingOf, CM!Heard, CM!HealthStatus, CM!Registered
<1>2. CM!MissesMatchStatus'
  BY ClusterConstants DEF ClusterInv, CM!TypeOK, CM!MissesMatchStatus,
                          CM!ProcessHeartbeat, CM!Heard
<1>3. CM!RoutesOnlyToLiveNodes' /\ CM!AliveNodesAreRouted'
  <2>1. CASE status' = status
    BY <2>1 DEF ClusterInv, CM!ProcessHeartbeat, CM!RoutesOnlyToLiveNodes,
                CM!AliveNodesAreRouted
  <2>2. CASE status' # status
    BY <1>1, <2>2, RebuiltRing DEF CM!ProcessHeartbeat,
                                   CM!RoutesOnlyToLiveNodes,
                                   CM!AliveNodesAreRouted, CM!TypeOK
  <2> QED BY <2>1, <2>2
<1> QED BY <1>1, <1>2, <1>3 DEF ClusterInv

\* check_heartbeat_timeouts: the rebuild in the middle of the walk may keep
\* nodes that turn suspect in the same scan, but none that dies.
LEMMA ScanInv ==
  ASSUME ClusterInv, CM!CheckHeartbeatTimeouts
  PROVE  ClusterInv'
<1> USE ClusterConstants DEF ClusterInv
<1>1. \A n \in Node : status[n] # "dead" => failed_attempts[n] < DEAD_THRESHOLD
  BY DEF CM!TypeOK, CM!MissesMatchStatus
<1>2. CM!TypeOK'
  <2>1. failed_attempts' \in [Node -> 0..DEAD_THRESHOLD]
    BY <1>1 DEF CM!TypeOK, CM!CheckHeartbeatTimeouts, CM!Overdue, CM!Misses,
                CM!Registered
  <2>2. status' \in [Node -> CM!HealthStatus \cup {"unregistered"}]
    BY DEF CM!TypeOK, CM!CheckHeartbeatTimeouts, CM!HealthStatus
  <2>3. hash_ring' \in SUBSET Node
    BY DEF CM!TypeOK, CM!CheckHeartbeatTimeouts, CM!RingAfterScan, CM!RingOf,
           CM!NewlySuspect, CM!Overdue, CM!Registered
  <2> QED BY <2>1, <2>2, <2>3 DEF CM!TypeOK, CM!CheckHeartbeatTimeouts
<1>3. CM!MissesMatchStatus'
  <2> SUFFICES ASSUME NEW n \in Node
               PROVE  /\ status'[n] = "dead" <=> failed_attempts'[n] = DEAD_THRESHOLD
                      /\ status'[n] = "suspect" => failed_attempts'[n] > 0
                      /\ status'[n] = "alive" => failed_attempts'[n] = 0
    BY DEF CM!MissesMatchStatus
  <2>1. CASE n \in CM!NewlyDead
    BY <2>1, <1>1 DEF CM!CheckHeartbeatTimeouts, CM!NewlyDead, CM!Overdue,
                      CM!Misses, CM!TypeOK, CM!Registered
  <2>2. CASE n \in CM!Overdue \ CM!NewlyDead
    BY <2>2, <1>1 DEF CM!CheckHeartbeatTimeouts, CM!NewlyDead,
                      CM!NewlySuspect, CM!Overdue, CM!Misses, CM!TypeOK,
                      CM!Registered, CM!MissesMatchStatus
  <2>3. CASE n \notin CM!Overdue
    BY <2>3 DEF CM!CheckHeartbeatTimeouts, CM!NewlyDead, CM!NewlySuspect,
                CM!TypeOK, CM!MissesMatchStatus
  <2> QED BY <2>1, <2>2, <2>3 DEF CM!NewlyDead
<1>4. CM!RoutesOnlyToLiveNodes' /\ CM!AliveNodesAreRouted'
  <2>1. CASE CM!NewlyDead = {}
    BY <2>1 DEF CM!CheckHeartbeatTimeouts, CM!RoutesOnlyToLiveNodes,
                CM!AliveNodesAreRouted, CM!NewlySuspect, CM!TypeOK
  <2>2. CASE CM!NewlyDead # {}
    <3>1. hash_ring' = CM!RingAfterScan
      BY <2>2 DEF CM!CheckHeartbeatTimeouts
    <3>2. \A n \in CM!NewlySuspect : status'[n] = "suspect"
      BY DEF CM!CheckHeartbeatTimeouts, CM!NewlySuspect, CM!NewlyDead,
             CM!Overdue, CM!Registered
    <3> QED BY <3>1, <3>2, <1>2, RebuiltRing
            DEF CM!RingAfterScan, CM!RoutesOnlyToLiveNodes,
                CM!AliveNodesAreRouted, CM!TypeOK
  <2> QED BY <2>1, <2>2
<1> QED BY <1>2, <1>3, <1>4

\* The clock only moves silence, and not past SilenceCap.
LEMMA ClusterTickInv ==
  ASSUME ClusterInv, CM!Tick
  PROVE  ClusterInv'
  BY ClusterConstants DEF ClusterInv, CM!Tick, CM!TypeOK,
                          CM!MissesMatchStatus, CM!RoutesOnlyToLiveNodes,
                          CM!AliveNodesAreRouted

\* Every step of the cluster manager preserves ClusterInv.
LEMMA ClusterNextInv == ClusterInv /\ [CM!Next]_CM!vars => ClusterInv'
<1> SUFFICES ASSUME ClusterInv, [CM!Next]_CM!vars PROVE ClusterInv'
  OBVIOUS
<1>1. CASE \E n \in Node : CM!RegisterNode(n)
  BY <1>1, RegisterInv
<1>2. CASE \E n \in Node : CM!DeregisterNode(n)
  BY <1>2, DeregisterInv
<1>3. CASE \E n \in Node : CM!Heartbeat(n)
  BY <1>3, RegisterInv, ProcessHeartbeatInv DEF CM!Heartbeat
<1>4. CASE CM!CheckHeartbeatTimeouts
  BY <1>4, ScanInv
<1>5. CASE CM!Tick
  BY <1>5, ClusterTickInv
<1>6. CASE UNCHANGED CM!vars
  BY <1>6 DEF CM!vars, ClusterInv, CM!TypeOK, CM!MissesMatchStatus,
              CM!RoutesOnlyToLiveNodes, CM!AliveNodesAreRouted
<1> QED BY <1>1, <1>2, <1>3, <1>4, <1>5, <1>6 DEF CM!Next

\* ClusterInv holds in every reachable state of the cluster manager.
THEOREM ClusterInvariance == CM!Spec => []ClusterInv
<1>1. ClusterInv /\ UNCHANGED CM!vars => ClusterInv'
  BY ClusterNextInv
<1> QED BY ClusterInitInv, ClusterNextInv, PTL DEF CM!Spec

\* The statuses, counters and ring of the cluster manager keep their types;
\* for failed_attempts that is the claim that no node is counted past death.
THEOREM ClusterTypeCorrect == CM!Spec => []CM!TypeOK
  BY ClusterInvariance, PTL DEF ClusterInv

\* No request is routed to a dead, recovered or departed node.
THEOREM ClusterRoutingSafety == CM!Spec => []CM!RoutesOnlyToLiveNodes
  BY ClusterInvariance, PTL DEF ClusterInv

\* Every alive node gets its share of the keys.
THEOREM ClusterRoutesAlive == CM!Spec => []CM!AliveNodesAreRouted
  BY ClusterInvariance, PTL DEF ClusterInv

\* The miss counter of every node agrees with its status.
THEOREM ClusterMisses == CM!Spec => []CM!MissesMatchStatus
  BY ClusterInvariance, PTL DEF ClusterInv

-----------------------------------------------------------------------------
(* The invariants of the cluster manager hold of the gateway. *)

\* Every step of the gateway is a step of the cluster manager or none at all.
LEMMA ClusterStep == [Next]_vars => [CM!Next]_CM!vars
<1> SUFFICES ASSUME [Next]_vars PROVE [CM!Next]_CM!vars
  OBVIOUS
<1>1. CASE \E n \in Node : Register(n) \/ Deregister(n) \/ Heartbeat(n)
  BY <1>1 DEF Register, Deregister, Heartbeat, CM!Next
<1>2. CASE FailureDetectionLoop \/ HealthCheck
  BY <1>2 DEF FailureDetectionLoop, HealthCheck, CM!Next
<1>3. CASE Tick
  BY <1>3 DEF Tick, CM!Next
<1>4. CASE UNCHANGED clusterVars
  BY <1>4 DEF clusterVars, CM!vars
<1>5. CASE GetRefused \/ WriteRefused
           \/ \E r \in Request : \/ Get(r) \/ Write(r) \/ CallSucceeds(r)
                                 \/ CallFails(r) \/ CallBreaks(r)
  BY <1>5, <1>4 DEF GetRefused, WriteRefused, Get, Write, CallSucceeds,
                    CallFails, CallBreaks
<1> QED BY <1>1, <1>2, <1>3, <1>4, <1>5 DEF Next, vars

\* A step of the gateway is a step of the cluster manager, so it preserves
\* ClusterInv.
LEMMA ClusterInvStep == ClusterInv /\ [Next]_vars => ClusterInv'
  BY ClusterStep, ClusterNextInv

\* What it says about the state of the gateway.
LEMMA ClusterFacts ==
  ASSUME ClusterInv
  PROVE  /\ CM!TypeOK
         /\ CM!MissesMatchStatus
         /\ CM!RoutesOnlyToLiveNodes
         /\ CM!AliveNodesAreRouted
  BY DEF ClusterInv

-----------------------------------------------------------------------------
(***************************************************************************)
(* The inductive invariant.  MissesTakeTime carries the argument about     *)
(* time: silence and wake move in opposite directions, so their sum only   *)
(* grows between two scans of the loop, and such a scan adds at most one   *)
(* sleep to both sides; a health check leaves both sides alone, since what *)
(* it adds to failed_attempts it adds to asked.  It needs that a node that *)
(* is not registered, whose silence stands still, has no misses.  That the *)
(* loop is at most one sleep away once it counted anything lets a death be *)
(* dated when a health check finds it, at some moment of that sleep.       *)
(***************************************************************************)
Counted ==
    /\ asked \in [Node -> Nat]
    /\ \A n \in Node : asked[n] <= failed_attempts[n]
    /\ \A n \in Node : status[n] = "unregistered" => failed_attempts[n] = 0

Paced ==
    /\ MissesTakeTime
    /\ \A n \in Node : Scanned(n) > 0 => wake <= SCAN_INTERVAL_S

Inv ==
    /\ ClusterInv
    /\ wake \in Nat
    /\ target \in [Request -> Node \cup {NoNode}]
    /\ Counted
    /\ Paced

\* At start-up nothing is registered and nothing is missed.
LEMMA InitInv == Init => Inv
<1> SUFFICES ASSUME Init PROVE Inv
  OBVIOUS
<1>1. ClusterInv
  BY ClusterInitInv DEF Init
<1>2. target \in [Request -> Node \cup {NoNode}]
  BY DEF Init, CB!Init
<1>3. \A n \in Node : failed_attempts[n] = 0 /\ asked[n] = 0 /\ Scanned(n) = 0
  BY DEF Init, CM!Init, Scanned
<1>4. Counted /\ Paced
  BY <1>3 DEF Init, Counted, Paced, MissesTakeTime
<1> QED BY <1>1, <1>2, <1>4, GatewayAssumption DEF Init, Inv

\* The counters as numbers.
LEMMA Counters ==
  ASSUME Inv, NEW n \in Node
  PROVE  /\ silence[n] \in 0..SilenceCap
         /\ failed_attempts[n] \in 0..DEAD_THRESHOLD
         /\ asked[n] \in Nat /\ asked[n] <= failed_attempts[n]
         /\ Scanned(n) \in 0..DEAD_THRESHOLD
         /\ Scanned(n) = failed_attempts[n] - asked[n]
  BY ClusterFacts, GatewayAssumption DEF Inv, Counted, CM!TypeOK, Scanned

\* The endpoints set the misses of one node to zero and leave the others'.
LEMMA EndpointInv ==
  ASSUME Inv, NEW n \in Node, Register(n) \/ Deregister(n) \/ Heartbeat(n)
  PROVE  Counted' /\ Paced'
<1> USE ClusterFacts
<1>1. /\ wake' = wake
      /\ failed_attempts' = [failed_attempts EXCEPT ![n] = 0]
      /\ silence' = [silence EXCEPT ![n] = 0]
      /\ asked' = [asked EXCEPT ![n] = 0]
      /\ \E s : status' = [status EXCEPT ![n] = s]
  BY DEF Register, Deregister, Heartbeat, MissesForgotten, CM!RegisterNode,
         CM!DeregisterNode, CM!Heartbeat, CM!ProcessHeartbeat
<1>2. \A m \in Node : m # n => /\ failed_attempts'[m] = failed_attempts[m]
                               /\ silence'[m] = silence[m]
                               /\ asked'[m] = asked[m]
                               /\ status'[m] = status[m]
                               /\ Scanned(m)' = Scanned(m)
  BY <1>1 DEF Inv, CM!TypeOK, Counted, Scanned
<1>3. failed_attempts'[n] = 0 /\ asked'[n] = 0 /\ Scanned(n)' = 0
  BY <1>1 DEF Inv, CM!TypeOK, Counted, Scanned
<1>4. Counted'
  BY <1>1, <1>2, <1>3 DEF Inv, Counted
<1>5. Paced'
  BY <1>1, <1>2, <1>3 DEF Inv, Paced, MissesTakeTime
<1> QED BY <1>4, <1>5

\* A scan counts one more miss of the overdue nodes and leaves the others.
LEMMA ScanCounts ==
  ASSUME Inv, CM!CheckHeartbeatTimeouts, NEW n \in Node
  PROVE  /\ silence'[n] = silence[n]
         /\ n \in CM!Overdue => /\ failed_attempts'[n] = failed_attempts[n] + 1
                                /\ silence[n] > heartbeat_timeout_s
                                /\ status'[n] # "unregistered"
         /\ n \notin CM!Overdue => /\ failed_attempts'[n] = failed_attempts[n]
                                   /\ status'[n] = status[n]
  BY DEF CM!CheckHeartbeatTimeouts, CM!Overdue, CM!Misses, CM!NewlyDead,
         CM!NewlySuspect, CM!Registered

\* The loop counts a miss only when it runs, that is with wake = 0, and then
\* sleeps for SCAN_INTERVAL_S.
LEMMA LoopInv ==
  ASSUME Inv, FailureDetectionLoop
  PROVE  Counted' /\ Paced'
<1> USE GatewayAssumption
<1>1. wake = 0 /\ wake' = SCAN_INTERVAL_S /\ asked' = asked /\ CM!CheckHeartbeatTimeouts
  BY DEF FailureDetectionLoop
<1>2. Counted'
  BY <1>1, ScanCounts, Counters DEF Inv, Counted
<1>3. ASSUME NEW n \in Node, Scanned(n)' > 0
      PROVE  silence'[n] + wake' >=
                  heartbeat_timeout_s + 1 + Scanned(n)' * SCAN_INTERVAL_S
  <2>1. PICK k \in 0..DEAD_THRESHOLD : k = Scanned(n)
    BY Counters
  <2>2. silence[n] \in Nat /\ silence'[n] = silence[n]
    BY <1>1, ScanCounts, Counters
  <2>3. k > 0 => silence[n] >= heartbeat_timeout_s + 1 + k * SCAN_INTERVAL_S
    <3> SUFFICES ASSUME k > 0
                 PROVE  silence[n] >= heartbeat_timeout_s + 1 + k * SCAN_INTERVAL_S
      OBVIOUS
    <3>1. silence[n] + wake >= heartbeat_timeout_s + 1 + k * SCAN_INTERVAL_S
      BY <2>1 DEF Inv, Paced, MissesTakeTime
    <3> QED BY <1>1, <2>2, <3>1
  <2>4. CASE n \in CM!Overdue
    <3>1. Scanned(n)' = k + 1
      BY <1>1, <2>1, <2>4, ScanCounts, Counters DEF Scanned
    <3>2. silence[n] > heartbeat_timeout_s
      BY <1>1, <2>4, ScanCounts
    <3>3. (k + 1) * SCAN_INTERVAL_S = k * SCAN_INTERVAL_S + SCAN_INTERVAL_S
          /\ k * SCAN_INTERVAL_S \in Nat
      BY NextMiss
    <3>4. silence[n] >= heartbeat_timeout_s + 1 + k * SCAN_INTERVAL_S
      <4>1. CASE k = 0
        BY <2>2, <3>2, <4>1
      <4>2. CASE k > 0
        BY <2>3, <4>2
      <4> QED BY <4>1, <4>2
    <3> QED BY <1>1, <2>2, <3>1, <3>3, <3>4
  <2>5. CASE n \notin CM!Overdue
    <3>1. Scanned(n)' = k
      BY <1>1, <2>1, <2>5, ScanCounts, Counters DEF Scanned
    <3>2. k * SCAN_INTERVAL_S \in Nat
      BY NextMiss
    <3> QED BY <1>1, <1>3, <2>2, <2>3, <3>1, <3>2
  <2> QED BY <2>4, <2>5
<1>4. Paced'
  BY <1>1, <1>3 DEF Paced, MissesTakeTime
<1> QED BY <1>2, <1>4

\* A health check counts the same misses in both counters.
LEMMA HealthCheckInv ==
  ASSUME Inv, HealthCheck
  PROVE  Counted' /\ Paced'
<1>1. /\ wake' = wake
      /\ CM!CheckHeartbeatTimeouts
      /\ asked' = [n \in Node |-> IF n \in CM!Overdue THEN asked[n] + 1 ELSE asked[n]]
  BY DEF HealthCheck
<1>2. Counted'
  BY <1>1, ScanCounts, Counters DEF Inv, Counted
<1>3. \A n \in Node : Scanned(n)' = Scanned(n) /\ silence'[n] = silence[n]
  BY <1>1, ScanCounts, Counters DEF Scanned
<1>4. Paced'
  BY <1>1, <1>3 DEF Inv, Paced, MissesTakeTime
<1> QED BY <1>2, <1>4

\* The clock moves silence up and wake down by one, or leaves one of them at
\* its bound; a silence at SilenceCap is long enough for any miss count.
LEMMA TickInv ==
  ASSUME Inv, Tick
  PROVE  Counted' /\ Paced'
<1> USE GatewayAssumption
<1>1. /\ failed_attempts' = failed_attempts /\ status' = status /\ asked' = asked
      /\ wake' = IF wake > 0 THEN wake - 1 ELSE wake
      /\ wake \in Nat
  BY DEF Tick, CM!Tick, Inv
<1>2. Counted'
  BY <1>1 DEF Inv, Counted
<1>3. \A n \in Node : Scanned(n)' = Scanned(n)
  BY <1>1 DEF Scanned
<1>4. ASSUME NEW n \in Node, Scanned(n) > 0
      PROVE  /\ silence'[n] + wake' >=
                  heartbeat_timeout_s + 1 + Scanned(n) * SCAN_INTERVAL_S
             /\ wake' <= SCAN_INTERVAL_S
  <2>1. PICK k \in 0..DEAD_THRESHOLD : k = Scanned(n)
    BY Counters
  <2>2. k * SCAN_INTERVAL_S \in Nat
        /\ DEAD_THRESHOLD * SCAN_INTERVAL_S \in Nat
        /\ k * SCAN_INTERVAL_S <= DEAD_THRESHOLD * SCAN_INTERVAL_S
    BY FewerMisses, NextMiss
  <2>3. PICK need \in Nat : need = heartbeat_timeout_s + 1 + k * SCAN_INTERVAL_S
    BY <2>2
  <2>4. SilenceCap >= need
    BY <2>2, <2>3
  <2>5. silence[n] + wake >= need /\ silence[n] \in 0..SilenceCap /\ wake <= SCAN_INTERVAL_S
    BY <1>4, <2>1, <2>3, Counters DEF Inv, Paced, MissesTakeTime
  <2>6. silence'[n] = IF silence[n] < SilenceCap THEN silence[n] + 1 ELSE silence[n]
    <3>1. n \in CM!Registered
      BY <1>4, Counters DEF Inv, Counted, CM!Registered
    <3> QED BY <3>1 DEF Tick, CM!Tick
  <2>7. silence'[n] + wake' >= need /\ wake' <= SCAN_INTERVAL_S
    BY <1>1, <2>4, <2>5, <2>6
  <2> QED BY <2>1, <2>3, <2>7
<1>5. Paced'
  BY <1>3, <1>4 DEF Paced, MissesTakeTime
<1> QED BY <1>2, <1>5

\* The target of every slot stays a node or NoNode.
LEMMA TargetStep ==
  ASSUME Inv, [Next]_vars
  PROVE  target' \in [Request -> Node \cup {NoNode}]
<1>1. CASE target' = target
  BY <1>1 DEF Inv
<1>2. ASSUME NEW r \in Request, CB!Finish(r)
      PROVE  target' \in [Request -> Node \cup {NoNode}]
  BY <1>2 DEF Inv, CB!Finish
<1>3. CASE \E r \in Request : CallSucceeds(r) \/ CallFails(r) \/ CallBreaks(r)
  BY <1>2, <1>3 DEF CallSucceeds, CallFails, CallBreaks, CB!CallSucceeds,
                    CB!CallFails, CB!CallBreaks
<1>4. hash_ring \subseteq Node
  BY ClusterFacts DEF Inv, CM!TypeOK
<1>5. CASE \E r \in Request : Get(r) \/ Write(r)
  <2>1. PICK r \in Request : Get(r) \/ Write(r)
    BY <1>5
  <2>2. PICK S \in SUBSET hash_ring : \E n \in S : CB!Dispatch(r, S, n)
    BY <2>1 DEF Get, Write, ReplicaSets
  <2> QED BY <2>2, <1>4 DEF CB!Dispatch, Inv
<1>6. CASE GetRefused \/ WriteRefused
  BY <1>1, <1>6 DEF GetRefused, WriteRefused, CB!Refuse
<1>7. CASE \E n \in Node : Register(n) \/ Deregister(n) \/ Heartbeat(n)
  BY <1>1, <1>7 DEF Register, Deregister, Heartbeat, MissesForgotten, breakerVars
<1>8. CASE FailureDetectionLoop \/ HealthCheck \/ Tick
  BY <1>1, <1>8 DEF FailureDetectionLoop, HealthCheck, Tick, breakerVars
<1>9. CASE UNCHANGED vars
  BY <1>1, <1>9 DEF vars, breakerVars
<1> QED BY <1>3, <1>5, <1>6, <1>7, <1>8, <1>9 DEF Next

\* Every step of the gateway preserves Inv.
LEMMA NextInv == Inv /\ [Next]_vars => Inv'
<1> SUFFICES ASSUME Inv, [Next]_vars PROVE Inv'
  OBVIOUS
<1>1. ClusterInv' /\ target' \in [Request -> Node \cup {NoNode}]
  BY ClusterInvStep, TargetStep DEF Inv
<1>2. CASE \E n \in Node : Register(n) \/ Deregister(n) \/ Heartbeat(n)
  BY <1>2, EndpointInv, <1>1 DEF Inv, Register, Deregister, Heartbeat, MissesForgotten
<1>3. CASE FailureDetectionLoop
  BY <1>3, LoopInv, GatewayAssumption, <1>1 DEF Inv, FailureDetectionLoop
<1>4. CASE HealthCheck
  BY <1>4, HealthCheckInv, <1>1 DEF Inv, HealthCheck
<1>5. CASE Tick
  BY <1>5, TickInv, <1>1 DEF Inv, Tick
<1>6. CASE UNCHANGED clusterVars /\ UNCHANGED <<wake, asked>>
  BY <1>6, <1>1 DEF Inv, clusterVars, Counted, Paced, MissesTakeTime, Scanned
<1>7. CASE GetRefused \/ WriteRefused
           \/ \E r \in Request : \/ Get(r) \/ Write(r) \/ CallSucceeds(r)
                                 \/ CallFails(r) \/ CallBreaks(r)
  BY <1>7, <1>6 DEF GetRefused, WriteRefused, Get, Write, CallSucceeds,
                    CallFails, CallBreaks
<1> QED BY <1>2, <1>3, <1>4, <1>5, <1>6, <1>7 DEF Next, vars

\* Inv holds in every reachable state of the gateway.
THEOREM Invariance == Spec => []Inv
  BY InitInv, NextInv, PTL DEF Spec

\* k misses that the loop counted are spread over at least k - 1 of its sleeps,
\* however many health checks came in between.
THEOREM MissesSpread == Spec => []MissesTakeTime
  BY Invariance, PTL DEF Inv, Paced

\* The gateway routes no request to a dead, recovered or departed node.
THEOREM GatewayRoutingSafety == Spec => []RoutesOnlyToLiveNodes
<1>1. Inv => RoutesOnlyToLiveNodes
  BY ClusterFacts DEF Inv, RoutesOnlyToLiveNodes
<1> QED BY <1>1, Invariance, PTL

\* Every alive node is on the ring, however often it was rebuilt.
THEOREM GatewayRoutesAlive == Spec => []AliveNodesAreRouted
<1>1. Inv => AliveNodesAreRouted
  BY ClusterFacts DEF Inv, AliveNodesAreRouted
<1> QED BY <1>1, Invariance, PTL

\* The miss counter and the status of every node agree.
THEOREM GatewayMisses == Spec => []MissesMatchStatus
<1>1. Inv => MissesMatchStatus
  BY ClusterFacts DEF Inv, MissesMatchStatus
<1> QED BY <1>1, Invariance, PTL

\* What the inspection API says of the cluster is true of the ring.
THEOREM HonestHealth == Spec => []HealthIsHonest
<1>1. Inv => HealthIsHonest
  <2> SUFFICES ASSUME Inv PROVE HealthIsHonest
    OBVIOUS
  <2>1. CM!TypeOK /\ CM!RoutesOnlyToLiveNodes /\ CM!AliveNodesAreRouted
    BY ClusterFacts DEF Inv
  <2>2. \A n \in hash_ring : n \in Node /\ status[n] \in {"alive", "suspect"}
    BY <2>1 DEF CM!TypeOK, CM!RoutesOnlyToLiveNodes
  <2>3. \A n \in Node : status[n] = "alive" => n \in hash_ring
    BY <2>1 DEF CM!AliveNodesAreRouted
  <2> QED BY <2>2, <2>3 DEF HealthIsHonest, Health
<1> QED BY <1>1, Invariance, PTL

-----------------------------------------------------------------------------
(* Action properties. *)

\* Only a scan makes a node dead: an endpoint never does.
LEMMA EndpointsKillNobody ==
  ASSUME Inv, NEW n \in Node, NEW m \in Node, status[n] # "dead",
         Register(m) \/ Deregister(m) \/ Heartbeat(m)
  PROVE  status'[n] # "dead"
  BY ClusterFacts DEF Inv, CM!TypeOK, Register, Deregister, Heartbeat,
         CM!RegisterNode, CM!DeregisterNode, CM!Heartbeat, CM!ProcessHeartbeat,
         CM!Heard

\* A step in which a node dies is a scan, by the loop or by a health check.
LEMMA DeathIsFound ==
  ASSUME Inv, [Next]_vars, NEW n \in Node, Dies(n)
  PROVE  /\ FailureDetectionLoop \/ HealthCheck
         /\ CM!CheckHeartbeatTimeouts
         /\ n \in CM!NewlyDead
<1>1. CASE FailureDetectionLoop \/ HealthCheck
  <2>1. CM!CheckHeartbeatTimeouts
    BY <1>1 DEF FailureDetectionLoop, HealthCheck
  <2> QED BY <1>1, <2>1 DEF CM!CheckHeartbeatTimeouts, Dies
<1>2. CASE status' = status
  BY <1>2 DEF Dies
<1>3. CASE \E m \in Node : Register(m) \/ Deregister(m) \/ Heartbeat(m)
  BY <1>3, EndpointsKillNobody DEF Dies
<1>4. CASE Tick
  BY <1>2, <1>4 DEF Tick, CM!Tick
<1>5. CASE GetRefused \/ WriteRefused
           \/ \E r \in Request : \/ Get(r) \/ Write(r) \/ CallSucceeds(r)
                                 \/ CallFails(r) \/ CallBreaks(r)
  BY <1>2, <1>5 DEF GetRefused, WriteRefused, Get, Write, CallSucceeds,
                    CallFails, CallBreaks, clusterVars
<1>6. CASE UNCHANGED vars
  BY <1>2, <1>6 DEF vars, clusterVars
<1> QED BY <1>1, <1>3, <1>4, <1>5, <1>6 DEF Next

\* A node dies in a scan that finds it overdue with one miss less than the
\* threshold, so MissesTakeTime bounds the age of its last heartbeat: when the
\* loop scans, it has just slept; a health check comes within the sleep.
LEMMA DeathIsLate ==
  ASSUME Inv, [Next]_vars, NEW n \in Node, Dies(n)
  PROVE  silence[n] >= (DEAD_THRESHOLD - asked'[n]) * HEARTBEAT_INTERVAL_S
<1> USE GatewayAssumption
<1>1. n \in CM!Overdue /\ failed_attempts[n] + 1 >= DEAD_THRESHOLD
  BY DeathIsFound DEF CM!NewlyDead, CM!Misses
<1>2. silence[n] > heartbeat_timeout_s /\ status[n] # "dead"
  BY <1>1 DEF CM!Overdue
<1>3. failed_attempts[n] = DEAD_THRESHOLD - 1
  BY <1>1, <1>2, Counters, ClusterFacts DEF Inv, CM!MissesMatchStatus
<1>4. PICK a \in Nat : a = asked[n]
  BY Counters
<1>5. PICK s \in Nat : s = silence[n]
  BY Counters
<1>6. PICK k \in Nat : k = Scanned(n) /\ k = DEAD_THRESHOLD - 1 - a
  BY <1>3, <1>4, Counters
<1>7. wake \in Nat /\ (k > 0 => /\ s + wake >= heartbeat_timeout_s + 1 + k * SCAN_INTERVAL_S
                                /\ wake <= SCAN_INTERVAL_S)
  BY <1>5, <1>6 DEF Inv, Paced, MissesTakeTime
<1>8. k * SCAN_INTERVAL_S \in Nat
  BY NextMiss
<1>9. CASE FailureDetectionLoop
  <2>1. wake = 0 /\ asked'[n] = a
    BY <1>4, <1>9 DEF FailureDetectionLoop
  <2>2. PICK L \in Nat : L = k + 1
    OBVIOUS
  <2>3. DEAD_THRESHOLD - asked'[n] = L /\ 0 < L /\ L <= DEAD_THRESHOLD /\ L - 1 = k
    BY <1>6, <2>1, <2>2
  <2>4. s >= heartbeat_timeout_s + 1 + k * SCAN_INTERVAL_S
    <3>1. CASE k = 0
      BY <1>2, <1>5, <3>1
    <3>2. CASE k > 0
      BY <1>7, <1>8, <2>1, <3>2
    <3> QED BY <3>1, <3>2
  <2>5. heartbeat_timeout_s + 1 + k * SCAN_INTERVAL_S >= L * HEARTBEAT_INTERVAL_S
    BY <2>3, Pace
  <2>6. L * HEARTBEAT_INTERVAL_S \in Nat
    BY NextMiss
  <2>7. s >= L * HEARTBEAT_INTERVAL_S
    BY <1>8, <2>4, <2>5, <2>6
  <2> QED BY <1>5, <2>3, <2>7
<1>10. CASE HealthCheck
  <2>1. asked'[n] = a + 1
    BY <1>1, <1>4, <1>10 DEF HealthCheck
  <2>2. DEAD_THRESHOLD - asked'[n] = k /\ k <= DEAD_THRESHOLD
    BY <1>6, <2>1
  <2>3. s >= k * HEARTBEAT_INTERVAL_S
    <3>1. CASE k = 0
      BY <3>1
    <3>2. CASE k > 0
      <4>1. PICK p \in Nat : p = k - 1
        BY <3>2
      <4>2. k * SCAN_INTERVAL_S = p * SCAN_INTERVAL_S + SCAN_INTERVAL_S
            /\ p * SCAN_INTERVAL_S \in Nat
        <5>1. k = p + 1
          BY <4>1
        <5> QED BY <5>1, NextMiss
      <4>3. s >= heartbeat_timeout_s + 1 + p * SCAN_INTERVAL_S
        BY <1>7, <3>2, <4>2
      <4>4. heartbeat_timeout_s + 1 + p * SCAN_INTERVAL_S >= k * HEARTBEAT_INTERVAL_S
        BY <2>2, <3>2, <4>1, Pace
      <4>5. k * HEARTBEAT_INTERVAL_S \in Nat
        BY NextMiss
      <4> QED BY <4>2, <4>3, <4>4, <4>5
    <3> QED BY <3>1, <3>2
  <2> QED BY <1>5, <2>2, <2>3
<1> QED BY <1>9, <1>10, DeathIsFound

\* When a node is found dead, at least DEAD_THRESHOLD heartbeats are missing,
\* less one for each miss that a health check counted, for all intervals,
\* timeouts and thresholds that satisfy GatewayAssumption.
THEOREM NoEarlyDeath == Spec => DeadOnlyAfterMisses
<1>1. Inv /\ [Next]_vars
        => [\A n \in Node :
              Dies(n) => silence[n] >= (DEAD_THRESHOLD - asked'[n]) * HEARTBEAT_INTERVAL_S]_vars
  BY DeathIsLate
<1> QED BY <1>1, Invariance, PTL DEF Spec, DeadOnlyAfterMisses

\* A call that starts in this step was let in by a circuit that is not open
\* and goes to a node of the ring.
LEMMA CallStarts ==
  ASSUME Inv, [Next]_vars, NEW r \in Request,
         target'[r] \notin {NoNode, target[r]}
  PROVE  /\ status[target'[r]] \in {"alive", "suspect"}
         /\ circuits'[target'[r]].state # "open"
<1>1. hash_ring \subseteq Node /\ CM!RoutesOnlyToLiveNodes
  BY ClusterFacts DEF Inv, CM!TypeOK
<1>2. ASSUME NEW q \in Request, NEW S \in SUBSET hash_ring, NEW n \in S,
             CB!Dispatch(q, S, n)
      PROVE  /\ status[target'[r]] \in {"alive", "suspect"}
             /\ circuits'[target'[r]].state # "open"
  <2>1. target'[r] = n
    BY <1>2 DEF CB!Dispatch, Inv
  <2>2. circuits'[n] = CB!AfterQuery(circuits[n]) /\ CB!Available(circuits[n])
    BY <1>1, <1>2 DEF CB!Dispatch, CB!Ask
  <2>3. CB!AfterQuery(circuits[n]).state # "open"
    BY <2>2 DEF CB!AfterQuery, CB!Available
  <2> QED BY <1>1, <2>1, <2>2, <2>3 DEF CM!RoutesOnlyToLiveNodes
<1>3. CASE \E q \in Request : Get(q) \/ Write(q)
  <2>1. PICK q \in Request : Get(q) \/ Write(q)
    BY <1>3
  <2>2. PICK S \in SUBSET hash_ring : \E n \in S : CB!Dispatch(q, S, n)
    BY <2>1 DEF Get, Write, ReplicaSets
  <2> QED BY <2>2, <1>2
<1>4. CASE \E q \in Request : CallSucceeds(q) \/ CallFails(q) \/ CallBreaks(q)
  <2>1. PICK q \in Request : CB!Finish(q)
    BY <1>4 DEF CallSucceeds, CallFails, CallBreaks, CB!CallSucceeds,
                CB!CallFails, CB!CallBreaks
  <2> QED BY <2>1 DEF CB!Finish, Inv
<1>5. CASE target' = target
  BY <1>5
<1>6. CASE GetRefused \/ WriteRefused
  BY <1>5, <1>6 DEF GetRefused, WriteRefused, CB!Refuse
<1>7. CASE \E n \in Node : Register(n) \/ Deregister(n) \/ Heartbeat(n)
  BY <1>5, <1>7 DEF Register, Deregister, Heartbeat, MissesForgotten, breakerVars
<1>8. CASE FailureDetectionLoop \/ HealthCheck \/ Tick
  BY <1>5, <1>8 DEF FailureDetectionLoop, HealthCheck, Tick, breakerVars
<1>9. CASE UNCHANGED vars
  BY <1>5, <1>9 DEF vars, breakerVars
<1> QED BY <1>3, <1>4, <1>6, <1>7, <1>8, <1>9 DEF Next

\* New calls go only to nodes that the cluster manager holds for alive or
\* suspect and whose circuit is not open.
THEOREM CallsServed == Spec => CallsOnlyServingNodes
<1>1. Inv /\ [Next]_vars
        => [\A r \in Request :
              target'[r] \notin {NoNode, target[r]}
                => /\ status[target'[r]] \in {"alive", "suspect"}
                   /\ circuits'[target'[r]].state # "open"]_vars
  BY CallStarts
<1> QED BY <1>1, Invariance, PTL DEF Spec, CallsOnlyServingNodes
-----------------------------------------------------------------------------
(* The breaker: its types, and the trip of a dead node's circuit. *)

\* A set of numbers with 0 and the successor of each of its members has all.
LEMMA SetInduction ==
  ASSUME NEW S, 0 \in S, \A n \in Nat : n \in S => n + 1 \in S
  PROVE  \A n \in Nat : n \in S
<1> SUFFICES ASSUME Nat \ S # {} PROVE FALSE
  OBVIOUS
<1> DEFINE R == {p \in Nat \X Nat : p[1] < p[2]}
<1>1. IsWellFoundedOn(R, Nat)
  BY NatLessThanWellFounded DEF OpToRel
<1>2. PICK x \in Nat \ S : \A y \in Nat \ S : ~ (<<y, x>> \in R)
  <2>1. Nat \ S \in SUBSET Nat
    OBVIOUS
  <2> HIDE DEF R
  <2> QED BY <1>1, <2>1, WFMin
<1>3. \A y \in Nat \ S : ~ (y < x)
  BY <1>2
<1>4. x # 0 /\ x - 1 \in Nat /\ x - 1 < x
  BY <1>2
<1>5. x \in S
  BY <1>3, <1>4
<1> QED BY <1>5

\* One call of record_failure: one more failure, up to the threshold, which
\* opens the circuit.
LEMMA FailureCounts ==
  ASSUME NEW c \in CB!Circuit
  PROVE  /\ CB!AfterFailure(c) \in CB!Circuit
         /\ CB!AfterFailure(c).failure_count =
               IF c.failure_count < failure_threshold THEN c.failure_count + 1
                                                      ELSE c.failure_count
         /\ CB!AfterFailure(c).failure_count = failure_threshold
               => CB!AfterFailure(c).state = "open"
  BY GatewayAssumption DEF CB!AfterFailure, CB!Circuit, CB!BreakerState

\* R[k] is the circuit c after k calls of record_failure.
Records(c, R) ==
    R = [k \in 0..failure_threshold |->
            IF k = 0 THEN c ELSE CB!AfterFailure(R[k - 1])]

\* The calls that the loop makes can be written down one after the other.
LEMMA RecordsExist ==
  ASSUME NEW c \in CB!Circuit
  PROVE  \E R : Records(c, R)
<1> DEFINE Runs(n, g) == g[0] = c /\ \A a \in 1..n : g[a] = CB!AfterFailure(g[a - 1])
           S == {n \in Nat : \E g : g = [a \in 0..n |-> g[a]] /\ Runs(n, g)}
<1>1. 0 \in S
  <2> DEFINE g == [a \in 0..0 |-> c]
  <2>1. g = [a \in 0..0 |-> g[a]] /\ Runs(0, g)
    OBVIOUS
  <2> HIDE DEF g, Runs
  <2> QED BY <2>1
<1>2. ASSUME NEW n \in Nat, n \in S PROVE n + 1 \in S
  <2>1. PICK g : g = [a \in 0..n |-> g[a]] /\ Runs(n, g)
    BY <1>2
  <2>2. PICK next : next = CB!AfterFailure(g[n])
    OBVIOUS
  <2> DEFINE f == [a \in 0..(n + 1) |-> IF a = n + 1 THEN next ELSE g[a]]
  <2>3. f = [a \in 0..(n + 1) |-> f[a]]
    OBVIOUS
  <2>4. f[0] = c /\ f[n + 1] = next /\ \A a \in 0..n : f[a] = g[a]
    BY <2>1
  <2>5. ASSUME NEW a \in 1..(n + 1) PROVE f[a] = CB!AfterFailure(f[a - 1])
    <3> HIDE DEF f
    <3>1. CASE a = n + 1
      <4>1. f[a - 1] = g[n]
        BY <2>4, <3>1
      <4> QED BY <2>2, <2>4, <3>1, <4>1
    <3>2. CASE a \in 1..n
      <4>1. a \in 0..n /\ a - 1 \in 0..n
        BY <3>2
      <4>2. f[a] = g[a] /\ f[a - 1] = g[a - 1]
        BY <2>4, <4>1
      <4>3. g[a] = CB!AfterFailure(g[a - 1])
        BY <2>1, <3>2
      <4> QED BY <4>2, <4>3
    <3> QED BY <3>1, <3>2
  <2>6. Runs(n + 1, f)
    <3> HIDE DEF f
    <3> QED BY <2>4, <2>5
  <2> HIDE DEF f, Runs
  <2> QED BY <2>3, <2>6
<1>3. failure_threshold \in S
  <2> HIDE DEF S
  <2> QED BY <1>1, <1>2, SetInduction, GatewayAssumption
<1>4. PICK R : R = [a \in 0..failure_threshold |-> R[a]] /\ Runs(failure_threshold, R)
  BY <1>3
<1>5. \A k \in 0..failure_threshold :
         R[k] = IF k = 0 THEN c ELSE CB!AfterFailure(R[k - 1])
  <2> TAKE k \in 0..failure_threshold
  <2>1. CASE k = 0
    BY <1>4, <2>1
  <2>2. CASE k # 0
    <3>1. k \in 1..failure_threshold
      BY <2>2, GatewayAssumption
    <3>2. R[k] = CB!AfterFailure(R[k - 1])
      BY <1>4, <3>1
    <3> QED BY <2>2, <3>2
  <2> QED BY <2>1, <2>2
<1>6. Records(c, R)
  BY <1>4, <1>5 DEF Records
<1> QED BY <1>6

\* However the circuit was left by earlier calls and probes, the trip opens it.
LEMMA TripOpens ==
  ASSUME NEW c \in CB!Circuit
  PROVE  Trip(c) \in CB!Circuit /\ Trip(c).state = "open"
<1>1. Trip(c) = (CHOOSE R : Records(c, R))[failure_threshold]
  BY DEF Trip, Records
<1>2. PICK R : Records(c, R) /\ Trip(c) = R[failure_threshold]
  BY <1>1, RecordsExist
<1>3. R[0] = c
  BY <1>2, GatewayAssumption DEF Records
<1>4. \A k \in Nat : k + 1 <= failure_threshold => R[k + 1] = CB!AfterFailure(R[k])
  <2> SUFFICES ASSUME NEW k \in Nat, k + 1 <= failure_threshold
               PROVE  R[k + 1] = CB!AfterFailure(R[k])
    OBVIOUS
  <2>1. PICK j : j = k + 1
    OBVIOUS
  <2>2. j \in 0..failure_threshold /\ j # 0 /\ j - 1 = k
    BY <2>1, GatewayAssumption
  <2>3. R[j] = CB!AfterFailure(R[j - 1])
    BY <1>2, <2>2 DEF Records
  <2> QED BY <2>1, <2>2, <2>3
<1> DEFINE Good(k) == /\ R[k] \in CB!Circuit
                      /\ R[k].failure_count >= k
                      /\ k > 0 /\ R[k].failure_count = failure_threshold
                            => R[k].state = "open"
           S == {k \in Nat : k <= failure_threshold => Good(k)}
<1>5. 0 \in S
  BY <1>3, GatewayAssumption DEF CB!Circuit
<1>6. ASSUME NEW k \in Nat, k \in S PROVE k + 1 \in S
  <2> SUFFICES ASSUME k + 1 <= failure_threshold PROVE Good(k + 1)
    OBVIOUS
  <2>1. R[k] \in CB!Circuit /\ R[k].failure_count >= k
    BY <1>6, GatewayAssumption
  <2>2. PICK d \in CB!Circuit : d = R[k]
    BY <2>1
  <2> DEFINE e == R[k + 1]
  <2>3. e = CB!AfterFailure(d)
    BY <1>4, <2>2
  <2> HIDE DEF e
  <2>4. /\ e \in CB!Circuit
        /\ e.failure_count = IF d.failure_count < failure_threshold
                             THEN d.failure_count + 1 ELSE d.failure_count
        /\ e.failure_count = failure_threshold => e.state = "open"
    BY <2>3, FailureCounts
  <2>5. d.failure_count \in 0..failure_threshold /\ d.failure_count >= k
    BY <2>1, <2>2 DEF CB!Circuit
  <2>6. e.failure_count >= k + 1
    BY <2>4, <2>5, GatewayAssumption
  <2> QED BY <2>4, <2>6 DEF e
<1>7. Good(failure_threshold)
  <2>1. \A k \in Nat : k \in S
    <3> HIDE DEF S
    <3> QED BY <1>5, <1>6, SetInduction
  <2> QED BY <2>1, GatewayAssumption
<1>8. R[failure_threshold].failure_count \in 0..failure_threshold
  BY <1>7 DEF CB!Circuit
<1> QED BY <1>2, <1>7, <1>8, GatewayAssumption

\* The other methods keep a circuit's type.
LEMMA MethodTypes ==
  ASSUME NEW c \in CB!Circuit
  PROVE  /\ CB!AfterSuccess(c) \in CB!Circuit
         /\ CB!AfterQuery(c) \in CB!Circuit
         /\ CB!AfterQuery(c).state \in CB!BreakerState
         /\ c.since_failure < timeout_s
               => [c EXCEPT !.since_failure = @ + 1] \in CB!Circuit
<1>1. CB!AfterSuccess(c) \in CB!Circuit
  BY GatewayAssumption DEF CB!AfterSuccess, CB!Circuit, CB!BreakerState
<1>2. CB!AfterQuery(c) \in CB!Circuit
  BY GatewayAssumption DEF CB!AfterQuery, CB!Circuit, CB!BreakerState
<1>3. CB!AfterQuery(c).state \in CB!BreakerState
  BY <1>2 DEF CB!Circuit
<1>4. c.since_failure < timeout_s => [c EXCEPT !.since_failure = @ + 1] \in CB!Circuit
  BY GatewayAssumption DEF CB!Circuit, CB!BreakerState
<1> QED BY <1>1, <1>2, <1>3, <1>4

\* The types of the breaker and of the timer.
BreakerTypes == CB!TypeOK /\ wake \in 0..(STARTUP_DELAY_S + SCAN_INTERVAL_S)

\* Requests ask, call and record, as the breaker alone allows them to.
LEMMA RequestTypes ==
  ASSUME Inv, BreakerTypes,
         \/ GetRefused \/ WriteRefused
         \/ \E r \in Request : \/ Get(r) \/ Write(r) \/ CallSucceeds(r)
                               \/ CallFails(r) \/ CallBreaks(r)
  PROVE  BreakerTypes'
<1>0. /\ circuits \in [Node -> CB!Circuit]
      /\ target \in [Request -> Node \cup {NoNode}]
      /\ admitted \in [Request -> CB!BreakerState]
      /\ "closed" \in CB!BreakerState
      /\ hash_ring \subseteq Node
  BY ClusterFacts DEF BreakerTypes, CB!TypeOK, CB!BreakerState, Inv, CM!TypeOK
<1>1. wake' = wake
  BY DEF GetRefused, WriteRefused, Get, Write, CallSucceeds, CallFails, CallBreaks
<1>2. ASSUME NEW S \in SUBSET Node, CB!Ask(S) PROVE circuits' \in [Node -> CB!Circuit]
  BY <1>0, <1>2, MethodTypes DEF CB!Ask
<1>3. ASSUME NEW S \in SUBSET Node, CB!Refuse(S) PROVE CB!TypeOK'
  BY <1>0, <1>2, <1>3 DEF CB!Refuse, CB!TypeOK
<1>4. ASSUME NEW r \in Request, NEW S \in SUBSET Node, NEW n \in S, CB!Dispatch(r, S, n)
      PROVE  CB!TypeOK'
  <2>1. /\ CB!Ask(S)
        /\ target' = [target EXCEPT ![r] = n]
        /\ admitted' = [admitted EXCEPT ![r] = CB!AfterQuery(circuits[n]).state]
    BY <1>4 DEF CB!Dispatch
  <2>2. circuits[n] \in CB!Circuit
    BY <1>0, <1>4
  <2>3. CB!AfterQuery(circuits[n]).state \in CB!BreakerState
    BY <2>2, MethodTypes
  <2> QED BY <1>0, <1>2, <1>4, <2>1, <2>3 DEF CB!TypeOK
<1>5. ASSUME NEW r \in Request, CallSucceeds(r) \/ CallFails(r) \/ CallBreaks(r)
      PROVE  CB!TypeOK'
  <2>1. CB!Finish(r)
    BY <1>5 DEF CallSucceeds, CallFails, CallBreaks, CB!CallSucceeds, CB!CallFails,
                CB!CallBreaks
  <2>2. /\ target[r] \in Node
        /\ target' \in [Request -> Node \cup {NoNode}]
        /\ admitted' \in [Request -> CB!BreakerState]
    BY <1>0, <2>1 DEF CB!Finish
  <2>3. PICK c \in CB!Circuit : c = circuits[target[r]]
    BY <1>0, <2>2
  <2>4. CB!AfterSuccess(c) \in CB!Circuit /\ CB!AfterFailure(c) \in CB!Circuit
    BY MethodTypes, FailureCounts
  <2>5. \/ circuits' = circuits
        \/ circuits' = [circuits EXCEPT ![target[r]] = CB!AfterSuccess(c)]
        \/ circuits' = [circuits EXCEPT ![target[r]] = CB!AfterFailure(c)]
    BY <1>5, <2>3 DEF CallSucceeds, CallFails, CallBreaks, CB!CallSucceeds, CB!CallFails,
                      CB!CallBreaks
  <2>6. circuits' \in [Node -> CB!Circuit]
    BY <1>0, <2>2, <2>4, <2>5
  <2> QED BY <2>2, <2>6 DEF CB!TypeOK
<1>6. ASSUME NEW r \in Request, Get(r) \/ Write(r) PROVE CB!TypeOK'
  <2>1. PICK S \in SUBSET hash_ring : \E n \in S : CB!Dispatch(r, S, n)
    BY <1>6 DEF Get, Write, ReplicaSets
  <2> QED BY <1>0, <1>4, <2>1
<1>7. CASE GetRefused \/ WriteRefused
  <2>1. PICK S \in SUBSET hash_ring : CB!Refuse(S)
    BY <1>7 DEF GetRefused, WriteRefused, ReplicaSets
  <2>2. CB!TypeOK'
    BY <1>0, <1>3, <2>1
  <2> QED BY <1>1, <2>2 DEF BreakerTypes
<1>8. CASE \E r \in Request : \/ Get(r) \/ Write(r) \/ CallSucceeds(r)
                              \/ CallFails(r) \/ CallBreaks(r)
  BY <1>1, <1>5, <1>6, <1>8 DEF BreakerTypes
<1> QED BY <1>7, <1>8

\* So do the endpoints, the loop and the clock.
LEMMA BreakerStep ==
  ASSUME Inv, BreakerTypes, [Next]_vars
  PROVE  BreakerTypes'
<1>0. circuits \in [Node -> CB!Circuit]
  BY DEF BreakerTypes, CB!TypeOK
<1>1. CASE \E n \in Node : Register(n) \/ Deregister(n) \/ Heartbeat(n)
  BY <1>1 DEF Register, Deregister, Heartbeat, MissesForgotten, breakerVars,
              BreakerTypes, CB!TypeOK
<1>2. CASE FailureDetectionLoop
  <2>1. circuits' = [n \in Node |-> IF n \in CM!NewlyDead THEN Trip(circuits[n])
                                                          ELSE circuits[n]]
    BY <1>2 DEF FailureDetectionLoop
  <2>2. \A n \in Node : circuits[n] \in CB!Circuit /\ Trip(circuits[n]) \in CB!Circuit
    BY <1>0, TripOpens
  <2>3. circuits' \in [Node -> CB!Circuit]
    BY <2>1, <2>2
  <2>4. wake' \in 0..(STARTUP_DELAY_S + SCAN_INTERVAL_S)
    BY <1>2, GatewayAssumption DEF FailureDetectionLoop
  <2> QED BY <1>2, <2>3, <2>4 DEF FailureDetectionLoop, BreakerTypes, CB!TypeOK
<1>3. CASE Tick
  <2>1. circuits' \in [Node -> CB!Circuit]
    BY <1>0, <1>3, MethodTypes DEF Tick, CB!AgeCircuits
  <2>2. wake' \in 0..(STARTUP_DELAY_S + SCAN_INTERVAL_S)
    BY <1>3, GatewayAssumption DEF Tick, BreakerTypes
  <2> QED BY <1>3, <2>1, <2>2 DEF Tick, BreakerTypes, CB!TypeOK
<1>4. CASE HealthCheck \/ UNCHANGED vars
  BY <1>4 DEF HealthCheck, vars, breakerVars, BreakerTypes, CB!TypeOK
<1> QED BY <1>1, <1>2, <1>3, <1>4, RequestTypes DEF Next

\* The gateway, as a whole, is typed: its invariant with that of the breaker.
LEMMA BreakerInvariance == Spec => [](Inv /\ BreakerTypes)
<1>1. Init => BreakerTypes
  BY GatewayAssumption DEF Init, CB!Init, BreakerTypes, CB!TypeOK, CB!Circuit,
                           CB!NewCircuit, CB!BreakerState
<1>2. Inv /\ BreakerTypes /\ [Next]_vars => BreakerTypes'
  BY BreakerStep
<1> QED BY <1>1, <1>2, InitInv, NextInv, PTL DEF Spec

\* Both services, the timer and the history keep their types, whatever the
\* thresholds.
THEOREM TypeCorrect == Spec => []TypeOK
<1>1. Inv /\ BreakerTypes => TypeOK
  <2> SUFFICES ASSUME Inv, BreakerTypes PROVE TypeOK
    OBVIOUS
  <2>1. asked \in [Node -> 0..DEAD_THRESHOLD]
    BY Counters, GatewayAssumption DEF Inv, Counted
  <2> QED BY <2>1, ClusterFacts DEF Inv, BreakerTypes, TypeOK
<1> QED BY <1>1, BreakerInvariance, PTL

\* Either scan takes the node off the ring; the scan of the loop, which no
\* health check is, trips its circuit in the same step.
LEMMA DeathIsThorough ==
  ASSUME Inv, BreakerTypes, [Next]_vars, NEW n \in Node, Dies(n)
  PROVE  /\ n \notin hash_ring'
         /\ asked'[n] = asked[n] => circuits'[n].state = "open"
<1>1. n \notin hash_ring'
  <2>1. CM!RoutesOnlyToLiveNodes'
    BY ClusterInvStep, PTL, ClusterFacts DEF Inv
  <2> QED BY <2>1 DEF CM!RoutesOnlyToLiveNodes, Dies
<1>2. CASE FailureDetectionLoop
  <2>1. n \in CM!NewlyDead
    BY DeathIsFound
  <2>2. circuits[n] \in CB!Circuit
    BY DEF BreakerTypes, CB!TypeOK
  <2>3. circuits'[n] = Trip(circuits[n])
    BY <1>2, <2>1 DEF FailureDetectionLoop
  <2>4. circuits'[n].state = "open"
    BY <2>2, <2>3, TripOpens
  <2> QED BY <1>1, <2>4
<1>3. CASE HealthCheck
  <2>1. n \in CM!Overdue
    BY DeathIsFound DEF CM!NewlyDead
  <2>2. asked'[n] = asked[n] + 1 /\ asked[n] \in Nat
    BY <1>3, <2>1, Counters DEF HealthCheck
  <2> QED BY <1>1, <2>2
<1> QED BY <1>2, <1>3, DeathIsFound

\* The step that finds a node dead leaves it off the ring, and its circuit open
\* when the loop found it, for any failure_threshold and whatever state the
\* circuit was in.
THEOREM DeathAlwaysCutsOff == Spec => DeathCutsOff
<1>1. Inv /\ BreakerTypes /\ [Next]_vars
        => [\A n \in Node :
              Dies(n) => /\ n \notin hash_ring'
                         /\ asked'[n] = asked[n] => circuits'[n].state = "open"]_vars
  BY DeathIsThorough
<1> QED BY <1>1, BreakerInvariance, PTL DEF Spec, DeathCutsOff
=============================================================================
