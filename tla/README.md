# A TLA+ model of the self-healing distributed cache

The system is a **gateway** (Python, FastAPI) in front of **cache nodes** (C++).
Clients GET, PUT and DELETE keys at the gateway; the gateway knows the nodes by
their heartbeats, routes a key to a node with a consistent-hash ring, protects
itself from failing nodes with a circuit breaker, and takes nodes that fall
silent off the ring. A node keeps its share of the keys in an LRU cache with
TTLs.

This directory holds the TLA+ modules that model the system, the TLC
configurations that check them on small instances, and proofs for TLAPS.
`PROJECT.json` maps every definition to the lines it models and lists runs,
mutants, hazards, findings and theorems.

    tlc -workers 2 -config Gateway.cfg Gateway           # check a run
    tlapm GatewayProofs.tla                              # check the proofs

## Inventory

| Part | State | Operations | Shared with |
|---|---|---|---|
| Cluster manager (`cluster_manager.py`) | node metadata (status, last heartbeat, miss counter), current hash ring | register, deregister, process_heartbeat, check_heartbeat_timeouts, rebuild | heartbeat endpoints, failure loop, request handlers |
| Circuit breaker (`circuit_breaker.py`) | per node: state, failure count, time of last failure | record_success, record_failure, is_available | request handlers, failure loop |
| Failure loop (`main.py`) | its sleep | scan, trip breakers of the newly dead | cluster manager, breaker |
| Request handlers (`api/cache.py`) | calls in flight | get_key, put_key, delete_key, call_node | all of the above, nodes over HTTP |
| Hash ring (`hash_ring.py`) | virtual nodes by position | add_node, remove_node, get_node, get_replicas | built by the cluster manager, compared by the rebalancer |
| Health check and inspection (`main.py`, `api/cluster.py`) | none | scan on a worker thread; health, statistics | cluster manager |
| Zone router (`zone_router.py`) | latencies (never measured), write pins (never read) | pick_replica, pin_write, is_pinned_to_primary, cleanup_expired_pins | request handlers |
| Rebalancer (`rebalancer.py`) | in-progress flag | snapshot, compare rings, bulk load | nodes; no caller in the gateway |
| Bloom filter (`bloom_filter.py`) | bit array | add, might_exist, clear, load_from_snapshot | created, not consulted |
| LRU cache (`lru_cache.cpp`) | linked list, map, counters | get, put, remove, purge_expired, snapshot, bulk_load, clear | handler threads, purge thread |
| Node server (`cache_server.cpp`) | running flag, threads | HTTP handlers, heartbeat loop, purge loop, stop | LRU cache, gateway |

What is hard here: handlers of the gateway interleave at every `await`, so a
call may be answered long after the state that admitted it is gone; the failure
loop counts its own passes rather than heartbeats; the ring is rebuilt in the
middle of a scan; two services (cluster manager and breaker) hold separate
opinions of a node; the scan that `/api/health-check` triggers runs on a worker
thread without a lock; in a node, client handlers, the purge thread and a bulk
load share one cache; and TTLs are rounded when entries travel.

## Modules

**`CircuitBreaker.tla`**: one circuit per node. `AfterSuccess`, `AfterFailure`,
`AfterQuery` and `Available` are `record_success`, `record_failure` and the
effect and answer of `is_available`. A request slot `r` models one handler:
`Dispatch` is everything up to the HTTP call (asking for all considered nodes,
choosing one), `CallSucceeds`, `CallFails` and `CallBreaks` are the three ways
`call_node` ends: recorded success, recorded failure, exception that nobody
records. Failure count and age of the last failure are counted as far as the
code compares them, which is exact.

**`ClusterManager.tla`**: `status`, `failed_attempts` and `silence` (now minus
`last_heartbeat`) per node, the insertion order `before` of the node dict, and
the nodes on `hash_ring`. One action per method. `RingAfterScan` is the ring
left by the rebuilds that `check_heartbeat_timeouts` performs while it is still
walking the dict: the order of registration decides whether a node that turns
suspect in the same scan keeps its keys.

**`Gateway.tla`** composes the two through `INSTANCE`: the endpoints, the
failure loop (`wake` is what is left of its sleep) which scans and trips
breakers in one step, `/api/health-check` which scans at any time and leaves the
breaker alone, the requests routed over the current ring, and one clock for all.
`asyncio.sleep` may oversleep, so the loop *may* run from `wake = 0` on. The
history variable `asked` counts the misses that health checks recorded. A scan is
one step here, also that of a health check, which really runs on a worker thread:
this module shows what scans do to the promises about time and to the breaker,
`HealthCheck.tla` what their interleaving does to counters and ring.

`Health` is what `/health` and `/status` conclude from the statuses.

**`HealthCheck.tla`** refines the grain of the cluster manager.
`/api/health-check` gives a plain function to `BackgroundTasks`, which runs it
on a worker thread, and nothing locks the state it shares with the event loop.
Every thread `t` has a program counter and the local variables of the code
(`th[t]`), and a step is one read or write of an attribute that another thread
may touch: `failed_attempts += 1` is `ReadMisses` and `WriteMisses`, the
comprehension of `_rebuild_hash_ring` reads one status per step (`Collect`) and
the ring is assigned at the end (`Install`), `process_heartbeat` reads the
status up to four times (`Weigh`, `Ask`, `Compare`). A registration makes other
threads' iterations over the dict end in a `RuntimeError` (`Interrupted`),
unless they were through: a rebuild whose comprehension has come to its end goes
on and installs its ring, without the new node. Which of the two a registration
at the end of the comprehension meets is a nondeterministic choice (`through`).
Three history variables, which no action of the code reads, name the overlaps
that do harm: `clean` (of a thread), `trusted` and `crossed`.

**`DataPlane.tla`**: what clients get. A call slot holds a GET, PUT or DELETE
from the routing decision to its end: `Get`, `Put` and `Delete` choose the node
and send, `HandleGet`, `HandleDelete`, `HandlePutContains` and `HandlePut` are
the handlers of the node (a PUT asks `contains` and puts under two locks),
`Answer` is the rest of `get_key`, `put_key` and `delete_key`, and `GiveUp` the
timeout: the node goes on with a call that the gateway has given up, and its
write may land later, also on top of one that was acknowledged meanwhile. Every
call may find another ring, the breaker lets any replicas through, and a node is
the lossy store that `LRUCache.tla` implements, which a restart empties. An entry
that passes its TTL (`Expire`) stays in the map as `Expired` until it is read,
overwritten, deleted or collected (`Lose`). The handlers treat it as the code
does: `get` removes it and answers 404, `contains` denies it, `remove` does not
look at the TTL and answers that it was deleted. History: `may[n][k]`, what node
`n` may have under `k` given what was sent, acknowledged and lost; `was` and
`others` of a call, what it may find; and `acked`, the last acknowledged PUT.
`MCDataPlane.tla` gives the instances.

**`LRUCache.tla`**: the list as a sequence, the map as the set of its keys,
the counters of entries, a running `bulk_load` (`pending`), the last answer of
`get`, and a history variable `newer` recording which key was used after which,
independently of the list. `Without` is a walk along the list that detaches
entries, written as a recursive function so that it can be proved about. A clock
tick is a fraction of a second.
**`LossyStore.tla`** is the abstract store a client sees. `MCLRUCache.tla`
gives the instance.

**`HashRing.tla`**: positions, `add_node`, `remove_node`, and the lookups as
operators, compared with a reference definition by clockwise distance. MD5 is
replaced by every injective placement of the virtual nodes, chosen in `Init`.

**`Rebalancer.tla`**: what every node holds, the ring in force, client writes
under way, and one rebalance cut at its awaits: the answers to `GET /keys`, the
plan (a task per pair of owners), a snapshot and a bulk load per task, the sum.
A bulk load is a thing of its own (`loads`): the node works through it entry by
entry, and goes on when the gateway has given up. Nodes crash, requests and
answers get lost, entries expire or are evicted at any time. Values are version
numbers given when a write reaches its node, so that older and newer can be
told apart. An owner without endpoint is looked for at `localhost:8001` or
`:8002`, as in the code (`Local8001`, `Local8002`). Nothing in the gateway calls
`rebalance()`, so the callers and their arguments are arbitrary, except that one
of the two rings is in force. History variables: `held`, `disturbed`, `landed`,
`moved`. `MCRebalancer.tla` gives the sets of rings.

**`BloomFilter.tla`**: bytes as sets of bit positions, `add`, `clear`,
`load_from_snapshot` and `might_exist` over an arbitrary hash function. Its two
properties are proved and need no run.

**`CircuitBreakerProofs`, `GatewayProofs` (with the cluster manager),
`HealthCheckProofs`, `DataPlaneProofs`, `LRUCacheProofs`, `HashRingProofs`,
`RebalancerProofs`, `BloomFilterProofs`**: see *Proofs*.

Definitions commented `Faulty variant` are not part of the specifications. Each
is a plausible bug in the definition that follows it, used to confirm that a
property notices it.

## Runs

| Run | Instance | Shows |
|---|---|---|
| `breaker` | 2 nodes, 2 requests, threshold 2, cool-down 2 | `OpenIffThreshold`: state and failure count never drift apart, whatever late answers arrive. `OpenCircuitIsProbed`: an open circuit is eventually probed |
| `gateway` | 2 nodes, 1 request, 2 s timeout and heartbeats, 1 s scans, 2 misses, health checks at any time | of the cluster manager inside the gateway: `RoutesOnlyToLiveNodes`, `AliveNodesAreRouted`, `MissesMatchStatus`; `HealthIsHonest`: what the inspection API concludes from statuses is true of the ring; `DeadOnlyAfterMisses`: each miss that the loop counted against a node that dies stands for a missing heartbeat, with its inductive strengthening `MissesTakeTime`; `DeathCutsOff`: a dead node is off the ring, and its circuit open if the loop found it; `CallsOnlyServingNodes`. Liveness `SilentNodeIsDrained`, under interfering calls, registrations and health checks |
| `health_check` | event loop and 1 worker, 2 nodes, one of which registers later, 2 misses | `OnlyCrossingVisitsMiscount`: misses and status of a node go wrong only if two threads are at work on that node, and the next heartbeat or scan visit that has the node for itself repairs them. `OnlyOverlapMisroutes`: the ring goes wrong by two races and no other. Liveness `SilentNodeDies` |
| `data_plane` | 2 nodes, 1 key with TTL, 1 value, 2 calls, pin of 1 tick | `AckedWritesStay`: what was acknowledged is there until it expires or is lost, another write is sent, or a write that overlapped it lands on top. `AnswersAreTrue`: hit or miss, created or updated, deleted or not found are true of what the node may have had, expired entries included; in the type invariant, no answer carries an expired entry. `PinFollowsWrite`: a pin names the node of the last acknowledged PUT |
| `lru` | 3 keys, capacity 2, TTL none or 1 s, 3 puts, one batch of 2 | `MapMatchesList`, `ListInOrderOfUse`, `Accounting`; refinement `ImplementsStore`; liveness `ExpiredEntriesAreCollected` |
| `ring` | all 630 placements of 3 x 2 virtual nodes on 7 positions | `RingIsItsNodes`, `OwnerIsClosest`, `ReplicasAreClosest`; `OnlyAffectedKeysMove`: minimal disruption, and a leaving primary is succeeded by its second replica |
| `rebalance` | 2 callers, 2 nodes, a key that moves and one that stays, 2 writes, 2 rebalances | `UndisturbedKeysArrive`: a key that nothing else happened to arrives with its value. `OthersStayInPlace`: keys whose owner did not change get values from clients only, although snapshots contain them too. `ReportIsHonest`, `OneAtATime`; liveness `RebalanceEnds` |

Five runs check what the repository's own text says and find it violated by the
code (`findings` in `PROJECT.json` quotes the lines):

* `breaker_probe`: a half-open circuit admits any number of calls, not one probe;
* `gateway_recovery`: a node that comes back from the dead stays `recovered` and
  off the ring for ever, unless it registers again (nor does its heartbeat close
  its circuit: the endpoint has no access to the breaker);
* `lru_snapshot`: an entry in its last second is exported with TTL 0, which
  means "no TTL" to the receiver;
* `read_your_writes`: a read within 500 ms of a write goes to another node than
  the one that was written, because `get_key` does not consult the pins;
* `rebalance_loss`: with all nodes reachable and no request failing, a migration
  replaces a client's write by the older value of the previous owner.

### Bounds

*Saturating counters.* `failure_count`, `since_failure` and `silence` stop at
the largest value the code tells apart; for `silence` in `Gateway` that is
`heartbeat_timeout_s + 1 + DEAD_THRESHOLD * SCAN_INTERVAL_S`, so that the time
bounds proved are not an effect of the cap. *Nodes.* Two nodes are enough for
the interplay of one node's death with another's routing, in both orders of
registration; the theorems on the same properties hold for any number. *Requests.* One
slot in `Gateway`, two where calls overlap on one circuit (`CircuitBreaker`).
*Cache.* With capacity 2, the third key evicts; `MaxPuts` bounds the calls of
`put`. *Ring.* Seven positions for six virtual nodes leave a gap, so that a key
may fall on a virtual node, between two, or past the last. *Rebalancer.* Two
keys distinguish a migrated key from one that stays; two writes, an older from a
newer value; two rebalances, a late bulk load from the current one. `MaxWrites`
and `MaxRuns` bound the counters. *Threads.* One worker and the event loop are
the two sides of every race named in the hazards; `MissCap` bounds a counter
that lost resets would let grow without end, and misses beyond the threshold
make no difference to the code. *Data plane.* Keys
do not interact, so one is enough, and two calls overlap. Two nodes make the
primary change. Its key has a TTL: an entry that never expires behaves like one
whose `Expire` does not happen. One value tells a write from a DELETE, from a
loss and from an expired entry; that a GET brings the value of the right PUT is
left to the proof of `AnswersAreTrue`, which holds for any values. A GET may find
any replica first, and every call any ring; so every node is the primary of some
ring, and permuting the nodes is a symmetry of the instance.

### Fairness

`Gateway`: time passes; the loop runs again after every sleep, because its body
catches every exception; every call ends, because the HTTP client has a timeout
of five seconds. Heartbeats are *not* assumed, except in `gateway_recovery`,
which asks what happens when they keep coming. `CircuitBreaker`: in addition,
requests for the keys of every node keep coming (strong fairness, because a
slot may be taken by others in between; the slots are a bound of the model).
`HealthCheck`: the event loop runs on and, since it serves what is ready in
order, the timer of the failure loop gets its turn between handlers (strong
fairness of `BeginScan(EventLoop)`); nothing is assumed of the worker, which may
stop anywhere. `DataPlane`: every call ends, as above.
`LRUCache`: the purge thread calls `purge_expired` again and again.
`Rebalancer`: each of its requests ends, at the latest with the 30 s timeout of
the HTTP client; nothing is assumed of clients and nodes.

### Time

The clocks are discrete. A node that was heard `silence` ticks ago was heard
more than `silence - 1` and less than `silence + 1` seconds ago; the bounds in
`DeadOnlyAfterMisses` are in ticks. With the defaults the floor is 17 ticks, so
more than 16 s of real time, against the 15 s of three heartbeats.

The comment at `cache_server.cpp:361` says something else: that a node not heard
from within two heartbeat intervals is marked dead. The gateway does not know the
nodes' interval and has no such rule. With the defaults a node that has been
silent for 11 s is only `SUSPECT` after the scan that finds it overdue; the loop
alone buries it after the three intervals of `NoEarlyDeath` at the earliest. Only
health checks bring its death forward, and the promise of
`DeadOnlyAfterMisses` is lower by the misses that they counted.

## Proofs

All theorems hold for every value of the constants allowed by the named
assumptions (`BreakerAssumption`, `ClusterAssumption`, `GatewayAssumption`,
`ThreadAssumption`,
`DataPlaneAssumption`, `CacheAssumption`, `RingAssumption`,
`RebalancerAssumption`; for the Bloom filter, `FilterAssumption` is a hypothesis
of each theorem). Each inductive invariant was checked with TLC on the instance
of its run before it was proved.

* **`CircuitBreakerProofs`**: `TypeCorrect`, `OpenAtThreshold`. Soundness of one
  circuit (typed, and open exactly at the threshold) is preserved by each
  method; every step applies methods to circuits, so the invariant follows.
* **`GatewayProofs`**, the cluster manager: `ClusterTypeCorrect`,
  `ClusterMisses`, `ClusterRoutingSafety`, `ClusterRoutesAlive`. Their
  conjunction `ClusterInv` is inductive. It has to be one invariant: the miss
  counter stays within its type only because a node at the threshold is dead and
  is skipped.
* **`GatewayProofs`**, the gateway: every gateway step is a cluster-manager step
  or leaves it alone (lemma `ClusterStep`), through which these invariants carry
  over (`GatewayRoutingSafety`, `GatewayRoutesAlive`, `GatewayMisses`).
  `HonestHealth`, from the two directions of agreement between statuses and ring.
  `MissesSpread` and `NoEarlyDeath`: the inductive part is `MissesTakeTime`,
  `silence + wake >= timeout + 1 + k * scan` for `k` misses counted by the loop.
  A tick raises `silence` and lowers `wake`; a scan of the loop, which happens at
  `wake = 0`, adds one sleep on both sides; a health check adds to
  `failed_attempts` what it adds to `asked`; a heartbeat resets both. So when a
  node dies after `k` misses of the loop, in the loop or in a health check during
  its sleep, its silence is at least `timeout + 1 + (k - 1) * scan`. Lemma `Pace`
  compares that with `k` heartbeat intervals for every `k` up to the threshold;
  `GatewayAssumption` states it for 1 and for the threshold. The defaults satisfy
  it; the unused setting `heartbeat_check_interval_s = 2` would give 15 >= 15 and
  leave no slack at all. `CallsServed`: both services agree to every new call.
  `TypeCorrect` adds the types of the breaker (`BreakerTypes`).
  `DeathAlwaysCutsOff`: `Trip` calls `record_failure` `failure_threshold` times;
  after `k` calls the failure count is at least `k`, whatever it was before, so
  that the last call finds it at the threshold and opens the circuit, also a
  half-open one.
* **`HealthCheckProofs`**: `ThreadsTypeCorrect`, `OnlyCrossingMiscounts`,
  `OnlyOverlapsMisroute`, for any number of workers. The properties speak of
  nodes that nobody visits and of moments without a rebuild; the invariant
  `ThreadsInv` says what leads there. `Types`: a thread in the middle of a visit
  holds a node of the dict, or the object of one that was replaced and that it is
  about to bury; the order of the dict gives every set of its nodes a first one.
  `RingInv`: what a rebuild that nobody disturbed has collected is true of the
  nodes it has read, so the ring it installs is right; between rebuilds only the
  node that a handler is about to compare may be routed wrongly. `ToldInv`: a
  node that is not crossed has at most one visitor, what this visitor has read is
  still true (`OnCourse`, step by step), and without a visitor misses and status
  agree. A node stops being crossed when a thread begins a visit and has it for
  itself; that `OnCourse` holds at the beginning of a visit *whatever* the node
  went through before is the proof that the next such visit repairs it.
  `EventLoopAloneIsSafe`: without workers (`Worker = {}`) nothing is ever crossed
  or mistrusted, so that between two methods ring and counters are right. Hence
  the races come from `/api/health-check` alone; without it the fine grain says
  of ring and counters what `ClusterManager`, where a method is one step, says.
* **`DataPlaneProofs`**: `TypeCorrect`, `AckedWritesStayThere`,
  `ClientsAreToldTheTruth`, `PinsFollowWrites`. The history is set when writes are
  sent, acknowledged or lost, while the store changes when they land; the
  invariant closes the gap. What a write in flight will leave is among what the
  node may have (`PendingMayLand`) and among what every call that may meet it
  expects (`PendingIsKnown`), whether or not its client still waits; a write that
  has landed is there, or one that overlapped it (`LandedStays`); and what a call
  is about to find is what it may expect (`Sees`). A PUT needs the last twice,
  since it looks and writes under two locks.
* **`LRUCacheProofs`**: `TypeCorrect`, `MapAlwaysMatchesList`,
  `ListStaysInOrderOfUse`, `EveryEntryIsAccountedFor`, `CacheIsAStore`. What a walk
  leaves is shown by induction over its turns: the entries not detached, in their
  order (`WithoutKeeps`). In the invariant no key is twice in the list, which
  makes its length the number of keys and of entries (by a bijection), so that
  capacity and counters can be argued with cardinalities. For the refinement,
  what clients see is described by the unexpired entries alone (`SeesTheList`);
  each method is then a step of `LossyStore` or is not noticed: an entry that a
  purge or a `get` detaches had expired, and a `put` takes at most one other.
* **`HashRingProofs`**: `TypeCorrect`, `RingIsAlwaysItsNodes`, `OwnersAreClosest`,
  `ReplicasAreTheClosest`, `OnlyAffectedKeysEverMove`. The invariant is short
  (types, the ring is made of the virtual nodes of its nodes, which are apart);
  the work is in the lookups. `bisect` counts positions: the number of occupied
  positions up to `p` determines `p`, the walk that starts there goes away from
  the key and meets every virtual node once, and after `a` turns of
  `get_replicas` the replicas are the nodes met so far (`Found`, by induction over
  the turns). Owner and second replica in terms of distances give minimal
  disruption.
* **`RebalancerProofs`**: `OneRebalanceAtATime`, `TypeCorrect`, `ReportsAreHonest`,
  `HeldKeysArrive`, `OtherKeysStay`. The flag and the callers' places
  are one invariant: a rebalance starts only when the flag is down, hence when
  nobody is active; the only active caller is the one that resets it; a caller
  that is turned away touches nothing. The large invariant adds what tasks and
  bulk loads may contain (`TasksFit`, `LoadsFit`, `OnlyMovedKeys`), that what a
  task counts has landed, whence the sum of the results is bounded by the number
  of keys put (`Counted`, with lemmas on the sum over a set), that nobody else
  changed the keys at stake (`Unchanged`), and for each phase how such a key gets
  to its new owner (`OnTheirWay`: its owner is still to be listed, or it is
  listed, or a task carries it).

* **`BloomFilterProofs`**: `NeverAbsent` and `CollisionsOnly`. The invariant says
  that every byte holds exactly the bits of the keys added. A position is
  recovered from its byte and bit (`8 * (p \div 8) + p % 8 = p`), so
  `might_exist` is true exactly when all positions of the key are positions of
  keys that were added.

Induction. The induction theorems of the library take an operator as a
parameter, which the provers cannot instantiate. Where an argument goes by
induction (the trip, the walks of list and ring, sums over sets) the proofs use
sets of numbers instead: a set that holds 0 and the successor of each of its
members is `Nat` (`SetInduction`, from the well-foundedness of `<`). A function
that is defined by recursion is a `CHOOSE`, so it is first shown, by the same
induction, that there is such a function.

Only model-checked: the liveness properties (`OpenCircuitIsProbed`,
`SilentNodeIsDrained`, `SilentNodeDies`, `ExpiredEntriesAreCollected`,
`RebalanceEnds`), which need fairness and `ENABLED`. Every invariant, action
property and refinement that a passing run checks is a theorem.

## What the threads can do to each other

The comment on the class says "Thread-safe via lock"; there is no lock. The
model shows which consequences the races have, and that there are no others:

* `failed_attempts += 1` of a scan overwrites the reset of a heartbeat, so that a
  node that is being heard keeps its misses;
* a scan that noted `ALIVE` before another thread buried the node writes
  `SUSPECT` over `DEAD`;
* a rebuild that read the statuses before they changed, or the nodes before
  another one registered, installs its ring after the newer one;
* a heartbeat handler that noted `ALIVE`, was overtaken by a scan that made the
  node `SUSPECT` and rebuilt the ring for another death, puts the node back to
  `ALIVE`, compares, sees no change and does not rebuild: an alive node stays off
  the ring until something else rebuilds it.

Two consequences of the endpoint need no race, and are in `Gateway`, which for
that reason promises less than the repository's text does.

* A node found dead by a worker is in nobody's `newly_dead`: its scan only logs
  the node, and the loop's scans skip the dead. Its circuit stays closed, while
  `main.py:90` says of the shared miss counter "If miss counter >= DEAD_THRESHOLD
  → mark DEAD, open circuit breaker". `DeathCutsOff` asks for the open circuit of
  the deaths that the loop found, and for a ring without the node always.
* Each health check counts a miss, at no interval. With the defaults one pass of
  the loop and two calls of the endpoint bury a node whose last heartbeat is 11 s
  old, which is two heartbeats; `cluster_manager.py:32` says "missed 3+
  heartbeats", `README.md:150` "3 missed heartbeats". `DeadOnlyAfterMisses`
  promises the heartbeats that the loop counted.

## Not modelled

* Of the node server: the rejection of malformed bodies, the read-only
  endpoints, and the shutdown of the process. The purge thread is the fairness of
  `PurgeExpired`; heartbeats arrive at the gateway whenever they like. As the
  sources stand, the C++ node posts them to `/internal/heartbeat` while the
  gateway serves `/heartbeat`; the models take them to arrive.
* Latencies: `update_latency` has no caller, so `pick_replica` takes the first
  available replica.
* Heartbeat metrics, event log, addresses of nodes, hits and misses, memory
  estimates: no decision reads them. The `deregister_node` of the cluster
  manager, which has no caller, is in `ClusterManager` and not in `HealthCheck`.
* Stub endpoints, API models, configuration, packaging.

## Possible extensions

A composition of `DataPlane` and `Rebalancer` would show a deleted key that comes
back from an old owner's copy after two topology changes.
