----------------------------- MODULE Rebalancer -----------------------------
(***************************************************************************)
(* The key rebalancer (gateway/app/services/rebalancer.py): list the keys  *)
(* of all nodes, find those whose owner differs between two rings, and for *)
(* every pair of an old and a new owner copy the keys with a snapshot of   *)
(* the one and a bulk load of the other.  The requests are awaited, so     *)
(* client traffic, expiry, topology changes and crashes of nodes happen    *)
(* between any two of them.                                                *)
(*                                                                         *)
(* The gateway constructs a rebalancer and nothing calls it yet.  Callers  *)
(* are therefore arbitrary: any number at a time, with any two rings of    *)
(* which one is in force, and any set of node endpoints.                   *)
(*                                                                         *)
(* A node's store is what LossyStore.tla says of it: a value stays until   *)
(* it is overwritten, deleted, expired, or evicted by the put of another   *)
(* key.  A ring is the function from keys to owners that get_node computes.*)
(* Values are version numbers, so that it can be told which is newer.      *)
(***************************************************************************)
EXTENDS Integers, FiniteSets, FiniteSetsExt

CONSTANTS
    Node, Key, Caller,
    NoNode,         \* None: get_node on an empty ring
    Local8001,      \* the node at the address assumed for an old owner that
    Local8002,      \* has no endpoint, and for a new one; NoNode: nobody
    Rings,          \* the topologies that may be in force
    MaxWrites,      \* bounds of the model: client writes,
    MaxRuns         \* and rebalances

Owner == Node \cup {NoNode}
Nothing == 0
Version == 1..MaxWrites

ASSUME RebalancerAssumption ==
    /\ NoNode \notin Node
    /\ Local8001 \in Owner
    /\ Local8002 \in Owner
    /\ Rings \subseteq [Key -> Owner]
    /\ Rings # {}
    /\ MaxWrites \in Nat
    /\ MaxRuns \in Nat

VARIABLES
    stores,         \* stores[n][k]: what node n holds
    ring,           \* the ring by which clients are routed
    calls,          \* <<key, node>> of the writes sent to a node by call_node
    clock,          \* number of client writes that reached their node
    pc,             \* where each caller of rebalance() is, or that it was refused
    in_progress, migrated_keys, affected_nodes,
    args,           \* old_ring, new_ring and node_endpoints of the rebalance
    unlisted,       \* nodes whose answer to GET /keys is awaited
    all_keys,       \* keys found so far, until the migrations are planned
    tasks,          \* the calls of _migrate_keys
    loads,          \* bulk loads posted to nodes and not finished there
    runs,           \* number of rebalances started
    held,           \* history: what the old owners held when this one started,
    disturbed,      \*   keys that something else happened to since then,
    landed,         \*   <<node, key>> that its bulk loads put,
    moved           \*   keys whose owner any rebalance so far found changed

traffic == <<stores, ring, calls, clock>>
report == <<in_progress, migrated_keys, affected_nodes>>
history == <<held, disturbed, landed, moved>>
vars == <<traffic, pc, report, args, unlisted, all_keys, tasks, loads, runs, history>>

Keys(s) == {k \in Key : s[k] # Nothing}

\* What a store may be after a put: a new key may evict another one.
AfterPut(s, k, v) ==
    {[s EXCEPT ![k] = v]} \cup
    {[[s EXCEPT ![j] = Nothing] EXCEPT ![k] = v] :
        j \in IF s[k] = Nothing THEN Keys(s) ELSE {}}

Lost(s, t) == {k \in Key : s[k] # Nothing /\ t[k] = Nothing}

OwnerChanged(k) == args.old[k] # args.new[k]

Endpoint(n, default) == IF n \in args.endpoints THEN n ELSE default

TypeOK ==
    /\ stores \in [Node -> [Key -> Version \cup {Nothing}]]
    /\ ring \in Rings
    /\ calls \subseteq Key \X Node
    /\ clock \in 0..MaxWrites
    /\ pc \in [Caller -> {"idle", "listing", "migrating", "already_in_progress"}]
    /\ in_progress \in BOOLEAN
    /\ migrated_keys \in Nat
    /\ affected_nodes \subseteq Owner
    /\ args \in [old : Rings, new : Rings, endpoints : SUBSET Node]
    /\ unlisted \subseteq Node
    /\ all_keys \subseteq Key
    /\ tasks \subseteq [old : Owner, new : Owner, keys : SUBSET Key,
                        step : {"snapshot", "load", "done"},
                        entries : SUBSET (Key \X Version), result : Nat]
    /\ loads \subseteq [run : 1..MaxRuns, old : Owner, new : Owner,
                        node : Node, left : SUBSET (Key \X Version)]
    /\ runs \in 0..MaxRuns
    /\ held \in [Key -> Version \cup {Nothing}]
    /\ disturbed \subseteq Key
    /\ landed \subseteq Node \X Key
    /\ moved \subseteq Key

Init ==
    /\ stores = [n \in Node |-> [k \in Key |-> Nothing]]
    /\ ring \in Rings
    /\ calls = {}
    /\ clock = 0
    /\ pc = [c \in Caller |-> "idle"]
    /\ in_progress = FALSE
    /\ migrated_keys = 0
    /\ affected_nodes = {}
    /\ args = [old |-> ring, new |-> ring, endpoints |-> {}]
    /\ unlisted = {}
    /\ all_keys = {}
    /\ tasks = {}
    /\ loads = {}
    /\ runs = 0
    /\ held = [k \in Key |-> Nothing]
    /\ disturbed = {}
    /\ landed = {}
    /\ moved = {}

-----------------------------------------------------------------------------
(* Clients, nodes and topology, as far as they touch the stores. *)

\* A write is routed by the ring in force and reaches the node later, perhaps
\* when another ring is.  The value gets its version there.
RoutePut(k) ==
    /\ ring[k] # NoNode
    /\ clock + Cardinality(calls) < MaxWrites
    /\ <<k, ring[k]>> \notin calls
    /\ calls' = calls \cup {<<k, ring[k]>>}
    /\ UNCHANGED <<stores, ring, clock, pc, report, args, unlisted, all_keys, tasks,
                   loads, runs, history>>

Put(k, n) ==
    /\ <<k, n>> \in calls
    /\ calls' = calls \ {<<k, n>>}
    /\ clock' = clock + 1
    /\ \E s \in AfterPut(stores[n], k, clock + 1) :
          /\ stores' = [stores EXCEPT ![n] = s]
          /\ disturbed' = disturbed \cup {k} \cup Lost(stores[n], s)
    /\ UNCHANGED <<ring, pc, report, args, unlisted, all_keys, tasks, loads, runs,
                   held, landed, moved>>

\* A key leaves a store: it expired, or a client's DELETE, routed by this ring
\* or an earlier one, reached the node.
Forget(n, k) ==
    /\ stores[n][k] # Nothing
    /\ stores' = [stores EXCEPT ![n][k] = Nothing]
    /\ disturbed' = disturbed \cup {k}
    /\ UNCHANGED <<ring, calls, clock, pc, report, args, unlisted, all_keys, tasks, loads,
                   runs, held, landed, moved>>

\* A node restarts empty; a bulk load that it was working on is gone.
Crash(n) ==
    /\ Keys(stores[n]) # {} \/ \E l \in loads : l.node = n
    /\ stores' = [stores EXCEPT ![n] = [k \in Key |-> Nothing]]
    /\ loads' = {l \in loads : l.node # n}
    /\ disturbed' = disturbed \cup Keys(stores[n])
    /\ UNCHANGED <<ring, calls, clock, pc, report, args, unlisted, all_keys, tasks, runs,
                   held, landed, moved>>

ChangeTopology(r) ==
    /\ r # ring
    /\ ring' = r
    /\ UNCHANGED <<stores, calls, clock, pc, report, args, unlisted, all_keys, tasks,
                   loads, runs, history>>

-----------------------------------------------------------------------------
(* rebalance() *)

Active(c) == pc[c] \in {"listing", "migrating"}

\* Faulty variant: the test for a rebalance in progress stands inside the try
\* block, whose finally clause resets the flag.
AlreadyInProgressResets(c) ==
    /\ ~ Active(c)
    /\ pc[c] # "already_in_progress"
    /\ in_progress
    /\ pc' = [pc EXCEPT ![c] = "already_in_progress"]
    /\ in_progress' = FALSE
    /\ UNCHANGED <<traffic, migrated_keys, affected_nodes, args, unlisted,
                   all_keys, tasks, loads, runs, history>>

AlreadyInProgress(c) ==
    /\ ~ Active(c)
    /\ pc[c] # "already_in_progress"
    /\ in_progress
    /\ pc' = [pc EXCEPT ![c] = "already_in_progress"]
    /\ UNCHANGED <<traffic, report, args, unlisted, all_keys, tasks, loads, runs,
                   history>>

Rebalance(c, old, new, endpoints) ==
    /\ ~ Active(c)
    /\ ~ in_progress
    /\ runs < MaxRuns
    /\ ring \in {old, new}
    /\ in_progress' = TRUE
    /\ migrated_keys' = 0
    /\ affected_nodes' = {}
    /\ pc' = [pc EXCEPT ![c] = "listing"]
    /\ args' = [old |-> old, new |-> new, endpoints |-> endpoints]
    /\ unlisted' = endpoints
    /\ all_keys' = {}
    /\ runs' = runs + 1
    /\ held' = [k \in Key |-> IF {old[k], new[k]} \subseteq endpoints
                              THEN stores[old[k]][k] ELSE Nothing]
    /\ disturbed' = {}
    /\ landed' = {}
    /\ moved' = moved \cup {k \in Key : old[k] # new[k]}
    /\ UNCHANGED <<traffic, tasks, loads>>

FetchKeys(c, n) ==
    /\ pc[c] = "listing"
    /\ n \in unlisted
    /\ unlisted' = unlisted \ {n}
    /\ all_keys' = all_keys \cup Keys(stores[n])
    /\ UNCHANGED <<traffic, pc, report, args, tasks, loads, runs, history>>

\* An error status or an exception: the node counts as empty.
FetchFails(c, n) ==
    /\ pc[c] = "listing"
    /\ n \in unlisted
    /\ unlisted' = unlisted \ {n}
    /\ disturbed' = disturbed \cup {k \in Key : args.old[k] = n}
    /\ UNCHANGED <<traffic, pc, report, args, all_keys, tasks, loads, runs, held,
                   landed, moved>>

Task(old, new, keys) ==
    [old |-> old, new |-> new, keys |-> keys, step |-> "snapshot",
     entries |-> {}, result |-> 0]

\* One task for each pair of owners that exchange some of the keys ks.
TasksFor(ks, old_ring, new_ring) ==
    {Task(p[1], p[2], {k \in ks : <<old_ring[k], new_ring[k]>> = p}) :
        p \in {<<old_ring[k], new_ring[k]>> : k \in ks}}

\* Faulty variant: keys are copied from where they shall be.
PlanMigrationsBackwards(c) ==
    /\ pc[c] = "listing"
    /\ unlisted = {}
    /\ LET changed == {k \in all_keys : OwnerChanged(k)}
       IN  /\ tasks' = TasksFor(changed, args.new, args.old)
           /\ affected_nodes' = UNION {{args.old[k], args.new[k]} : k \in changed}
    /\ all_keys' = {}
    /\ pc' = [pc EXCEPT ![c] = "migrating"]
    /\ UNCHANGED <<traffic, in_progress, migrated_keys, args, unlisted, loads, runs,
                   history>>

PlanMigrations(c) ==
    /\ pc[c] = "listing"
    /\ unlisted = {}
    /\ LET changed == {k \in all_keys : OwnerChanged(k)}
       IN  /\ tasks' = TasksFor(changed, args.old, args.new)
           /\ affected_nodes' = UNION {{args.old[k], args.new[k]} : k \in changed}
    /\ all_keys' = {}
    /\ pc' = [pc EXCEPT ![c] = "migrating"]
    /\ UNCHANGED <<traffic, in_progress, migrated_keys, args, unlisted, loads, runs,
                   history>>

-----------------------------------------------------------------------------
(* _migrate_keys() *)

Replace(t, u) == tasks' = (tasks \ {t}) \cup {u}

LoadOf(t) == {l \in loads : l.run = runs /\ l.old = t.old /\ l.new = t.new}

\* Faulty variant: a key that the snapshot lacks is loaded without a value.
FilteredByKeys(keys, s) == {<<k, s[k]>> : k \in keys}

\* Faulty variant: everything in the snapshot is loaded.
Unfiltered(keys, s) == {<<k, s[k]>> : k \in Keys(s)}

\* The entries of a snapshot that are to be moved.
Filtered(keys, s) == {<<k, s[k]>> : k \in Keys(s) \cap keys}

\* The snapshot is taken and, if it has any of the keys, the bulk load posted;
\* nobody listens at a default address that is NoNode.
Snapshot(c, t) ==
    LET from == Endpoint(t.old, Local8001)
        to == Endpoint(t.new, Local8002)
        filtered == Filtered(t.keys, stores[from])
    IN  /\ pc[c] = "migrating"
        /\ t.step = "snapshot"
        /\ from # NoNode
        /\ Replace(t, [t EXCEPT !.entries = filtered,
                                !.step = IF filtered = {} THEN "done" ELSE "load"])
        /\ loads' = IF filtered = {} \/ to = NoNode THEN loads
                    ELSE loads \cup {[run |-> runs, old |-> t.old, new |-> t.new,
                                      node |-> to, left |-> filtered]}
        /\ UNCHANGED <<traffic, pc, report, args, unlisted, all_keys, runs, history>>

SnapshotFails(c, t) ==
    /\ pc[c] = "migrating"
    /\ t.step = "snapshot"
    /\ Replace(t, [t EXCEPT !.step = "done"])
    /\ disturbed' = disturbed \cup t.keys
    /\ UNCHANGED <<traffic, pc, report, args, unlisted, all_keys, loads, runs, held,
                   landed, moved>>

Awaited(l) ==
    /\ l.run = runs
    /\ \E t \in tasks : t.step = "load" /\ t.old = l.old /\ t.new = l.new

\* The node puts one entry.  It goes on when the gateway has given up.
LoadEntry(l, e) ==
    LET rest == [l EXCEPT !.left = @ \ {e}]
    IN  /\ \E s \in AfterPut(stores[l.node], e[1], e[2]) :
              /\ stores' = [stores EXCEPT ![l.node] = s]
              /\ disturbed' = disturbed \cup Lost(stores[l.node], s) \cup
                                 (IF l.run = runs THEN {} ELSE {e[1]})
        /\ landed' = IF l.run = runs THEN landed \cup {<<l.node, e[1]>>} ELSE landed
        /\ loads' = (loads \ {l}) \cup
                       (IF rest.left = {} /\ ~ Awaited(l) THEN {} ELSE {rest})
        /\ UNCHANGED <<ring, calls, clock, pc, report, args, unlisted, all_keys, tasks, runs,
                       held, moved>>

LoadAcked(c, t) ==
    /\ pc[c] = "migrating"
    /\ t.step = "load"
    /\ \E l \in LoadOf(t) : l.left = {}
    /\ Replace(t, [t EXCEPT !.step = "done", !.result = Cardinality(t.entries)])
    /\ loads' = loads \ LoadOf(t)
    /\ UNCHANGED <<traffic, pc, report, args, unlisted, all_keys, runs, history>>

\* Faulty variant: the keys of a failed load are counted.
LoadFailsCounted(c, t) ==
    /\ pc[c] = "migrating"
    /\ t.step = "load"
    /\ Replace(t, [t EXCEPT !.step = "done", !.result = Cardinality(t.entries)])
    /\ \/ loads' = loads \ LoadOf(t)
       \/ loads' = loads \ {l \in LoadOf(t) : l.left = {}}
    /\ disturbed' = disturbed \cup t.keys
    /\ UNCHANGED <<traffic, pc, report, args, unlisted, all_keys, runs, held, landed,
                   moved>>

\* An error or the timeout of 30 s: the request was lost, or only its answer
\* was and the node goes on.
LoadFails(c, t) ==
    /\ pc[c] = "migrating"
    /\ t.step = "load"
    /\ Replace(t, [t EXCEPT !.step = "done"])
    /\ \/ loads' = loads \ LoadOf(t)
       \/ loads' = loads \ {l \in LoadOf(t) : l.left = {}}
    /\ disturbed' = disturbed \cup t.keys
    /\ UNCHANGED <<traffic, pc, report, args, unlisted, all_keys, runs, held, landed,
                   moved>>

\* Faulty variant: the flag is not reset.
CompleteWithoutFinally(c) ==
    /\ pc[c] = "migrating"
    /\ \A t \in tasks : t.step = "done"
    /\ migrated_keys' = migrated_keys + MapThenSumSet(LAMBDA t : t.result, tasks)
    /\ tasks' = {}
    /\ pc' = [pc EXCEPT ![c] = "idle"]
    /\ UNCHANGED <<traffic, in_progress, affected_nodes, args, unlisted, all_keys,
                   loads, runs, history>>

\* gather() returns: the results are added up and the flag is reset.
Complete(c) ==
    /\ pc[c] = "migrating"
    /\ \A t \in tasks : t.step = "done"
    /\ migrated_keys' = migrated_keys + MapThenSumSet(LAMBDA t : t.result, tasks)
    /\ tasks' = {}
    /\ in_progress' = FALSE
    /\ pc' = [pc EXCEPT ![c] = "idle"]
    /\ UNCHANGED <<traffic, affected_nodes, args, unlisted, all_keys, loads, runs,
                   history>>

-----------------------------------------------------------------------------
Progress(c) ==
    \/ \E n \in Node : FetchKeys(c, n) \/ FetchFails(c, n)
    \/ PlanMigrations(c)
    \/ \E t \in tasks : \/ Snapshot(c, t) \/ SnapshotFails(c, t)
                        \/ LoadAcked(c, t) \/ LoadFails(c, t)
    \/ Complete(c)

Next ==
    \/ \E k \in Key : RoutePut(k)
    \/ \E k \in Key, n \in Node : Put(k, n)
    \/ \E n \in Node, k \in Key : Forget(n, k)
    \/ \E n \in Node : Crash(n)
    \/ \E r \in Rings : ChangeTopology(r)
    \/ \E c \in Caller : AlreadyInProgress(c)
    \/ \E c \in Caller, old, new \in Rings, E \in SUBSET Node : Rebalance(c, old, new, E)
    \/ \E c \in Caller : Progress(c)
    \/ \E l \in loads : \E e \in l.left : LoadEntry(l, e)

Spec == Init /\ [][Next]_vars

\* Every request of the rebalancer ends, at the latest with its timeout.
FairSpec == Spec /\ \A c \in Caller : WF_vars(Progress(c))

-----------------------------------------------------------------------------
(***************************************************************************)
(* However many callers there are, one rebalance runs at a time, and the   *)
(* flag that says so is true exactly as long: a caller that is turned away *)
(* does not reset it.                                                      *)
(***************************************************************************)
OneAtATime ==
    /\ in_progress <=> \E c \in Caller : Active(c)
    /\ \A c, d \in Caller : Active(c) /\ Active(d) => c = d

(***************************************************************************)
(* The report is honest: a key is counted as migrated only when a node     *)
(* acknowledged that it was put, and the nodes that were changed are named *)
(* (save the one at the default address for an unknown owner).             *)
(***************************************************************************)
ReportIsHonest ==
    /\ migrated_keys <= Cardinality(landed)
    /\ \A p \in landed : p[1] \in affected_nodes \cup {Local8002}

(***************************************************************************)
(* When a rebalance is over, every key that its old owner held when it     *)
(* began is at its new owner with the same value, however requests of the  *)
(* tasks interleaved, unless something else happened to that very key: a   *)
(* client wrote or deleted it, it expired or was evicted, a node holding   *)
(* it crashed, or a request that concerned it failed.                      *)
(***************************************************************************)
UndisturbedKeysArrive ==
    ~ in_progress =>
        \A k \in Key \ disturbed :
            held[k] # Nothing => stores[args.new[k]][k] = held[k]

(***************************************************************************)
(* "Only affected keys migrate, others stay in place": a key whose owner   *)
(* no rebalance found changed gets values from clients only, on any node,  *)
(* although nodes keep outdated copies and snapshots contain everything.   *)
(***************************************************************************)
OthersStayInPlace ==
    [][\A n \in Node, k \in Key \ moved :
          stores'[n][k] \notin {stores[n][k], Nothing} => clock' # clock]_vars

(***************************************************************************)
(* A rebalance ends, whichever of its requests fail, and another one may   *)
(* be started.                                                             *)
(***************************************************************************)
RebalanceEnds == in_progress ~> ~ in_progress

(***************************************************************************)
(* What the rebalancer's documentation says, "no data is lost": a value in *)
(* the store of a node is never replaced by an older one.                  *)
(***************************************************************************)
NoDataLost ==
    [][\A n \in Node, k \in Key :
          stores'[n][k] # Nothing => stores'[n][k] >= stores[n][k]]_vars
=============================================================================
