----------------------------- MODULE DataPlane ------------------------------
(***************************************************************************)
(* What clients get: GET, PUT and DELETE of a key through the gateway      *)
(* (gateway/app/api/cache.py, gateway/app/services/zone_router.py) to the  *)
(* handlers of a cache node (cache-node/src/cache_server.cpp).             *)
(*                                                                         *)
(* The cluster manager and the breaker are environment here: every call    *)
(* may find another ring, of any set of nodes, and any replica may be the  *)
(* first whose circuit lets a GET through.  A node is the lossy store that *)
(* LRUCache.tla implements: an entry may expire at any time, which leaves  *)
(* it in the map until it is read or collected, it may be evicted, and a   *)
(* restart loses everything.                                               *)
(*                                                                         *)
(* The HTTP client gives up on a call after five seconds, but the node may *)
(* still be working on it: a call that was given up stays in its slot      *)
(* until the node is done with it or it turns out never to have arrived.   *)
(***************************************************************************)
EXTENDS Naturals, FiniteSets

CONSTANTS
    Node, Key, Value,
    TTLKey,                   \* keys whose entries are written with a TTL
    Call,                     \* slots for calls from the gateway to nodes
    NoNode, NoValue,
    Expired,                  \* an entry past its TTL that is still in the map
    rank,                     \* rank[k][n]: place of n on the walk around the
                              \* full ring that starts at the hash of k
    replication_factor,
    READ_YOUR_WRITES_PIN      \* how long a write is pinned, in clock ticks

ASSUME DataPlaneAssumption ==
    /\ NoNode \notin Node /\ TTLKey \subseteq Key
    /\ NoValue \notin Value \cup Key /\ Expired \notin Value \cup {NoValue}
    /\ \A k \in Key : /\ rank[k] \in [Node -> Nat]
                      /\ \A m, n \in Node : rank[k][m] = rank[k][n] => m = n
    /\ replication_factor \in Nat \ {0}
    /\ READ_YOUR_WRITES_PIN \in Nat

VARIABLES
    stores,         \* stores[n][k]: what node n has under k, or NoValue
    call,           \* the call of every slot
    recent_writes,  \* recent_writes[k]: the pin of k; no entry is NoPin
    may,            \* history, may[n][k]: what node n may have under k, given
                    \* the writes that were sent and acknowledged, and losses
    acked           \* history: node and age of the last acknowledged PUT of k

vars == <<stores, call, recent_writes, may, acked>>

Content == Value \cup {NoValue, Expired}

(***************************************************************************)
(* phase    sent: on its way; checked: a PUT after contains(); ran: the    *)
(*          node is done, the answer is on its way                         *)
(* waiting  the gateway still waits for the answer                         *)
(* found    what contains() or the lookup said                             *)
(* answer   the value a GET brings back                                    *)
(* others   history: what other writes of the key, under way at the start  *)
(*          or sent since, and losses may have put in the place of what    *)
(*          this call writes; a GET has all it may find here               *)
(* was      history: what else the node may have had at the start          *)
(***************************************************************************)
NoCall == [op |-> "none", key |-> NoValue, value |-> NoValue, node |-> NoNode,
           phase |-> "sent", waiting |-> FALSE, found |-> FALSE,
           answer |-> NoValue, was |-> {}, others |-> {}]

NoPin == [node |-> NoNode, age |-> READ_YOUR_WRITES_PIN + 1]

Init ==
    /\ stores = [n \in Node |-> [k \in Key |-> NoValue]]
    /\ call = [c \in Call |-> NoCall]
    /\ recent_writes = [k \in Key |-> NoPin]
    /\ may = [n \in Node |-> [k \in Key |-> {NoValue}]]
    /\ acked = [k \in Key |-> NoPin]

-----------------------------------------------------------------------------
(* Routing. *)

Ahead(ring, k, n) == {m \in ring : rank[k][m] < rank[k][n]}

\* get_node_for_key; None with an empty ring
Primary(ring, k) ==
    IF ring = {} THEN NoNode ELSE CHOOSE n \in ring : Ahead(ring, k, n) = {}

\* get_replicas_for_key: the first replication_factor nodes on the walk
Replicas(ring, k) ==
    {n \in ring : Cardinality(Ahead(ring, k, n)) < replication_factor}

\* pick_replica, of the replicas that the breaker lets through: the one with
\* the lowest latency.  Nothing measures latencies, and equal ones keep their
\* order, so it is the first on the walk, whatever the zone of the client.
PickReplica(k, available) ==
    CHOOSE n \in available : \A m \in available : rank[k][n] <= rank[k][m]

-----------------------------------------------------------------------------
(* The gateway starts a call.  With no node to call it answers 503. *)

\* Call d is to entry k of node n.
Concerns(d, n, k) == call[d].node = n /\ call[d].key = k

\* What writes of k that are on their way to node n will leave there: a value,
\* or nothing in the case of a DELETE.
InFlight(n, k) ==
    {call[d].value : d \in {e \in Call : /\ Concerns(e, n, k)
                                          /\ call[e].op \in {"put", "delete"}
                                          /\ call[e].phase # "ran"}}

\* The calls once the entries S, pairs <<n, k>>, may have become x.  It is of no
\* interest to a call that is given up, or to a GET that has its answer.
Told(S, x) ==
    [d \in Call |-> IF /\ <<call[d].node, call[d].key>> \in S /\ call[d].waiting
                       /\ call[d].op = "get" => call[d].phase = "sent"
                    THEN [call[d] EXCEPT !.was = @ \ {x}, !.others = @ \cup {x}]
                    ELSE call[d]]

Start(c, op, k, v, n) ==
    /\ call[c].op = "none"
    /\ LET writes == IF op = "get" THEN {} ELSE {<<n, k>>}
           heard  == InFlight(n, k) \cup (IF op = "get" THEN may[n][k] ELSE {})
       IN  call' = [Told(writes, v) EXCEPT ![c] =
                       [NoCall EXCEPT !.op = op, !.key = k, !.value = v, !.node = n,
                                      !.waiting = TRUE, !.was = may[n][k] \ heard,
                                      !.others = heard]]
    /\ may' = IF op = "get" THEN may ELSE [may EXCEPT ![n][k] = @ \cup {v}]
    /\ UNCHANGED <<stores, recent_writes, acked>>

\* get_key
Get(c, k) ==
    \E ring \in SUBSET Node : \E available \in (SUBSET Replicas(ring, k)) \ {{}} :
        Start(c, "get", k, NoValue, PickReplica(k, available))

\* put_key and delete_key go to the primary or nowhere
WriteTargets(k) == {Primary(ring, k) : ring \in SUBSET Node} \ {NoNode}

Put(c, k, v) == \E n \in WriteTargets(k) : Start(c, "put", k, v, n)

Delete(c, k) == \E n \in WriteTargets(k) : Start(c, "delete", k, NoValue, n)

-----------------------------------------------------------------------------
(* The node handles it. *)

Stored(c) == stores[call[c].node][call[c].key]

\* The call when the node is done.  What it may have found needs no longer be
\* known, and what became of the entry since only if the call is a write.
Ran(c, found, answer) ==
    [call[c] EXCEPT !.phase = "ran", !.found = found, !.answer = answer,
                    !.was = {}, !.others = IF call[c].op = "get" THEN {} ELSE @]

\* The entries S become x, NoValue or Expired, and calls is what the calls
\* come to.  The writes on their way are what may still be found there.
Vacate(S, x, calls) ==
    /\ stores' = [n \in Node |-> [k \in Key |->
                     IF <<n, k>> \in S THEN x ELSE stores[n][k]]]
    /\ call' = calls
    /\ may' = [n \in Node |-> [k \in Key |->
                  IF <<n, k>> \in S THEN {x} \cup InFlight(n, k)' ELSE may[n][k]]]
    /\ UNCHANGED <<recent_writes, acked>>

\* Faulty variant: get() does not check the TTL.
HandleGetStale(c) ==
    /\ call[c].op = "get" /\ call[c].phase = "sent"
    /\ call' = [call EXCEPT ![c] = Ran(c, Stored(c) # NoValue, Stored(c))]
    /\ UNCHANGED <<stores, recent_writes, may, acked>>

\* An expired entry is removed when it is read, and the answer is 404.
HandleGet(c) ==
    /\ call[c].op = "get" /\ call[c].phase = "sent"
    /\ IF Stored(c) # Expired
       THEN /\ call' = [call EXCEPT ![c] = Ran(c, Stored(c) # NoValue, Stored(c))]
            /\ UNCHANGED <<stores, recent_writes, may, acked>>
       ELSE LET entry == {<<call[c].node, call[c].key>>}
            IN  Vacate(entry, NoValue,
                       [Told(entry, NoValue) EXCEPT ![c] = Ran(c, FALSE, NoValue)])

\* remove() takes out what is in the map, expired or not.
HandleDelete(c) ==
    /\ call[c].op = "delete" /\ call[c].phase = "sent"
    /\ stores' = [stores EXCEPT ![call[c].node][call[c].key] = NoValue]
    /\ call' = [call EXCEPT ![c] = Ran(c, Stored(c) # NoValue, NoValue)]
    /\ UNCHANGED <<recent_writes, may, acked>>

\* handle_put: existed = cache_.contains(key), false of an expired entry ...
HandlePutContains(c) ==
    /\ call[c].op = "put" /\ call[c].phase = "sent"
    /\ call' = [call EXCEPT ![c].phase = "checked",
                            ![c].found = Stored(c) \in Value]
    /\ UNCHANGED <<stores, recent_writes, may, acked>>

\* Faulty variant: contains() is asked again after the put.
HandlePutLooksAfter(c) ==
    /\ call[c].phase = "checked"
    /\ stores' = [stores EXCEPT ![call[c].node][call[c].key] = call[c].value]
    /\ call' = [call EXCEPT ![c] = Ran(c, TRUE, NoValue)]
    /\ UNCHANGED <<recent_writes, may, acked>>

\* ... and cache_.put(key, value, ttl), under a second lock of the mutex
HandlePut(c) ==
    /\ call[c].phase = "checked"
    /\ stores' = [stores EXCEPT ![call[c].node][call[c].key] = call[c].value]
    /\ call' = [call EXCEPT ![c] = Ran(c, call[c].found, NoValue)]
    /\ UNCHANGED <<recent_writes, may, acked>>

-----------------------------------------------------------------------------
(* The gateway hears of the outcome, or not. *)

\* Faulty variant: the primary is looked up again when the answer is there,
\* and all nodes are on the ring by then.
PinnedNodeNow(c) == Primary(Node, call[c].key)

\* pin_write(key, primary, ...) with the primary that was written
PinnedNode(c) == call[c].node

\* What is known of the entry of a write once the client has its answer.
Confirmed(c) ==
    IF call[c].op = "get" THEN may
    ELSE [may EXCEPT ![call[c].node][call[c].key] = {call[c].value} \cup call[c].others]

\* The answer arrives.  A PUT, created or updated, is pinned; a DELETE is
\* not, whether it found something or not.
Answer(c) ==
    /\ call[c].phase = "ran" /\ call[c].waiting
    /\ recent_writes' =
          IF call[c].op # "put" THEN recent_writes
          ELSE [recent_writes EXCEPT ![call[c].key] =
                   [node |-> PinnedNode(c), age |-> 0]]
    /\ acked' = IF call[c].op # "put" THEN acked
                ELSE [acked EXCEPT ![call[c].key] =
                         [node |-> call[c].node, age |-> 0]]
    /\ may' = Confirmed(c)
    /\ call' = [call EXCEPT ![c] = NoCall]
    /\ UNCHANGED stores

\* A call that nobody waits for any more.
GivenUp(c) == [call[c] EXCEPT !.waiting = FALSE, !.was = {}, !.others = {}]

\* Faulty variant: a write that timed out is reported as done.
GiveUpOptimistically(c) ==
    /\ call[c].waiting
    /\ call' = [call EXCEPT ![c] = IF call[c].phase = "ran" THEN NoCall
                                   ELSE GivenUp(c)]
    /\ may' = Confirmed(c)
    /\ UNCHANGED <<stores, recent_writes, acked>>

\* Timeout or broken connection: the client gets a 503 or a 500.  Whatever
\* the node still does, nobody will hear of it.
GiveUp(c) ==
    /\ call[c].waiting
    /\ call' = [call EXCEPT ![c] = IF call[c].phase = "ran" THEN NoCall
                                   ELSE GivenUp(c)]
    /\ UNCHANGED <<stores, recent_writes, may, acked>>

\* A call that was given up is done at the node, or never reached it (for a
\* refused connection this comes right after GiveUp).
Vanish(c) ==
    /\ call[c].op # "none" /\ ~ call[c].waiting /\ call[c].phase # "checked"
    /\ call' = [call EXCEPT ![c] = NoCall]
    /\ UNCHANGED <<stores, recent_writes, may, acked>>

-----------------------------------------------------------------------------
(* The environment. *)

\* An entry passes its TTL.
Expire(n, k) ==
    /\ k \in TTLKey /\ stores[n][k] \in Value
    /\ Vacate({<<n, k>>}, Expired, Told({<<n, k>>}, Expired))

\* An entry is evicted, or collected after it expired.
Lose(n, k) ==
    /\ stores[n][k] # NoValue
    /\ Vacate({<<n, k>>}, NoValue, Told({<<n, k>>}, NoValue))

\* Node n restarts with an empty cache; the handlers in it die.
Restart(n) ==
    LET entries == {n} \X Key
    IN  Vacate(entries, NoValue,
               [c \in Call |-> IF call[c].node = n /\ call[c].phase = "checked"
                               THEN NoCall ELSE Told(entries, NoValue)[c]])

Older(age) == IF age > READ_YOUR_WRITES_PIN THEN age ELSE age + 1

Tick ==
    /\ recent_writes' = [k \in Key |-> [recent_writes[k] EXCEPT !.age = Older(@)]]
    /\ acked' = [k \in Key |-> IF acked[k].age < READ_YOUR_WRITES_PIN
                               THEN [acked[k] EXCEPT !.age = @ + 1] ELSE NoPin]
    /\ UNCHANGED <<stores, call, may>>

Pinned(k) == recent_writes[k].age <= READ_YOUR_WRITES_PIN

\* is_pinned_to_primary forgets the pin if it names that primary and is too
\* old.  It has no caller yet.
IsPinnedToPrimary(k, primary) ==
    /\ recent_writes[k].node = primary /\ ~ Pinned(k)
    /\ recent_writes' = [recent_writes EXCEPT ![k] = NoPin]
    /\ UNCHANGED <<stores, call, may, acked>>

\* cleanup_expired_pins
CleanupExpiredPins ==
    /\ recent_writes' = [k \in Key |->
                            IF Pinned(k) THEN recent_writes[k] ELSE NoPin]
    /\ UNCHANGED <<stores, call, may, acked>>

-----------------------------------------------------------------------------
CallEnds(c) == Answer(c) \/ GiveUp(c)

Next ==
    \/ \E c \in Call, k \in Key : Get(c, k) \/ Delete(c, k)
    \/ \E c \in Call, k \in Key, v \in Value : Put(c, k, v)
    \/ \E c \in Call : HandleGet(c) \/ HandleDelete(c)
    \/ \E c \in Call : HandlePutContains(c) \/ HandlePut(c)
    \/ \E c \in Call : Answer(c) \/ GiveUp(c) \/ Vanish(c)
    \/ \E n \in Node, k \in Key : Expire(n, k) \/ Lose(n, k)
    \/ \E n \in Node : Restart(n)
    \/ Tick
    \/ \E n \in Node, k \in Key : IsPinnedToPrimary(k, n)
    \/ CleanupExpiredPins

\* The HTTP client waits for five seconds at most.
Spec == Init /\ [][Next]_vars /\ \A c \in Call : WF_vars(CallEnds(c))

-----------------------------------------------------------------------------
\* Stores, calls and pins have their types; no answer carries an entry that
\* had expired.
TypeOK ==
    /\ stores \in [Node -> [Key -> Content]]
    /\ \A c \in Call :
          /\ call[c].op \in {"none", "get", "put", "delete"}
          /\ call[c].phase \in {"sent", "checked", "ran"}
          /\ call[c].op # "none" => call[c].node \in Node /\ call[c].key \in Key
          /\ call[c].op = "put" <=> call[c].value \in Value
          /\ call[c].answer \in Value \cup {NoValue}
    /\ recent_writes \in [Key -> [node : Node \cup {NoNode},
                                  age : 0..(READ_YOUR_WRITES_PIN + 1)]]

(***************************************************************************)
(* An acknowledged write is really there.  From the moment a client is     *)
(* told that its PUT or DELETE is done, the node has exactly what was      *)
(* written, however the ring has changed meanwhile, until another write is *)
(* sent to it or it loses the entry; only another write that was under way *)
(* at some time since this one was sent may have taken its place.  That    *)
(* can be a write whose client was told long ago that it had failed: it    *)
(* lands after all, on top of one that was sent later and acknowledged.    *)
(* But nothing else does, and a write that was done before an acknowledged *)
(* one was sent never comes back.                                          *)
(***************************************************************************)
AckedWritesStay == \A n \in Node, k \in Key : stores[n][k] \in may[n][k]

\* What the client of c may find: what was there when c was sent, what other
\* writes under way may have written since, or what losses have left.
Expected(c) == call[c].was \cup call[c].others

\* What a GET, PUT or DELETE tells its client is true of one of the contents E.
TrueOf(E, op, found, answer) ==
    CASE op = "get" -> IF found THEN answer \in E \cap Value ELSE E \ Value # {}
      [] op = "put" -> IF found THEN E \cap Value # {} ELSE E \ Value # {}
      [] op = "delete" -> IF found THEN E \ {NoValue} # {} ELSE NoValue \in E

(***************************************************************************)
(* Clients are told the truth.  A GET brings what the last acknowledged    *)
(* write left, or another write that was under way since, and 404 only if  *)
(* the key was deleted, lost, expired or never written; a PUT says updated *)
(* or created according to whether there was a live entry.  A DELETE says  *)
(* not found only if there was no entry, and deleted also of an entry that *)
(* had expired: remove() does not look at the TTL, as get() and contains() *)
(* do.                                                                     *)
(***************************************************************************)
AnswersAreTrue ==
    [][\A c \in Call :
          call[c].waiting /\ call[c].phase # "ran" /\ call'[c].phase = "ran" =>
              TrueOf(Expected(c), call[c].op, call'[c].found, call'[c].answer)]_vars

(***************************************************************************)
(* For as long as an acknowledged PUT is pinned the pin names the node     *)
(* that has it, although the ring may have moved the key to another        *)
(* primary before the answer came, a PUT that was sent before may be       *)
(* answered after it, and cleanup_expired_pins may run at any time.        *)
(***************************************************************************)
PinFollowsWrite ==
    \A k \in Key : acked[k].age <= READ_YOUR_WRITES_PIN =>
                        recent_writes[k] = acked[k]

(***************************************************************************)
(* What pin_write promises: for 500 ms after a write, all reads of the key *)
(* go to the node that handled the write.                                  *)
(***************************************************************************)
ReadYourWrites ==
    [][\A c \in Call :
          call[c].op = "none" /\ call'[c].op = "get" /\ Pinned(call'[c].key)
              => call'[c].node = recent_writes[call'[c].key].node]_vars
=============================================================================
