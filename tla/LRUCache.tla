------------------------------ MODULE LRUCache ------------------------------
(***************************************************************************)
(* The in-memory cache of a node (cache-node/src/lru_cache.cpp and .hpp):  *)
(* a doubly linked list in order of use, an index into it, and an expiry   *)
(* time per entry.  Every public method holds the mutex from beginning to  *)
(* end, so one call is one step; bulk_load alone takes the mutex once per  *)
(* entry, and other threads run in between.                                *)
(*                                                                         *)
(* The list is a sequence, the front (most recently used) first.  An       *)
(* expiry time is kept as the ticks left to it.  A tick is a fraction of a *)
(* second, because the snapshot rounds to seconds and the cache does not.  *)
(***************************************************************************)
EXTENDS Integers, Sequences, FiniteSets, Functions

CONSTANTS
    Key, Value,
    Nothing,            \* std::nullopt
    capacity,
    default_ttl_s,      \* 0: entries without a TTL of their own never expire
    TTL,                \* TTLs in seconds that callers pass; 0: none given
    TicksPerSecond,
    Batches,            \* batches of [key, value, ttl] given to bulk_load
    MaxPuts             \* bound of the model on the calls of put

ASSUME CacheAssumption ==
    /\ capacity \in Nat \ {0}
    /\ default_ttl_s \in Nat
    /\ TTL \subseteq Nat
    /\ TicksPerSecond \in Nat \ {0}
    /\ MaxPuts \in Nat
    /\ Batches \subseteq Seq([key : Key, value : Value, ttl : Nat])
    /\ Nothing \notin Value /\ Nothing \notin [value : Value, life : Int]

VARIABLES
    list,       \* the entries between head_ and tail_
    map_,       \* the keys of the hash map
    metrics,    \* evictions, expirations, total_puts, total_dels
    pending,    \* what a running bulk_load has not yet put
    answer,     \* what the last get returned, and for which key
    newer       \* history: <<j, k>> when j was used after k

vars == <<list, map_, metrics, pending, answer, newer>>

-----------------------------------------------------------------------------
(* Entries and their expiry. *)

NoExpiry == -1

EffectiveTTL(ttl_seconds) ==
    IF ttl_seconds > 0 THEN ttl_seconds ELSE default_ttl_s

\* Faulty variant: seconds are converted to clock ticks twice.
ExpiryConvertedTwice(ttl_seconds) ==
    LET ttl == EffectiveTTL(ttl_seconds) * TicksPerSecond
    IN  IF ttl > 0 THEN ttl * TicksPerSecond ELSE NoExpiry

Expiry(ttl_seconds) ==
    LET ttl == EffectiveTTL(ttl_seconds)
    IN  IF ttl > 0 THEN ttl * TicksPerSecond ELSE NoExpiry

IsExpired(e) == e.left = 0

Keys(l) == {l[i].key : i \in DOMAIN l}

EntryOf(k) == CHOOSE e \in Range(list) : e.key = k

\* What a walk along the list leaves of it that detaches the entries D.
Without(l, D) ==
    LET Kept[i \in 0..Len(l)] ==
            IF i = 0 THEN <<>>
            ELSE IF l[i] \in D THEN Kept[i - 1] ELSE Append(Kept[i - 1], l[i])
    IN  Kept[Len(l)]

\* The list without the node of k, and with e attached at the front.
Detached(l, k) == Without(l, {e \in Range(l) : e.key = k})

AttachFront(e, l) == <<e>> \o l

UpToLast(l) == SubSeq(l, 1, Len(l) - 1)

Contains(k) == k \in map_ /\ ~ IsExpired(EntryOf(k))

\* Every TTL that a caller of put or bulk_load passes.
GivenTTLs == TTL \cup UNION {{b[i].ttl : i \in DOMAIN b} : b \in Batches}

\* Entries, index and counters have their types, and no entry has longer to
\* live than the TTL some caller gave.
TypeOK ==
    /\ \A i \in DOMAIN list :
          /\ list[i].key \in Key
          /\ list[i].value \in Value
          /\ \/ list[i].left = NoExpiry
             \/ \E t \in GivenTTLs :
                   list[i].left \in 0..(EffectiveTTL(t) * TicksPerSecond)
    /\ map_ \subseteq Key
    /\ \A c \in DOMAIN metrics : metrics[c] \in Nat
    /\ newer \subseteq Key \X Key

Init ==
    /\ list = <<>>
    /\ map_ = {}
    /\ metrics = [evictions |-> 0, expirations |-> 0,
                  total_puts |-> 0, total_dels |-> 0]
    /\ pending = <<>>
    /\ answer = Nothing
    /\ newer = {}

\* k is used now.
Touch(k) ==
    newer' = {p \in newer : p[2] # k} \cup ({k} \X (Key \ {k}))

-----------------------------------------------------------------------------
(* get *)

GetMisses(k) ==
    /\ k \notin map_
    /\ answer' = [key |-> k, value |-> Nothing]
    /\ UNCHANGED <<list, map_, metrics, pending, newer>>

\* Faulty variant: the expiration is counted, the node is left to the purge.
GetExpiresLeavesEntry(k) ==
    /\ k \in map_
    /\ IsExpired(EntryOf(k))
    /\ metrics' = [metrics EXCEPT !.expirations = @ + 1]
    /\ answer' = [key |-> k, value |-> Nothing]
    /\ UNCHANGED <<list, map_, pending, newer>>

GetExpires(k) ==
    /\ k \in map_
    /\ IsExpired(EntryOf(k))
    /\ list' = Detached(list, k)
    /\ map_' = map_ \ {k}
    /\ metrics' = [metrics EXCEPT !.expirations = @ + 1]
    /\ answer' = [key |-> k, value |-> Nothing]
    /\ UNCHANGED <<pending, newer>>

\* Faulty variant: the entry is returned but stays where it is.
GetHitsInPlace(k) ==
    /\ Contains(k)
    /\ answer' = [key |-> k, value |-> EntryOf(k).value]
    /\ Touch(k)
    /\ UNCHANGED <<list, map_, metrics, pending>>

\* Faulty variant: expiry is left to the purge, get does not look at it.
GetHitsExpired(k) ==
    /\ k \in map_
    /\ list' = AttachFront(EntryOf(k), Detached(list, k))
    /\ answer' = [key |-> k, value |-> EntryOf(k).value]
    /\ Touch(k)
    /\ UNCHANGED <<map_, metrics, pending>>

GetHits(k) ==
    /\ Contains(k)
    /\ list' = AttachFront(EntryOf(k), Detached(list, k))
    /\ answer' = [key |-> k, value |-> EntryOf(k).value]
    /\ Touch(k)
    /\ UNCHANGED <<map_, metrics, pending>>

Get(k) == GetMisses(k) \/ GetExpires(k) \/ GetHits(k)

-----------------------------------------------------------------------------
(* put *)

NewEntry(k, v, ttl_seconds) ==
    [key |-> k, value |-> v, left |-> Expiry(ttl_seconds)]

\* put of a key that is in the map, expired or not
Update(k, v, ttl_seconds) ==
    /\ k \in map_
    /\ list' = AttachFront(NewEntry(k, v, ttl_seconds), Detached(list, k))
    /\ metrics' = [metrics EXCEPT !.total_puts = @ + 1]
    /\ UNCHANGED map_

\* put of a new key into a cache that is not full
Insert(k, v, ttl_seconds) ==
    /\ k \notin map_
    /\ Cardinality(map_) < capacity
    /\ list' = AttachFront(NewEntry(k, v, ttl_seconds), list)
    /\ map_' = map_ \cup {k}
    /\ metrics' = [metrics EXCEPT !.total_puts = @ + 1]

\* Faulty variant: evict_lru frees the node and forgets the map.
EvictKeepsMapEntry(k, v, ttl_seconds) ==
    /\ k \notin map_
    /\ Cardinality(map_) >= capacity
    /\ list' = AttachFront(NewEntry(k, v, ttl_seconds), UpToLast(list))
    /\ map_' = map_ \cup {k}
    /\ metrics' = [metrics EXCEPT !.total_puts = @ + 1, !.evictions = @ + 1]

\* put of a new key into a full cache: evict_lru first
EvictAndInsert(k, v, ttl_seconds) ==
    /\ k \notin map_
    /\ Cardinality(map_) >= capacity
    /\ list' = AttachFront(NewEntry(k, v, ttl_seconds), UpToLast(list))
    /\ map_' = (map_ \ {list[Len(list)].key}) \cup {k}
    /\ metrics' = [metrics EXCEPT !.total_puts = @ + 1, !.evictions = @ + 1]

PutEntry(k, v, ttl_seconds) ==
    /\ metrics.total_puts < MaxPuts
    /\ \/ Update(k, v, ttl_seconds)
       \/ Insert(k, v, ttl_seconds)
       \/ EvictAndInsert(k, v, ttl_seconds)
    /\ Touch(k)
    /\ UNCHANGED answer

Put(k, v, ttl_seconds) == PutEntry(k, v, ttl_seconds) /\ UNCHANGED pending

-----------------------------------------------------------------------------
(* bulk_load: one put per entry, the mutex released after each. *)

BulkLoad(batch) ==
    /\ pending = <<>>
    /\ pending' = batch
    /\ UNCHANGED <<list, map_, metrics, answer, newer>>

BulkLoadNext ==
    /\ pending # <<>>
    /\ LET e == Head(pending) IN PutEntry(e.key, e.value, e.ttl)
    /\ pending' = Tail(pending)

-----------------------------------------------------------------------------
(* remove, purge_expired, clear *)

Remove(k) ==
    /\ k \in map_
    /\ list' = Detached(list, k)
    /\ map_' = map_ \ {k}
    /\ metrics' = [metrics EXCEPT !.total_dels = @ + 1]
    /\ UNCHANGED <<pending, answer, newer>>

ExpiredEntries == {e \in Range(list) : IsExpired(e)}

\* Faulty variant: the sweep starts behind the front entry.
PurgeExpiredSkipsFront ==
    LET swept == {e \in ExpiredEntries : e # Head(list)}
    IN  /\ list # <<>>
        /\ list' = Without(list, swept)
        /\ map_' = map_ \ {e.key : e \in swept}
        /\ metrics' = [metrics EXCEPT !.expirations = @ + Cardinality(swept)]
        /\ UNCHANGED <<pending, answer, newer>>

PurgeExpired ==
    /\ list' = Without(list, ExpiredEntries)
    /\ map_' = map_ \ {e.key : e \in ExpiredEntries}
    /\ metrics' = [metrics EXCEPT !.expirations = @ + Cardinality(ExpiredEntries)]
    /\ UNCHANGED <<pending, answer, newer>>

Clear ==
    /\ list' = <<>>
    /\ map_' = {}
    /\ UNCHANGED <<metrics, pending, answer, newer>>

-----------------------------------------------------------------------------
\* The clock advances by one tick.
Tick ==
    /\ list' = [i \in DOMAIN list |->
                   IF list[i].left > 0 THEN [list[i] EXCEPT !.left = @ - 1]
                                       ELSE list[i]]
    /\ UNCHANGED <<map_, metrics, pending, answer, newer>>

Next ==
    \/ \E k \in Key : Get(k)
    \/ \E k \in Key, v \in Value, ttl_seconds \in TTL : Put(k, v, ttl_seconds)
    \/ \E batch \in Batches : BulkLoad(batch)
    \/ BulkLoadNext
    \/ \E k \in Key : Remove(k)
    \/ PurgeExpired
    \/ Clear
    \/ Tick

Spec == Init /\ [][Next]_vars

\* The purge loop of the server calls purge_expired again and again.
FairSpec == Spec /\ WF_vars(PurgeExpired)

-----------------------------------------------------------------------------
(* snapshot, the entries that have not expired with their TTL in seconds *)

Remaining(e) == IF e.left = NoExpiry THEN 0 ELSE e.left \div TicksPerSecond

Snapshot ==
    LET live == Without(list, ExpiredEntries)
    IN  [i \in DOMAIN live |-> [key |-> live[i].key, value |-> live[i].value,
                                ttl |-> Remaining(live[i])]]

-----------------------------------------------------------------------------
(***************************************************************************)
(* The two halves of the data structure agree and stay within capacity:    *)
(* the map has exactly the keys of the list, no key is in the list twice,  *)
(* and there are never more than capacity entries, whichever of lazy       *)
(* expiry, purge, eviction, deletion and bulk load removed or added them.  *)
(***************************************************************************)
MapMatchesList ==
    /\ map_ = Keys(list)
    /\ Len(list) = Cardinality(map_)
    /\ Len(list) <= capacity

(***************************************************************************)
(* The list is in the order of use, so that the entry evict_lru takes from *)
(* its end is the one whose last get or put is the longest ago.            *)
(***************************************************************************)
ListInOrderOfUse ==
    \A i, j \in DOMAIN list : i < j => <<list[i].key, list[j].key>> \in newer

(***************************************************************************)
(* The counters account for every entry: one that was put is in the cache  *)
(* or was counted as evicted, expired or deleted at most once.             *)
(***************************************************************************)
Accounting ==
    Len(list) + metrics.evictions + metrics.expirations + metrics.total_dels
        <= metrics.total_puts

(***************************************************************************)
(* An entry whose TTL is over does not occupy memory for ever, even when   *)
(* nobody asks for its key again.                                          *)
(***************************************************************************)
ExpiredEntriesAreCollected ==
    \A k \in Key : (\E e \in ExpiredEntries : e.key = k)
                       ~> ~ (\E e \in ExpiredEntries : e.key = k)

\* What a client sees: entries that expired are no entries.
Visible ==
    [k \in Key |-> IF Contains(k)
                   THEN [value |-> EntryOf(k).value, life |-> EntryOf(k).left]
                   ELSE Nothing]

Store == INSTANCE LossyStore WITH
            store <- Visible,
            Forever <- NoExpiry,
            Life <- {Expiry(t) : t \in GivenTTLs}

(***************************************************************************)
(* The cache implements the store its clients see: an expired entry that   *)
(* still occupies a node is no entry to a client, so lazy expiry and purge *)
(* are invisible, and eviction is the one loss a put may cause.            *)
(***************************************************************************)
ImplementsStore == Store!Spec

(***************************************************************************)
(* What the comment on snapshot says: a remaining TTL of 0 means that the  *)
(* entry has no TTL.                                                       *)
(***************************************************************************)
ZeroMeansNoTTL ==
    \A i \in DOMAIN Snapshot :
        Snapshot[i].ttl = 0 => EntryOf(Snapshot[i].key).left = NoExpiry
=============================================================================
