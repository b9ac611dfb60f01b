---------------------------- MODULE HealthCheck -----------------------------
(***************************************************************************)
(* The cluster manager under threads.                                      *)
(*                                                                         *)
(* POST /api/health-check (gateway/app/main.py) hands a plain function to  *)
(* BackgroundTasks, which runs it on a worker thread: the timeout scan of  *)
(* the worker interleaves with the scan and the handlers that the event    *)
(* loop runs, on the same dict and the same NodeMetadata objects.  The     *)
(* class comment says "Thread-safe via lock"; there is no lock.            *)
(*                                                                         *)
(* The module refines the grain of ClusterManager.tla: a step is one read  *)
(* or write of an attribute that another thread may touch.  The event loop *)
(* is one thread, so its handlers do not interleave with each other.       *)
(* deregister_node has no caller and is left out.                          *)
(***************************************************************************)
EXTENDS ClusterManager, FiniteSets

CONSTANTS
    EventLoop,  \* the thread of the event loop
    Worker,     \* threads of the pool that run health checks
    Founder     \* the node that has registered when the model starts

Thread == Worker \cup {EventLoop}

\* Not the id of a node.
NoName == "none"

ASSUME ThreadAssumption ==
    /\ EventLoop \notin Worker
    /\ IsFiniteSet(Worker)
    /\ Founder \in Node
    /\ NoName \notin Node

VARIABLES
    th,         \* what each thread is doing, and its local variables
    trusted,    \* history: nothing changed a status behind the back of the
                \* rebuild that installed the ring, or without a rebuild
    crossed     \* history: the nodes that two threads worked on at a time,
                \* and that no thread began to work on undisturbed since

threadVars == <<vars, th, trusted, crossed>>

\* Misses beyond the threshold make no difference and are not counted: lost
\* resets would let the counter of a node grow without bound.
MissCap == DEAD_THRESHOLD

(***************************************************************************)
(* pc      the next step; a thread that is idle may start something        *)
(* node    the node whose metadata object the thread holds; none if the    *)
(*         object is no longer in the dict                                 *)
(* todo    the scan: nodes still to visit whose last heartbeat is too old  *)
(*         compared with now, which is read once, when the scan starts     *)
(* old     old_status                                                      *)
(* count   failed_attempts as read by +=, before it is written back        *)
(* rest    the rebuild: nodes its comprehension has still to visit         *)
(* alive   the rebuild: alive_nodes so far                                 *)
(* back    where the thread goes on after the rebuild                      *)
(* clean   history: nobody changed a status since the rebuild started      *)
(***************************************************************************)
Idle == [pc |-> "idle", node |-> NoName, todo |-> {}, old |-> "alive",
         count |-> 0, rest |-> {}, alive |-> {}, back |-> "idle",
         clean |-> TRUE]

ThreadsInit ==
    /\ status = [n \in Node |-> IF n = Founder THEN "alive" ELSE "unregistered"]
    /\ silence = [n \in Node |-> 0]
    /\ failed_attempts = [n \in Node |-> 0]
    /\ before = {}
    /\ hash_ring = {Founder}
    /\ th = [t \in Thread |-> Idle]
    /\ trusted = TRUE
    /\ crossed = {}

\* The earliest node of S in the dict.
First(S) == CHOOSE n \in S : \A m \in S \ {n} : <<n, m>> \in before

\* Thread t, going on with _rebuild_hash_ring over the nodes S, then with b.
Rebuilding(t, S, b) ==
    [Idle EXCEPT !.pc = "collect", !.todo = th[t].todo, !.back = b,
                 !.rest = S]

\* A scan with the nodes S still to visit, and none of its locals in use.
Scanning(S) == IF S = {} THEN Idle ELSE [Idle EXCEPT !.pc = "look", !.todo = S]

\* Thread t is in the middle of a scan's visit to n, or of n's heartbeat.
InVisit(t, n) ==
    /\ th[t].node = n
    /\ th[t].pc \in {"note", "count", "store", "judge", "bury", "doubt",
                     "weigh", "ask_dead", "ask_suspect", "recover", "return",
                     "compare"}

\* Thread u, after another thread changed a status that a rebuild reads.
Disturbed(u) == [th[u] EXCEPT !.clean = @ /\ th[u].pc # "collect"]

-----------------------------------------------------------------------------
(* check_heartbeat_timeouts, on the event loop or on a worker. *)

BeginScan(t) ==
    /\ th[t].pc = "idle"
    /\ th' = [th EXCEPT ![t] = Scanning({n \in Registered :
                                            silence[n] > heartbeat_timeout_s})]
    /\ UNCHANGED <<vars, trusted>>

\* Faulty variant: only alive nodes are visited.
LookOnlyAtAlive(t) ==
    /\ th[t].pc = "look"
    /\ LET n == First(th[t].todo)
       IN  th' = IF status[n] # "alive"
                 THEN [th EXCEPT ![t] = Scanning(@.todo \ {n})]
                 ELSE [th EXCEPT ![t].todo = @ \ {n}, ![t].pc = "note",
                                 ![t].node = n]
    /\ UNCHANGED <<vars, trusted>>

\* The loop visits the next node and skips it if it is dead.
Look(t) ==
    /\ th[t].pc = "look"
    /\ LET n == First(th[t].todo)
       IN  th' = IF status[n] = "dead"
                 THEN [th EXCEPT ![t] = Scanning(@.todo \ {n})]
                 ELSE [th EXCEPT ![t].todo = @ \ {n}, ![t].pc = "note",
                                 ![t].node = n]
    /\ UNCHANGED <<vars, trusted>>

\* old_status = node.status, a second read of the status
Note(t) ==
    /\ th[t].pc = "note"
    /\ th' = [th EXCEPT ![t].pc = "count", ![t].old = status[th[t].node]]
    /\ UNCHANGED <<vars, trusted>>

\* node.failed_attempts += 1 reads ...
ReadMisses(t) ==
    /\ th[t].pc = "count"
    /\ th' = [th EXCEPT ![t].pc = "store",
                        ![t].count = failed_attempts[th[t].node]]
    /\ UNCHANGED <<vars, trusted>>

\* ... and writes.
WriteMisses(t) ==
    /\ th[t].pc = "store"
    /\ failed_attempts' = [failed_attempts EXCEPT
                              ![th[t].node] = IF th[t].count < MissCap
                                              THEN th[t].count + 1 ELSE MissCap]
    /\ th' = [th EXCEPT ![t].pc = "judge", ![t].count = 0]
    /\ UNCHANGED <<status, silence, before, hash_ring, trusted>>

Judge(t) ==
    /\ th[t].pc = "judge"
    /\ th' = [th EXCEPT ![t] =
                 IF failed_attempts[th[t].node] >= DEAD_THRESHOLD
                 THEN [th[t] EXCEPT !.pc = "bury", !.old = "alive"]
                 ELSE IF th[t].old = "alive" THEN [th[t] EXCEPT !.pc = "doubt"]
                 ELSE Scanning(th[t].todo)]
    /\ UNCHANGED <<vars, trusted>>

\* node.status = DEAD, and the ring will be rebuilt.
Bury(t) ==
    /\ th[t].pc = "bury"
    /\ status' = [n \in Node |-> IF n = th[t].node THEN "dead" ELSE status[n]]
    /\ th' = [u \in Thread |->
                 IF u = t THEN Rebuilding(t, Registered, "look")
                 ELSE IF status' # status THEN Disturbed(u) ELSE th[u]]
    /\ UNCHANGED <<silence, failed_attempts, before, hash_ring, trusted>>

\* Faulty variant: the name of the member is stored, not its value.
DoubtByName(t) ==
    /\ th[t].pc = "doubt"
    /\ status' = [status EXCEPT ![th[t].node] = "SUSPECT"]
    /\ th' = [th EXCEPT ![t] = Scanning(th[t].todo)]
    /\ UNCHANGED <<silence, failed_attempts, before, hash_ring, trusted>>

\* node.status = SUSPECT
Doubt(t) ==
    /\ th[t].pc = "doubt"
    /\ status' = [status EXCEPT ![th[t].node] = "suspect"]
    /\ th' = [th EXCEPT ![t] = Scanning(th[t].todo)]
    /\ UNCHANGED <<silence, failed_attempts, before, hash_ring, trusted>>

-----------------------------------------------------------------------------
(* _rebuild_hash_ring *)

\* One turn of the comprehension over self.nodes.
Collect(t) ==
    /\ th[t].pc = "collect" /\ th[t].rest # {}
    /\ LET n == First(th[t].rest)
       IN  th' = [th EXCEPT ![t].rest = @ \ {n},
                            ![t].alive = IF status[n] = "alive" THEN @ \cup {n}
                                                                ELSE @]
    /\ UNCHANGED <<vars, trusted>>

\* self.hash_ring is assigned; with no alive node it is None.
Install(t) ==
    /\ th[t].pc = "collect" /\ th[t].rest = {}
    /\ hash_ring' = th[t].alive
    /\ trusted' = th[t].clean
    /\ th' = [th EXCEPT ![t] =
                 IF th[t].back = "look" THEN Scanning(th[t].todo)
                 ELSE [Idle EXCEPT !.pc = th[t].back, !.node = th[t].node]]
    /\ UNCHANGED <<status, silence, failed_attempts, before>>

-----------------------------------------------------------------------------
(***************************************************************************)
(* register_node(n), on the event loop: a new metadata object.             *)
(*   - A known node: a scan that comes to n later finds the new object,    *)
(*     which is not overdue.  A scan that holds the old one goes on with   *)
(*     it, but nobody sees what it writes; only if the misses of the old   *)
(*     object reach the threshold it still rebuilds the ring.              *)
(*   - A new node: the dict changes size, and the iteration of any other   *)
(*     thread over it ends in a RuntimeError at its next turn, be it the   *)
(*     comprehension of a rebuild or the loop of the scan around it.       *)
(*     A comprehension that has yet to begin visits n too, and one that    *)
(*     is over goes unharmed: HashRing() is at work on the old list, and   *)
(*     the ring without n will be installed.                               *)
(* What the state of a thread leaves open is a choice: through says that   *)
(* the misses reach the threshold, or that the comprehension is not        *)
(* running although its first turn, or no turn, is the next.               *)
(***************************************************************************)
Interrupted(u, n, through) ==
    LET left == IF n \in Registered THEN th[u].todo \ {n} ELSE {}
    IN  IF InVisit(u, n)
        THEN IF \/ th[u].pc = "bury"
                \/ th[u].pc \in {"note", "count", "store", "judge"} /\ through
             THEN [Idle EXCEPT !.pc = "bury", !.todo = left]
             ELSE Scanning(left)
        ELSE IF \/ th[u].pc = "look"
                \/ /\ th[u].pc = "collect" /\ n \notin Registered
                   /\ ~ (through /\ th[u].rest \in {{}, Registered})
        THEN Scanning(left)
        ELSE [Disturbed(u) EXCEPT
                 !.todo = left,
                 !.rest = IF @ = Registered THEN @ \cup {n} ELSE @]

StoreMetadata(n, b) ==
    /\ th[EventLoop].pc = "idle"
    /\ status' = [status EXCEPT ![n] = "alive"]
    /\ silence' = [silence EXCEPT ![n] = 0]
    /\ failed_attempts' = [failed_attempts EXCEPT ![n] = 0]
    /\ before' = IF n \in Registered THEN before
                                     ELSE before \cup (Registered \X {n})
    /\ \E through \in SUBSET Worker :
          th' = [u \in Thread |->
                    IF u = EventLoop
                    THEN [Rebuilding(u, Registered \cup {n}, b) EXCEPT
                             !.node = IF b = "hear" THEN n ELSE NoName]
                    ELSE Interrupted(u, n, u \in through)]
    /\ UNCHANGED <<hash_ring, trusted>>

\* POST /register
Register(n) == StoreMetadata(n, "idle")

\* POST /heartbeat of an unknown node: it is registered, then heard.
RegisterAndHear(n) == n \notin Registered /\ StoreMetadata(n, "hear")

-----------------------------------------------------------------------------
(* process_heartbeat, on the event loop. *)

\* Faulty variant: the counter is reset only by a heartbeat that is the first
\* of a node.
HearKeepsMisses(n) ==
    /\ \/ th[EventLoop].pc = "idle" /\ n \in Registered
       \/ th[EventLoop].pc = "hear" /\ th[EventLoop].node = n
    /\ silence' = [silence EXCEPT ![n] = 0]
    /\ th' = [u \in Thread |->
                 IF u = EventLoop THEN [th[u] EXCEPT !.pc = "weigh", !.node = n]
                 ELSE IF th[u].pc = "look" THEN Scanning(th[u].todo \ {n})
                 ELSE [th[u] EXCEPT !.todo = @ \ {n}]]
    /\ UNCHANGED <<status, failed_attempts, before, hash_ring, trusted>>

\* last_heartbeat and failed_attempts are reset.
Hear(n) ==
    /\ \/ th[EventLoop].pc = "idle" /\ n \in Registered
       \/ th[EventLoop].pc = "hear" /\ th[EventLoop].node = n
    /\ silence' = [silence EXCEPT ![n] = 0]
    /\ failed_attempts' = [failed_attempts EXCEPT ![n] = 0]
    /\ th' = [u \in Thread |->
                 IF u = EventLoop THEN [th[u] EXCEPT !.pc = "weigh", !.node = n]
                 ELSE IF th[u].pc = "look" THEN Scanning(th[u].todo \ {n})
                 ELSE [th[u] EXCEPT !.todo = @ \ {n}]]
    /\ UNCHANGED <<status, before, hash_ring, trusted>>

\* old_status = node.status
Weigh ==
    /\ th[EventLoop].pc = "weigh"
    /\ th' = [th EXCEPT ![EventLoop].pc = "ask_dead",
                        ![EventLoop].old = status[th[EventLoop].node]]
    /\ UNCHANGED <<vars, trusted>>

\* if node.status == DEAD ... elif node.status == SUSPECT: two more reads
Ask(pc, s, then, otherwise) ==
    /\ th[EventLoop].pc = pc
    /\ th' = [th EXCEPT ![EventLoop].pc = IF status[th[EventLoop].node] = s
                                          THEN then ELSE otherwise]
    /\ UNCHANGED <<vars, trusted>>

\* node.status = s.  If that is the status noted before, which another thread
\* has changed since, the handler will not see that it changed anything.
Revive(pc, s) ==
    /\ th[EventLoop].pc = pc
    /\ status' = [status EXCEPT ![th[EventLoop].node] = s]
    /\ th' = [u \in Thread |->
                 IF u = EventLoop THEN [th[u] EXCEPT !.pc = "compare"]
                                  ELSE Disturbed(u)]
    /\ trusted' = (trusted /\ th[EventLoop].old # s)
    /\ UNCHANGED <<silence, failed_attempts, before, hash_ring>>

\* Faulty variant: the handler rebuilds the ring only for a node it revived
\* from the dead.
CompareWithDead ==
    /\ th[EventLoop].pc = "compare"
    /\ th' = [th EXCEPT ![EventLoop] =
                 IF @.old = "dead" THEN Rebuilding(EventLoop, Registered, "idle")
                                   ELSE Idle]
    /\ UNCHANGED <<vars, trusted>>

\* if old_status != node.status: self._rebuild_hash_ring()
Compare ==
    /\ th[EventLoop].pc = "compare"
    /\ th' = [th EXCEPT ![EventLoop] =
                 IF th[EventLoop].old # status[th[EventLoop].node]
                 THEN Rebuilding(EventLoop, Registered, "idle") ELSE Idle]
    /\ UNCHANGED <<vars, trusted>>

-----------------------------------------------------------------------------
TimePasses == Tick /\ UNCHANGED <<th, trusted>>

\* The threads at work on the metadata of n, as a scan or as a handler.
Visitors(n) == {t \in Thread : InVisit(t, n)}

\* A thread begins to work on n and has it for itself.
Refreshed(n) == Visitors(n) = {} /\ Visitors(n)' # {}

\* History only: no action reads crossed.
Watch ==
    crossed' = {n \in Node : \/ Cardinality(Visitors(n)') > 1
                             \/ n \in crossed /\ ~ Refreshed(n)}

ScanStep(t) ==
    \/ Look(t)
    \/ Note(t)
    \/ ReadMisses(t)
    \/ WriteMisses(t)
    \/ Judge(t)
    \/ Bury(t)
    \/ Doubt(t)
    \/ Collect(t)
    \/ Install(t)

HandlerStep ==
    \/ \E n \in Node : th[EventLoop].pc = "hear" /\ Hear(n)
    \/ Weigh
    \/ Ask("ask_dead", "dead", "recover", "ask_suspect")
    \/ Ask("ask_suspect", "suspect", "return", "compare")
    \/ Revive("recover", "recovered")
    \/ Revive("return", "alive")
    \/ Compare

ThreadsNext ==
    \/ \E t \in Thread : BeginScan(t) /\ Watch
    \/ \E t \in Thread : ScanStep(t) /\ Watch
    \/ \E n \in Node : (Register(n) \/ RegisterAndHear(n) \/ Hear(n)) /\ Watch
    \/ HandlerStep /\ Watch
    \/ TimePasses /\ Watch

(***************************************************************************)
(* The interpreter lets the event loop run on, and the timer of the        *)
(* failure detection loop gets its turn between the handlers, since the    *)
(* event loop serves what is ready in order of arrival.  Nothing is        *)
(* assumed of the workers: a health check may never be asked for, and may  *)
(* stop anywhere.                                                          *)
(***************************************************************************)
ThreadsSpec ==
    /\ ThreadsInit /\ [][ThreadsNext]_threadVars
    /\ WF_th(ScanStep(EventLoop) \/ HandlerStep)
    /\ SF_th(BeginScan(EventLoop))

-----------------------------------------------------------------------------
\* The state of the threads and of the cluster manager has its type.
ThreadsTypeOK ==
    /\ status \in [Node -> HealthStatus \cup {"unregistered"}]
    /\ silence \in [Node -> 0..SilenceCap]
    /\ failed_attempts \in [Node -> 0..MissCap]
    /\ before \in SUBSET (Node \X Node)
    /\ hash_ring \in SUBSET Node
    /\ th \in [Thread ->
                  [pc : {"idle", "look", "note", "count", "store", "judge",
                         "bury", "doubt", "collect", "hear", "weigh",
                         "ask_dead", "ask_suspect", "recover", "return",
                         "compare"},
                   node : Node \cup {NoName},
                   todo : SUBSET Registered, old : HealthStatus,
                   count : 0..MissCap, rest : SUBSET Registered,
                   alive : SUBSET Registered, back : {"idle", "look", "hear"},
                   clean : BOOLEAN]]
    /\ trusted \in BOOLEAN
    /\ crossed \in SUBSET Registered

(***************************************************************************)
(* The counter and the status of a node tell the same story, as they do    *)
(* without threads, unless two threads were at work on that very node at   *)
(* the same time: then a reset or a miss may be lost, or DEAD overwritten. *)
(* Scans that visit other nodes, rebuild the ring or die on a dict that    *)
(* changed size do no harm, and the next heartbeat or visit of a scan that *)
(* has the node for itself from beginning to end puts it right again.      *)
(***************************************************************************)
OnlyCrossingVisitsMiscount ==
    \A n \in Registered \ crossed :
        Visitors(n) = {} =>
            /\ status[n] = "dead" <=> failed_attempts[n] >= DEAD_THRESHOLD
            /\ status[n] = "suspect" => failed_attempts[n] > 0
            /\ status[n] = "alive" => failed_attempts[n] = 0

(***************************************************************************)
(* Two races, and nothing else, make the ring wrong.  Between rebuilds     *)
(* every node on the ring is alive or suspect and every alive node is on   *)
(* it, whatever else the threads did to each other, unless a status        *)
(* changed while the last rebuild to be installed was under way, or a      *)
(* handler took a node back to the status that it had noted, and so saw    *)
(* no need for a rebuild.  The next rebuild that is left alone repairs it. *)
(***************************************************************************)
OnlyOverlapMisroutes ==
    trusted /\ (\A t \in Thread : th[t].pc \notin {"compare", "collect"})
        => RoutesOnlyToLiveNodes /\ AliveNodesAreRouted

Silent(n) == status[n] # "unregistered" /\ silence[n] > heartbeat_timeout_s

(***************************************************************************)
(* Although scans overwrite each other's misses and a scan that is late    *)
(* may take a dead node back to SUSPECT, a node that stays silent is found *)
(* dead in the end.                                                        *)
(***************************************************************************)
SilentNodeDies ==
    \A n \in Node : []<>(Silent(n) => status[n] = "dead")
=============================================================================
