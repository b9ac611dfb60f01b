-------------------------- MODULE HealthCheckProofs -------------------------
(***************************************************************************)
(* The cluster manager under threads, for any number of nodes, any number  *)
(* of worker threads and any threshold: only threads that work on the same *)
(* node at the same time make its counter and its status disagree, and     *)
(* only the two races that HealthCheck.tla names make the ring wrong.      *)
(***************************************************************************)
EXTENDS HealthCheck, TLAPS, FiniteSetTheorems

-----------------------------------------------------------------------------
(***************************************************************************)
(* The inductive invariant.                                                *)
(*                                                                         *)
(* Placed(r, loop, R): a thread with the locals r is where it may be, if R *)
(* are the registered nodes and loop says whether it is the event loop.  A *)
(* thread in the middle of a visit holds a node of the dict, but for the   *)
(* scan that is about to bury an object that was replaced.                 *)
(***************************************************************************)
Step == {"idle", "look", "note", "count", "store", "judge", "bury", "doubt",
         "collect", "hear", "weigh", "ask_dead", "ask_suspect", "recover",
         "return", "compare"}

HandlerPc == {"weigh", "ask_dead", "ask_suspect", "recover", "return", "compare"}

VisitPc == {"note", "count", "store", "judge", "bury", "doubt"} \cup HandlerPc

Locals(R) ==
    [pc : Step, node : Node \cup {NoName}, todo : SUBSET R, old : HealthStatus,
     count : 0..MissCap, rest : SUBSET R, alive : SUBSET R,
     back : {"idle", "look", "hear"}, clean : BOOLEAN]

Placed(r, loop, R) ==
    /\ r.pc \in VisitPc => \/ r.node \in R
                           \/ r.pc = "bury" /\ r.node = NoName
    /\ r.pc \in HandlerPc => loop
    /\ r.pc = "hear" => loop /\ r.node \in R
    /\ r.pc = "collect" /\ r.back = "hear" => loop /\ r.node \in R
    /\ r.pc = "look" => r.todo # {}

Good(r, loop, R) == r \in Locals(R) /\ Placed(r, loop, R)

\* Any set of registered nodes has a first one in the order of the dict.
Ordered ==
    \A S \in SUBSET Registered :
        S # {} => \E n \in S : \A m \in S \ {n} : <<n, m>> \in before

Types ==
    /\ status \in [Node -> HealthStatus \cup {"unregistered"}]
    /\ silence \in [Node -> 0..SilenceCap]
    /\ failed_attempts \in [Node -> 0..MissCap]
    /\ before \in SUBSET (Node \X Node)
    /\ hash_ring \in SUBSET Node
    /\ trusted \in BOOLEAN
    /\ th = [t \in Thread |-> th[t]]
    /\ \A t \in Thread : Good(th[t], t = EventLoop, Registered)
    /\ Ordered

(***************************************************************************)
(* The ring.  What a rebuild that nobody disturbed has collected is true   *)
(* of the nodes it has seen; and between rebuilds the ring is right about  *)
(* every node, but for the one that a handler is about to rebuild it for.  *)
(***************************************************************************)
Routed(n) ==
    /\ n \in hash_ring => status[n] \in {"alive", "suspect"}
    /\ status[n] = "alive" => n \in hash_ring

CollectsWell(t) ==
    th[t].pc = "collect" /\ th[t].clean =>
        /\ \A n \in th[t].alive : status[n] \in {"alive", "suspect"}
        /\ \A n \in Registered \ th[t].rest : status[n] = "alive" => n \in th[t].alive

AboutToRebuild(n) ==
    /\ th[EventLoop].pc = "compare"
    /\ th[EventLoop].node = n
    /\ th[EventLoop].old # status[n]

Collectors == {t \in Thread : th[t].pc = "collect"}

RingInv ==
    /\ \A t \in Thread : CollectsWell(t)
    /\ trusted /\ Collectors = {} =>
          \A n \in Node : Routed(n) \/ AboutToRebuild(n)

(***************************************************************************)
(* The counter.  Agree(n) is what OnlyCrossingVisitsMiscount says of n.    *)
(* While one thread has n for itself, what it has read is still true and   *)
(* the end of its visit will make the status and the counter agree,        *)
(* whatever they were when it came.                                        *)
(***************************************************************************)
Agree(n) ==
    /\ status[n] = "dead" <=> failed_attempts[n] >= DEAD_THRESHOLD
    /\ status[n] = "suspect" => failed_attempts[n] > 0
    /\ status[n] = "alive" => failed_attempts[n] = 0

OnCourse(t, n) ==
    /\ th[t].pc \in {"note", "count", "store", "judge", "ask_suspect", "compare"}
          => status[n] # "dead"
    /\ th[t].pc \in {"count", "store", "judge"} => th[t].old = status[n]
    /\ th[t].pc = "store" => th[t].count = failed_attempts[n]
    /\ th[t].pc \in {"judge", "doubt"} => failed_attempts[n] > 0
    /\ th[t].pc = "bury" => failed_attempts[n] >= DEAD_THRESHOLD
    /\ th[t].pc = "doubt" => /\ status[n] = "alive"
                             /\ failed_attempts[n] < DEAD_THRESHOLD
    /\ th[t].pc \in HandlerPc => failed_attempts[n] = 0
    /\ th[t].pc = "compare" => status[n] # "suspect"

Told(n) ==
    /\ \A t, u \in Thread : InVisit(t, n) /\ InVisit(u, n) => t = u
    /\ \A t \in Thread : InVisit(t, n) => OnCourse(t, n)
    /\ (\A t \in Thread : ~ InVisit(t, n)) => Agree(n)

ToldInv ==
    /\ crossed \subseteq Registered
    /\ \A n \in Registered \ crossed : Told(n)

ThreadsInv == Types /\ RingInv /\ ToldInv

-----------------------------------------------------------------------------
(* The locals of a thread, one assignment at a time. *)

\* The two records that threads are reset to.
LEMMA IdleGood ==
  ASSUME NEW R, NEW loop
  PROVE  /\ Idle \in Locals(R)
         /\ Idle.pc = "idle" /\ Idle.node = NoName /\ Idle.back = "idle"
         /\ Good(Idle, loop, R)
<1>1. 0 \in 0..MissCap
  BY ClusterAssumption DEF MissCap
<1>2. Idle \in Locals(R)
  BY <1>1 DEF Idle, Locals, Step, HealthStatus
<1> QED BY <1>2 DEF Idle, Good, Placed, VisitPc, HandlerPc

\* The dict has grown: a thread is still where it may be.
LEMMA GoodGrows ==
  ASSUME NEW R, NEW Q, R \subseteq Q, NEW r, NEW loop, Good(r, loop, R)
  PROVE  Good(r, loop, Q)
<1>1. r \in Locals(Q)
  BY DEF Good, Locals
<1> QED BY <1>1 DEF Good, Placed

\* A scan that goes on, or ends.
LEMMA ScanningGood ==
  ASSUME NEW R, NEW S \in SUBSET R, NEW loop
  PROVE  /\ Good(Scanning(S), loop, R)
         /\ Scanning(S).pc \in {"idle", "look"}
<1>1. CASE S = {}
  BY <1>1, IdleGood DEF Scanning
<1>2. CASE S # {}
  <2>1. 0 \in 0..MissCap
    BY ClusterAssumption DEF MissCap
  <2>2. Scanning(S) = [Idle EXCEPT !.pc = "look", !.todo = S]
    BY <1>2 DEF Scanning
  <2>3. Scanning(S) \in Locals(R)
    BY <2>1, <2>2 DEF Idle, Locals, Step, HealthStatus
  <2>4. Scanning(S).pc = "look" /\ Scanning(S).todo = S
    BY <2>2 DEF Idle
  <2> QED BY <1>2, <2>3, <2>4 DEF Good, Placed, VisitPc, HandlerPc
<1> QED BY <1>1, <1>2

\* A rebuild that begins.
LEMMA RebuildingGood ==
  ASSUME NEW R, NEW S \in SUBSET R, NEW loop, NEW t \in Thread,
         NEW b \in {"idle", "look"}, th[t].todo \in SUBSET R
  PROVE  /\ Good(Rebuilding(t, S, b), loop, R)
         /\ Rebuilding(t, S, b).pc = "collect"
         /\ Rebuilding(t, S, b).rest = S
         /\ Rebuilding(t, S, b).alive = {}
<1>1. 0 \in 0..MissCap
  BY ClusterAssumption DEF MissCap
<1>2. Rebuilding(t, S, b) \in Locals(R)
  BY <1>1 DEF Rebuilding, Idle, Locals, Step, HealthStatus
<1>3. /\ Rebuilding(t, S, b).pc = "collect" /\ Rebuilding(t, S, b).rest = S
      /\ Rebuilding(t, S, b).alive = {} /\ Rebuilding(t, S, b).back = b
  BY DEF Rebuilding, Idle
<1> QED BY <1>2, <1>3 DEF Good, Placed, VisitPc, HandlerPc

-----------------------------------------------------------------------------
(* What each step does to the thread that takes it. *)

\* No thread but t changes.
Only(t) == th' = [u \in Thread |-> IF u = t THEN th'[t] ELSE th[u]]

\* The first node of a scan or of a rebuild is one of those still to visit.
LEMMA FirstIn ==
  ASSUME Types, NEW S \in SUBSET Registered, S # {}
  PROVE  First(S) \in S
  BY DEF Types, Ordered, First

\* The locals of a thread of a state with the right types.
LEMMA ThreadGood ==
  ASSUME Types, NEW t \in Thread
  PROVE  /\ Good(th[t], t = EventLoop, Registered)
         /\ th[t] \in Locals(Registered)
         /\ Placed(th[t], t = EventLoop, Registered)
  BY DEF Types, Good

\* check_heartbeat_timeouts begins.
LEMMA BeginScanEffect ==
  ASSUME Types, NEW t \in Thread, BeginScan(t)
  PROVE  /\ Only(t)
         /\ Good(th'[t], t = EventLoop, Registered)
         /\ th[t].pc = "idle"
         /\ th'[t].pc \in {"idle", "look"}
<1>1. PICK S \in SUBSET Registered : th' = [th EXCEPT ![t] = Scanning(S)]
  BY DEF BeginScan
<1>2. th'[t] = Scanning(S) /\ Only(t)
  BY <1>1 DEF Types, Only
<1> QED BY <1>2, ScanningGood DEF BeginScan

\* The loop skips a dead node or begins to visit one that is not.
LEMMA LookEffect ==
  ASSUME Types, NEW t \in Thread, Look(t)
  PROVE  /\ Only(t)
         /\ Good(th'[t], t = EventLoop, Registered)
         /\ th[t].pc = "look"
         /\ \/ th'[t].pc \in {"idle", "look"}
            \/ th'[t].pc = "note" /\ status[th'[t].node] # "dead"
<1> USE ThreadGood
<1>1. th[t].pc = "look" /\ th[t].todo \in SUBSET Registered /\ th[t].todo # {}
  BY DEF Look, Locals, Placed
<1>2. PICK n \in th[t].todo : n = First(th[t].todo)
  BY <1>1, FirstIn
<1>3. CASE status[n] = "dead"
  <2>1. th' = [th EXCEPT ![t] = Scanning(th[t].todo \ {n})]
    BY <1>2, <1>3 DEF Look
  <2>2. th'[t] = Scanning(th[t].todo \ {n}) /\ Only(t)
    BY <2>1 DEF Types, Only
  <2>3. PICK S \in SUBSET Registered : S = th[t].todo \ {n}
    BY <1>1
  <2> QED BY <1>1, <2>2, <2>3, ScanningGood
<1>4. CASE status[n] # "dead"
  <2>1. th' = [th EXCEPT ![t].todo = @ \ {n}, ![t].pc = "note", ![t].node = n]
    BY <1>2, <1>4 DEF Look
  <2>2. th'[t] = [[[th[t] EXCEPT !.todo = @ \ {n}] EXCEPT !.pc = "note"] EXCEPT !.node = n]
        /\ Only(t)
    BY <2>1 DEF Types, Only
  <2>3. PICK r : r = [th[t] EXCEPT !.todo = @ \ {n}]
    OBVIOUS
  <2>4. r \in Locals(Registered)
    BY <1>1, <2>3 DEF Locals
  <2>5. n \in Node
    BY <1>1, <1>2 DEF Registered
  <2>6. th'[t] \in Locals(Registered) /\ th'[t].pc = "note" /\ th'[t].node = n
    BY <2>2, <2>3, <2>4, <2>5 DEF Locals, Step
  <2> QED BY <1>1, <1>2, <1>4, <2>2, <2>6 DEF Good, Placed, HandlerPc
<1> QED BY <1>3, <1>4

\* old_status is read.
LEMMA NoteEffect ==
  ASSUME Types, NEW t \in Thread, Note(t)
  PROVE  /\ Only(t)
         /\ Good(th'[t], t = EventLoop, Registered)
         /\ th[t].pc = "note" /\ th[t].node \in Registered
         /\ th'[t].pc = "count" /\ th'[t].node = th[t].node
         /\ th'[t].old = status[th[t].node]
<1> USE ThreadGood
<1>1. th[t].pc = "note" /\ th[t].node \in Registered
  BY DEF Note, Placed, VisitPc
<1>2. status[th[t].node] \in HealthStatus
  BY <1>1 DEF Types, Registered
<1>3. th' = [th EXCEPT ![t].pc = "count", ![t].old = status[th[t].node]]
  BY DEF Note
<1>4. th'[t] = [[th[t] EXCEPT !.pc = "count"] EXCEPT !.old = status[th[t].node]]
      /\ Only(t)
  BY <1>3 DEF Types, Only
<1>5. /\ th'[t] \in Locals(Registered) /\ th'[t].pc = "count"
      /\ th'[t].node = th[t].node /\ th'[t].old = status[th[t].node]
  BY <1>2, <1>4 DEF Locals, Step
<1> QED BY <1>1, <1>4, <1>5 DEF Good, Placed, HandlerPc

\* failed_attempts is read.
LEMMA ReadMissesEffect ==
  ASSUME Types, NEW t \in Thread, ReadMisses(t)
  PROVE  /\ Only(t)
         /\ Good(th'[t], t = EventLoop, Registered)
         /\ th[t].pc = "count" /\ th[t].node \in Registered
         /\ th'[t].pc = "store" /\ th'[t].node = th[t].node
         /\ th'[t].old = th[t].old
         /\ th'[t].count = failed_attempts[th[t].node]
<1> USE ThreadGood
<1>1. th[t].pc = "count" /\ th[t].node \in Registered
  BY DEF ReadMisses, Placed, VisitPc
<1>2. failed_attempts[th[t].node] \in 0..MissCap
  BY <1>1 DEF Types, Registered
<1>3. th' = [th EXCEPT ![t].pc = "store", ![t].count = failed_attempts[th[t].node]]
  BY DEF ReadMisses
<1>4. th'[t] = [[th[t] EXCEPT !.pc = "store"] EXCEPT
                   !.count = failed_attempts[th[t].node]]
      /\ Only(t)
  BY <1>3 DEF Types, Only
<1>5. /\ th'[t] \in Locals(Registered) /\ th'[t].pc = "store"
      /\ th'[t].node = th[t].node /\ th'[t].old = th[t].old
      /\ th'[t].count = failed_attempts[th[t].node]
  BY <1>2, <1>4 DEF Locals, Step
<1> QED BY <1>1, <1>4, <1>5 DEF Good, Placed, HandlerPc

\* One more than was read is written, whatever the counter is by now.
LEMMA WriteMissesEffect ==
  ASSUME Types, NEW t \in Thread, WriteMisses(t)
  PROVE  /\ Only(t)
         /\ Good(th'[t], t = EventLoop, Registered)
         /\ th[t].pc = "store" /\ th[t].node \in Registered
         /\ th'[t].pc = "judge" /\ th'[t].node = th[t].node
         /\ th'[t].old = th[t].old
         /\ failed_attempts' \in [Node -> 0..MissCap]
         /\ failed_attempts'[th[t].node] > 0
         /\ \A n \in Node : n # th[t].node =>
                               failed_attempts'[n] = failed_attempts[n]
<1> USE ThreadGood
<1>0. MissCap \in Nat /\ MissCap > 0
  BY ClusterAssumption DEF MissCap
<1>1. th[t].pc = "store" /\ th[t].node \in Registered /\ th[t].node \in Node
  BY DEF WriteMisses, Placed, VisitPc, Registered
<1>2. PICK k \in 0..MissCap : /\ k = IF th[t].count < MissCap THEN th[t].count + 1
                                                              ELSE MissCap
                              /\ k > 0
  <2>1. th[t].count \in 0..MissCap
    BY DEF Locals
  <2> QED BY <1>0, <2>1
<1>3. failed_attempts' = [failed_attempts EXCEPT ![th[t].node] = k]
  BY <1>2 DEF WriteMisses
<1>4. /\ failed_attempts' \in [Node -> 0..MissCap]
      /\ failed_attempts'[th[t].node] > 0
      /\ \A n \in Node : n # th[t].node => failed_attempts'[n] = failed_attempts[n]
  BY <1>1, <1>2, <1>3 DEF Types
<1>5. th' = [th EXCEPT ![t].pc = "judge", ![t].count = 0]
  BY DEF WriteMisses
<1>6. th'[t] = [[th[t] EXCEPT !.pc = "judge"] EXCEPT !.count = 0] /\ Only(t)
  BY <1>5 DEF Types, Only
<1>7. PICK r : r = [th[t] EXCEPT !.pc = "judge"]
  OBVIOUS
<1>8. /\ r \in Locals(Registered)
      /\ r.pc = "judge" /\ r.node = th[t].node /\ r.old = th[t].old
  BY <1>7 DEF Locals, Step
<1>9. th'[t] = [r EXCEPT !.count = 0] /\ 0 \in 0..MissCap
  BY <1>0, <1>6, <1>7
<1>10. /\ th'[t] \in Locals(Registered) /\ th'[t].pc = "judge"
       /\ th'[t].node = th[t].node /\ th'[t].old = th[t].old
  BY <1>8, <1>9 DEF Locals
<1> QED BY <1>1, <1>4, <1>6, <1>10 DEF Good, Placed, HandlerPc

\* The counter decides, and below the threshold the status that was noted.
LEMMA JudgeEffect ==
  ASSUME Types, NEW t \in Thread, Judge(t)
  PROVE  /\ Only(t)
         /\ Good(th'[t], t = EventLoop, Registered)
         /\ th[t].pc = "judge" /\ th[t].node \in Registered
         /\ \/ /\ failed_attempts[th[t].node] >= DEAD_THRESHOLD
               /\ th'[t].pc = "bury" /\ th'[t].node = th[t].node
            \/ /\ ~ (failed_attempts[th[t].node] >= DEAD_THRESHOLD)
               /\ th[t].old = "alive"
               /\ th'[t].pc = "doubt" /\ th'[t].node = th[t].node
            \/ /\ ~ (failed_attempts[th[t].node] >= DEAD_THRESHOLD)
               /\ th[t].old # "alive"
               /\ th'[t].pc \in {"idle", "look"}
<1> USE ThreadGood
<1>1. th[t].pc = "judge" /\ th[t].node \in Registered
  BY DEF Judge, Placed, VisitPc
<1>2. PICK r : /\ r = IF failed_attempts[th[t].node] >= DEAD_THRESHOLD
                      THEN [th[t] EXCEPT !.pc = "bury", !.old = "alive"]
                      ELSE IF th[t].old = "alive" THEN [th[t] EXCEPT !.pc = "doubt"]
                      ELSE Scanning(th[t].todo)
               /\ th' = [th EXCEPT ![t] = r]
  BY DEF Judge
<1>3. th'[t] = r /\ Only(t)
  BY <1>2 DEF Types, Only
<1>4. CASE failed_attempts[th[t].node] >= DEAD_THRESHOLD
  <2>1. th'[t] = [[th[t] EXCEPT !.pc = "bury"] EXCEPT !.old = "alive"]
    BY <1>2, <1>3, <1>4
  <2>2. th'[t] \in Locals(Registered) /\ th'[t].pc = "bury" /\ th'[t].node = th[t].node
    BY <2>1 DEF Locals, Step, HealthStatus
  <2> QED BY <1>1, <1>3, <1>4, <2>2 DEF Good, Placed, HandlerPc
<1>5. CASE ~ (failed_attempts[th[t].node] >= DEAD_THRESHOLD) /\ th[t].old = "alive"
  <2>1. th'[t] = [th[t] EXCEPT !.pc = "doubt"]
    BY <1>2, <1>3, <1>5
  <2>2. th'[t] \in Locals(Registered) /\ th'[t].pc = "doubt" /\ th'[t].node = th[t].node
    BY <2>1 DEF Locals, Step
  <2> QED BY <1>1, <1>3, <1>5, <2>2 DEF Good, Placed, HandlerPc
<1>6. CASE ~ (failed_attempts[th[t].node] >= DEAD_THRESHOLD) /\ th[t].old # "alive"
  <2>1. th'[t] = Scanning(th[t].todo)
    BY <1>2, <1>3, <1>6
  <2>2. th[t].todo \in SUBSET Registered
    BY DEF Locals
  <2> QED BY <1>1, <1>3, <1>6, <2>1, <2>2, ScanningGood
<1> QED BY <1>4, <1>5, <1>6

\* The node becomes SUSPECT, whatever its status is by now.
LEMMA DoubtEffect ==
  ASSUME Types, NEW t \in Thread, Doubt(t)
  PROVE  /\ Only(t)
         /\ Good(th'[t], t = EventLoop, Registered)
         /\ th[t].pc = "doubt" /\ th[t].node \in Registered
         /\ th'[t].pc \in {"idle", "look"}
         /\ status' \in [Node -> HealthStatus \cup {"unregistered"}]
         /\ status'[th[t].node] = "suspect"
         /\ \A n \in Node : n # th[t].node => status'[n] = status[n]
         /\ Registered' = Registered
<1> USE ThreadGood
<1>1. th[t].pc = "doubt" /\ th[t].node \in Registered /\ th[t].node \in Node
  BY DEF Doubt, Placed, VisitPc, Registered
<1>2. status' = [status EXCEPT ![th[t].node] = "suspect"]
  BY DEF Doubt
<1>3. /\ status' \in [Node -> HealthStatus \cup {"unregistered"}]
      /\ status'[th[t].node] = "suspect"
      /\ \A n \in Node : n # th[t].node => status'[n] = status[n]
  BY <1>1, <1>2 DEF Types, HealthStatus
<1>4. Registered' = Registered
  BY <1>1, <1>3 DEF Registered
<1>5. th'[t] = Scanning(th[t].todo) /\ Only(t)
  BY DEF Doubt, Types, Only
<1>6. th[t].todo \in SUBSET Registered
  BY DEF Locals
<1> QED BY <1>1, <1>3, <1>4, <1>5, <1>6, ScanningGood

\* The rebuild looks at one more node.
LEMMA CollectEffect ==
  ASSUME Types, NEW t \in Thread, Collect(t)
  PROVE  /\ Only(t)
         /\ Good(th'[t], t = EventLoop, Registered)
         /\ th[t].pc = "collect" /\ th'[t].pc = "collect"
         /\ th'[t].clean = th[t].clean
         /\ \E n \in th[t].rest :
               /\ th'[t].rest = th[t].rest \ {n}
               /\ th'[t].alive = IF status[n] = "alive" THEN th[t].alive \cup {n}
                                                        ELSE th[t].alive
<1> USE ThreadGood
<1>1. /\ th[t].pc = "collect" /\ th[t].rest # {}
      /\ th[t].rest \in SUBSET Registered /\ th[t].alive \in SUBSET Registered
  BY DEF Collect, Locals
<1>2. PICK n \in th[t].rest : n = First(th[t].rest)
  BY <1>1, FirstIn
<1>3. PICK S, A : /\ S = th[t].rest \ {n}
                  /\ A = IF status[n] = "alive" THEN th[t].alive \cup {n} ELSE th[t].alive
  OBVIOUS
<1>4. S \in SUBSET Registered /\ A \in SUBSET Registered
  BY <1>1, <1>2, <1>3
<1>5. th' = [th EXCEPT ![t].rest = S, ![t].alive = A]
  BY <1>2, <1>3 DEF Collect, Types
<1>6. th'[t] = [[th[t] EXCEPT !.rest = S] EXCEPT !.alive = A] /\ Only(t)
  BY <1>5 DEF Types, Only
<1>7. PICK r : r = [th[t] EXCEPT !.rest = S]
  OBVIOUS
<1>8. /\ r \in Locals(Registered) /\ r.rest = S /\ r.pc = th[t].pc
      /\ r.clean = th[t].clean /\ r.node = th[t].node /\ r.back = th[t].back
  BY <1>4, <1>7 DEF Locals
<1>9. /\ th'[t] \in Locals(Registered) /\ th'[t].rest = S /\ th'[t].alive = A
      /\ th'[t].pc = "collect" /\ th'[t].clean = th[t].clean
      /\ th'[t].node = th[t].node /\ th'[t].back = th[t].back
  BY <1>1, <1>4, <1>6, <1>7, <1>8 DEF Locals
<1>10. Good(th'[t], t = EventLoop, Registered)
  BY <1>1, <1>9 DEF Good, Placed, VisitPc, HandlerPc
<1> QED BY <1>1, <1>3, <1>6, <1>9, <1>10

\* The ring is assigned, and the thread goes on.
LEMMA InstallEffect ==
  ASSUME Types, NEW t \in Thread, Install(t)
  PROVE  /\ Only(t)
         /\ Good(th'[t], t = EventLoop, Registered)
         /\ th[t].pc = "collect" /\ th[t].rest = {}
         /\ th'[t].pc \in {"idle", "look", "hear"}
         /\ hash_ring' = th[t].alive /\ hash_ring' \in SUBSET Registered
         /\ trusted' = th[t].clean /\ trusted' \in BOOLEAN
<1> USE ThreadGood
<1>1. /\ th[t].pc = "collect" /\ th[t].rest = {}
      /\ hash_ring' = th[t].alive /\ trusted' = th[t].clean
  BY DEF Install
<1>2. /\ th[t].todo \in SUBSET Registered /\ th[t].alive \in SUBSET Registered
      /\ th[t].clean \in BOOLEAN /\ th[t].back \in {"idle", "look", "hear"}
      /\ th[t].node \in Node \cup {NoName}
  BY DEF Locals
<1>3. PICK r : /\ r = IF th[t].back = "look" THEN Scanning(th[t].todo)
                      ELSE [Idle EXCEPT !.pc = th[t].back, !.node = th[t].node]
               /\ th' = [th EXCEPT ![t] = r]
  BY DEF Install
<1>4. th'[t] = r /\ Only(t)
  BY <1>3 DEF Types, Only
<1>5. CASE th[t].back = "look"
  BY <1>1, <1>2, <1>3, <1>4, <1>5, ScanningGood
<1>6. CASE th[t].back # "look"
  <2>1. /\ r = [[Idle EXCEPT !.pc = th[t].back] EXCEPT !.node = th[t].node]
        /\ th[t].back \in {"idle", "hear"} /\ th[t].back \in Step
    BY <1>2, <1>3, <1>6 DEF Step
  <2>2. PICK q : q = [Idle EXCEPT !.pc = th[t].back]
    OBVIOUS
  <2>3. q \in Locals(Registered) /\ q.pc = th[t].back
    BY <2>1, <2>2, IdleGood DEF Locals
  <2>4. r = [q EXCEPT !.node = th[t].node]
    BY <2>1, <2>2
  <2>5. r \in Locals(Registered) /\ r.pc = th[t].back /\ r.node = th[t].node
    BY <1>2, <2>3, <2>4 DEF Locals
  <2>6. Good(r, t = EventLoop, Registered)
    BY <1>1, <2>1, <2>5 DEF Good, Placed, VisitPc, HandlerPc
  <2> QED BY <1>1, <1>2, <1>4, <2>1, <2>5, <2>6
<1> QED BY <1>5, <1>6

\* process_heartbeat notes the status.
LEMMA WeighEffect ==
  ASSUME Types, Weigh
  PROVE  /\ Only(EventLoop)
         /\ Good(th'[EventLoop], TRUE, Registered)
         /\ th[EventLoop].pc = "weigh" /\ th[EventLoop].node \in Registered
         /\ th'[EventLoop].pc = "ask_dead"
         /\ th'[EventLoop].node = th[EventLoop].node
<1>0. EventLoop \in Thread
  BY DEF Thread
<1>1. /\ th[EventLoop].pc = "weigh" /\ th[EventLoop].node \in Registered
      /\ th[EventLoop] \in Locals(Registered)
  BY <1>0, ThreadGood DEF Weigh, Placed, VisitPc, HandlerPc
<1>2. PICK s \in HealthStatus : s = status[th[EventLoop].node]
  BY <1>1 DEF Types, Registered
<1>3. th' = [th EXCEPT ![EventLoop].pc = "ask_dead", ![EventLoop].old = s]
  BY <1>2 DEF Weigh
<1>4. /\ th'[EventLoop] = [[th[EventLoop] EXCEPT !.pc = "ask_dead"] EXCEPT !.old = s]
      /\ Only(EventLoop)
  BY <1>0, <1>3 DEF Types, Only
<1>5. PICK r : r = [th[EventLoop] EXCEPT !.pc = "ask_dead"]
  OBVIOUS
<1>6. r \in Locals(Registered) /\ r.pc = "ask_dead" /\ r.node = th[EventLoop].node
  BY <1>1, <1>5 DEF Locals, Step
<1>7. th'[EventLoop] = [r EXCEPT !.old = s]
  BY <1>4, <1>5
<1>8. /\ th'[EventLoop] \in Locals(Registered) /\ th'[EventLoop].pc = "ask_dead"
      /\ th'[EventLoop].node = th[EventLoop].node
  BY <1>2, <1>6, <1>7 DEF Locals
<1> QED BY <1>1, <1>4, <1>8 DEF Good, Placed, HandlerPc

\* process_heartbeat reads the status once more.
LEMMA AskEffect ==
  ASSUME Types, NEW pc \in HandlerPc, NEW s, NEW x \in HandlerPc, NEW y \in HandlerPc,
         Ask(pc, s, x, y)
  PROVE  /\ Only(EventLoop)
         /\ Good(th'[EventLoop], TRUE, Registered)
         /\ th[EventLoop].pc = pc /\ th[EventLoop].node \in Registered
         /\ th'[EventLoop].node = th[EventLoop].node
         /\ th'[EventLoop].old = th[EventLoop].old
         /\ \/ th'[EventLoop].pc = x /\ status[th[EventLoop].node] = s
            \/ th'[EventLoop].pc = y /\ status[th[EventLoop].node] # s
<1>0. EventLoop \in Thread
  BY DEF Thread
<1>1. /\ th[EventLoop].pc = pc /\ th[EventLoop].node \in Registered
      /\ th[EventLoop] \in Locals(Registered)
  BY <1>0, ThreadGood DEF Ask, Placed, VisitPc, HandlerPc
<1>2. PICK z : z = IF status[th[EventLoop].node] = s THEN x ELSE y
  OBVIOUS
<1>3. z \in HandlerPc /\ z \in Step
  BY <1>2 DEF HandlerPc, Step
<1>4. th' = [th EXCEPT ![EventLoop].pc = z]
  BY <1>2 DEF Ask
<1>5. th'[EventLoop] = [th[EventLoop] EXCEPT !.pc = z] /\ Only(EventLoop)
  BY <1>0, <1>4 DEF Types, Only
<1>6. /\ th'[EventLoop] \in Locals(Registered) /\ th'[EventLoop].pc = z
      /\ th'[EventLoop].node = th[EventLoop].node
      /\ th'[EventLoop].old = th[EventLoop].old
  BY <1>1, <1>3, <1>5 DEF Locals
<1>7. Good(th'[EventLoop], TRUE, Registered)
  BY <1>1, <1>3, <1>6 DEF Good, Placed, HandlerPc
<1> QED BY <1>1, <1>2, <1>5, <1>6, <1>7

\* process_heartbeat ends, or rebuilds the ring.
LEMMA CompareEffect ==
  ASSUME Types, Compare
  PROVE  /\ Only(EventLoop)
         /\ Good(th'[EventLoop], TRUE, Registered)
         /\ th[EventLoop].pc = "compare" /\ th[EventLoop].node \in Registered
         /\ \/ /\ th[EventLoop].old # status[th[EventLoop].node]
               /\ th'[EventLoop].pc = "collect"
               /\ th'[EventLoop].rest = Registered
               /\ th'[EventLoop].alive = {}
            \/ /\ th[EventLoop].old = status[th[EventLoop].node]
               /\ th'[EventLoop].pc = "idle"
<1>0. EventLoop \in Thread
  BY DEF Thread
<1>1. /\ th[EventLoop].pc = "compare" /\ th[EventLoop].node \in Registered
      /\ th[EventLoop].todo \in SUBSET Registered
  BY <1>0, ThreadGood DEF Compare, Placed, VisitPc, HandlerPc, Locals
<1>2. PICK r : /\ r = IF th[EventLoop].old # status[th[EventLoop].node]
                      THEN Rebuilding(EventLoop, Registered, "idle") ELSE Idle
               /\ th' = [th EXCEPT ![EventLoop] = r]
  BY DEF Compare
<1>3. th'[EventLoop] = r /\ Only(EventLoop)
  BY <1>0, <1>2 DEF Types, Only
<1>4. /\ Good(Rebuilding(EventLoop, Registered, "idle"), TRUE, Registered)
      /\ Rebuilding(EventLoop, Registered, "idle").pc = "collect"
      /\ Rebuilding(EventLoop, Registered, "idle").rest = Registered
      /\ Rebuilding(EventLoop, Registered, "idle").alive = {}
  BY <1>0, <1>1, RebuildingGood
<1> QED BY <1>1, <1>2, <1>3, <1>4, IdleGood

\* Thread u goes on as it was, but for its set of overdue nodes and for what
\* the history says of its rebuild.
Kept(u) ==
    /\ th'[u].pc = th[u].pc /\ th'[u].node = th[u].node
    /\ th'[u].old = th[u].old /\ th'[u].count = th[u].count

\* A rebuild that another thread disturbs is no longer clean.
LEMMA DisturbedGood ==
  ASSUME NEW R, NEW loop, NEW u \in Thread, Good(th[u], loop, R)
  PROVE  /\ Good(Disturbed(u), loop, R)
         /\ Disturbed(u).pc = th[u].pc /\ Disturbed(u).node = th[u].node
         /\ Disturbed(u).old = th[u].old /\ Disturbed(u).count = th[u].count
         /\ ~ (Disturbed(u).pc = "collect" /\ Disturbed(u).clean)
<1>1. PICK c \in BOOLEAN : c = (th[u].clean /\ th[u].pc # "collect")
  OBVIOUS
<1>2. Disturbed(u) = [th[u] EXCEPT !.clean = c]
  BY <1>1 DEF Disturbed, Good, Locals
<1>3. PICK r : r = Disturbed(u)
  OBVIOUS
<1>4. /\ r \in Locals(R) /\ r.clean = c /\ r.pc = th[u].pc /\ r.node = th[u].node
      /\ r.old = th[u].old /\ r.count = th[u].count
      /\ r.todo = th[u].todo /\ r.back = th[u].back
  BY <1>2, <1>3 DEF Good, Locals
<1>5. Good(r, loop, R)
  BY <1>4 DEF Good, Placed
<1>6. ~ (r.pc = "collect" /\ r.clean)
  BY <1>1, <1>4
<1> QED BY <1>3, <1>4, <1>5, <1>6

\* The node is marked dead, if it is still in the dict, and a rebuild begins.
LEMMA BuryEffect ==
  ASSUME Types, NEW t \in Thread, Bury(t)
  PROVE  /\ th' = [u \in Thread |-> th'[u]]
         /\ th[t].pc = "bury"
         /\ status' \in [Node -> HealthStatus \cup {"unregistered"}]
         /\ Registered' = Registered
         /\ \A n \in Node : status'[n] = IF n = th[t].node THEN "dead" ELSE status[n]
         /\ Good(th'[t], t = EventLoop, Registered)
         /\ th'[t].pc = "collect" /\ th'[t].rest = Registered /\ th'[t].alive = {}
         /\ \A u \in Thread : u # t =>
               /\ Good(th'[u], u = EventLoop, Registered)
               /\ Kept(u)
               /\ \/ status' = status /\ th'[u] = th[u]
                  \/ ~ (th'[u].pc = "collect" /\ th'[u].clean)
<1>1. /\ th[t].pc = "bury"
      /\ th[t].node \in Registered \/ th[t].node = NoName
      /\ th[t].todo \in SUBSET Registered
  BY ThreadGood DEF Bury, Placed, VisitPc, Locals
<1>2. status' = [n \in Node |-> IF n = th[t].node THEN "dead" ELSE status[n]]
  BY DEF Bury
<1>3. /\ status' \in [Node -> HealthStatus \cup {"unregistered"}]
      /\ \A n \in Node : status'[n] = IF n = th[t].node THEN "dead" ELSE status[n]
  BY <1>2 DEF Types, HealthStatus
<1>4. Registered' = Registered
  BY <1>1, <1>3, ThreadAssumption DEF Registered
<1>5. /\ th' = [u \in Thread |-> th'[u]]
      /\ th'[t] = Rebuilding(t, Registered, "look")
      /\ \A u \in Thread : u # t =>
            th'[u] = IF status' # status THEN Disturbed(u) ELSE th[u]
  BY DEF Bury
<1>6. /\ Good(th'[t], t = EventLoop, Registered)
      /\ th'[t].pc = "collect" /\ th'[t].rest = Registered /\ th'[t].alive = {}
  <2>1. PICK loop \in BOOLEAN : loop = (t = EventLoop)
    OBVIOUS
  <2>2. /\ Good(Rebuilding(t, Registered, "look"), loop, Registered)
        /\ Rebuilding(t, Registered, "look").pc = "collect"
        /\ Rebuilding(t, Registered, "look").rest = Registered
        /\ Rebuilding(t, Registered, "look").alive = {}
    BY <1>1, RebuildingGood
  <2> QED BY <1>5, <2>1, <2>2
<1>7. ASSUME NEW u \in Thread, u # t
      PROVE  /\ Good(th'[u], u = EventLoop, Registered)
             /\ Kept(u)
             /\ \/ status' = status /\ th'[u] = th[u]
                \/ ~ (th'[u].pc = "collect" /\ th'[u].clean)
  <2>1. CASE status' = status
    BY <1>5, <1>7, <2>1, ThreadGood DEF Kept
  <2>2. CASE status' # status
    BY <1>5, <1>7, <2>2, ThreadGood, DisturbedGood DEF Kept
  <2> QED BY <2>1, <2>2
<1> QED BY <1>1, <1>3, <1>4, <1>5, <1>6, <1>7

\* A handler gives the node another status.
LEMMA ReviveEffect ==
  ASSUME Types, NEW pc \in HandlerPc, NEW s \in HealthStatus, Revive(pc, s)
  PROVE  /\ th' = [u \in Thread |-> th'[u]]
         /\ th[EventLoop].pc = pc /\ th[EventLoop].node \in Registered
         /\ status' \in [Node -> HealthStatus \cup {"unregistered"}]
         /\ Registered' = Registered
         /\ \A n \in Node : status'[n] = IF n = th[EventLoop].node THEN s ELSE status[n]
         /\ trusted' \in BOOLEAN
         /\ trusted' => trusted /\ th[EventLoop].old # s
         /\ Good(th'[EventLoop], TRUE, Registered)
         /\ th'[EventLoop].pc = "compare"
         /\ th'[EventLoop].node = th[EventLoop].node
         /\ th'[EventLoop].old = th[EventLoop].old
         /\ \A u \in Thread : u # EventLoop =>
               /\ Good(th'[u], u = EventLoop, Registered)
               /\ Kept(u)
               /\ ~ (th'[u].pc = "collect" /\ th'[u].clean)
<1>0. EventLoop \in Thread
  BY DEF Thread
<1>1. /\ th[EventLoop].pc = pc /\ th[EventLoop].node \in Registered
      /\ th[EventLoop].node \in Node
      /\ th[EventLoop] \in Locals(Registered)
  BY <1>0, ThreadGood DEF Revive, Placed, VisitPc, HandlerPc, Registered
<1>2. status' = [status EXCEPT ![th[EventLoop].node] = s]
  BY DEF Revive
<1>3. /\ status' \in [Node -> HealthStatus \cup {"unregistered"}]
      /\ \A n \in Node : status'[n] = IF n = th[EventLoop].node THEN s ELSE status[n]
  BY <1>1, <1>2 DEF Types
<1>4. Registered' = Registered
  BY <1>1, <1>3 DEF Registered, HealthStatus
<1>5. /\ th' = [u \in Thread |-> th'[u]]
      /\ th'[EventLoop] = [th[EventLoop] EXCEPT !.pc = "compare"]
      /\ \A u \in Thread : u # EventLoop => th'[u] = Disturbed(u)
      /\ trusted' = (trusted /\ th[EventLoop].old # s)
  BY <1>0 DEF Revive
<1>6. /\ th'[EventLoop] \in Locals(Registered)
      /\ th'[EventLoop].pc = "compare"
      /\ th'[EventLoop].node = th[EventLoop].node
      /\ th'[EventLoop].old = th[EventLoop].old
  BY <1>1, <1>5 DEF Locals, Step
<1>7. Good(th'[EventLoop], TRUE, Registered)
  BY <1>1, <1>6 DEF Good, Placed, HandlerPc
<1>8. \A u \in Thread : u # EventLoop =>
               /\ Good(th'[u], u = EventLoop, Registered)
               /\ Kept(u)
               /\ ~ (th'[u].pc = "collect" /\ th'[u].clean)
  BY <1>5, ThreadGood, DisturbedGood DEF Kept
<1> QED BY <1>1, <1>3, <1>4, <1>5, <1>6, <1>7, <1>8

\* A heartbeat is heard: the node is no longer overdue for any scan.
LEMMA HearEffect ==
  ASSUME Types, NEW n \in Node, Hear(n)
  PROVE  /\ th' = [u \in Thread |-> th'[u]]
         /\ th[EventLoop].pc \in {"idle", "hear"} /\ n \in Registered
         /\ silence' \in [Node -> 0..SilenceCap]
         /\ failed_attempts' \in [Node -> 0..MissCap]
         /\ failed_attempts'[n] = 0
         /\ \A m \in Node : m # n => failed_attempts'[m] = failed_attempts[m]
         /\ Good(th'[EventLoop], TRUE, Registered)
         /\ th'[EventLoop].pc = "weigh" /\ th'[EventLoop].node = n
         /\ \A u \in Thread : u # EventLoop =>
               /\ Good(th'[u], u = EventLoop, Registered)
               /\ \/ th[u].pc = "look" /\ th'[u].pc \in {"idle", "look"}
                  \/ /\ Kept(u) /\ th'[u].rest = th[u].rest
                     /\ th'[u].alive = th[u].alive /\ th'[u].clean = th[u].clean
<1>0. EventLoop \in Thread /\ 0 \in 0..MissCap /\ 0 \in 0..SilenceCap
  BY ClusterAssumption DEF Thread, MissCap
<1>1. /\ th[EventLoop].pc \in {"idle", "hear"} /\ n \in Registered
      /\ th[EventLoop] \in Locals(Registered)
  BY <1>0, ThreadGood DEF Hear, Placed
<1>2. /\ silence' \in [Node -> 0..SilenceCap]
      /\ failed_attempts' \in [Node -> 0..MissCap]
      /\ failed_attempts'[n] = 0
      /\ \A m \in Node : m # n => failed_attempts'[m] = failed_attempts[m]
  BY <1>0 DEF Hear, Types
<1>3. /\ th' = [u \in Thread |-> th'[u]]
      /\ th'[EventLoop] = [[th[EventLoop] EXCEPT !.pc = "weigh"] EXCEPT !.node = n]
      /\ \A u \in Thread : u # EventLoop =>
            th'[u] = IF th[u].pc = "look" THEN Scanning(th[u].todo \ {n})
                     ELSE [th[u] EXCEPT !.todo = @ \ {n}]
  BY <1>0 DEF Hear
<1>4. PICK r : r = [th[EventLoop] EXCEPT !.pc = "weigh"]
  OBVIOUS
<1>5. r \in Locals(Registered) /\ r.pc = "weigh"
  BY <1>1, <1>4 DEF Locals, Step
<1>6. th'[EventLoop] = [r EXCEPT !.node = n]
  BY <1>3, <1>4
<1>7. /\ th'[EventLoop] \in Locals(Registered)
      /\ th'[EventLoop].pc = "weigh" /\ th'[EventLoop].node = n
  BY <1>5, <1>6 DEF Locals
<1>8. Good(th'[EventLoop], TRUE, Registered)
  BY <1>1, <1>7 DEF Good, Placed, HandlerPc
<1>9. ASSUME NEW u \in Thread, u # EventLoop
      PROVE  /\ Good(th'[u], u = EventLoop, Registered)
             /\ \/ th[u].pc = "look" /\ th'[u].pc \in {"idle", "look"}
                \/ /\ Kept(u) /\ th'[u].rest = th[u].rest
                   /\ th'[u].alive = th[u].alive /\ th'[u].clean = th[u].clean
  <2>1. /\ th[u] \in Locals(Registered) /\ Placed(th[u], u = EventLoop, Registered)
        /\ th[u].todo \in SUBSET Registered
    BY ThreadGood DEF Locals
  <2>2. PICK S \in SUBSET Registered : S = th[u].todo \ {n}
    BY <2>1
  <2>3. CASE th[u].pc = "look"
    BY <1>3, <1>9, <2>2, <2>3, ScanningGood
  <2>4. CASE th[u].pc # "look"
    <3>1. th'[u] = [th[u] EXCEPT !.todo = S]
      BY <1>3, <1>9, <2>2, <2>4
    <3>2. /\ th'[u] \in Locals(Registered)
          /\ th'[u].pc = th[u].pc /\ th'[u].node = th[u].node
          /\ th'[u].old = th[u].old /\ th'[u].count = th[u].count
          /\ th'[u].rest = th[u].rest /\ th'[u].alive = th[u].alive
          /\ th'[u].back = th[u].back /\ th'[u].clean = th[u].clean
      BY <2>1, <3>1 DEF Locals
    <3>3. Good(th'[u], u = EventLoop, Registered)
      BY <2>1, <2>4, <3>2 DEF Good, Placed
    <3> QED BY <3>2, <3>3 DEF Kept
  <2> QED BY <2>3, <2>4
<1> QED BY <1>1, <1>2, <1>3, <1>7, <1>8, <1>9

\* What becomes of a worker when n gets a new metadata object: it goes on as it
\* was, unless it held the old object or its iteration over the dict ended.
LEMMA InterruptedEffect ==
  ASSUME Types, NEW u \in Thread, NEW n \in Node, NEW through \in BOOLEAN,
         NEW Q, Q = Registered \cup {n}, NEW r, r = Interrupted(u, n, through)
  PROVE  /\ Good(r, u = EventLoop, Q)
         /\ ~ (r.pc = "collect" /\ r.clean)
         /\ \/ r.pc \in {"idle", "look"} /\ (th[u].pc \notin VisitPc \/ th[u].node = n)
            \/ r.pc = "bury" /\ r.node = NoName /\ th[u].node = n
            \/ /\ r.pc = th[u].pc /\ r.node = th[u].node
               /\ r.old = th[u].old /\ r.count = th[u].count
               /\ ~ (th[u].pc \in VisitPc /\ th[u].node = n)
<1>1. PICK left : left = IF n \in Registered THEN th[u].todo \ {n} ELSE {}
  OBVIOUS
<1>2. left \in SUBSET Registered /\ left \in SUBSET Q
  BY <1>1, ThreadGood DEF Locals
<1>3. InVisit(u, n) <=> th[u].node = n /\ th[u].pc \in VisitPc
  BY DEF InVisit, VisitPc, HandlerPc
<1>8. PICK turns : turns = IF th[u].rest = Registered THEN Registered \cup {n}
                                                      ELSE th[u].rest
  OBVIOUS
<1>9. turns \in SUBSET Q
  BY <1>8, ThreadGood DEF Locals
<1>10. Disturbed(u).rest = th[u].rest
  BY ThreadGood DEF Disturbed, Locals
<1>4. \/ InVisit(u, n) /\ r = [Idle EXCEPT !.pc = "bury", !.todo = left]
      \/ InVisit(u, n) /\ r = Scanning(left)
      \/ ~ InVisit(u, n) /\ th[u].pc \in {"look", "collect"} /\ r = Scanning(left)
      \/ /\ ~ InVisit(u, n) /\ th[u].pc # "look"
         /\ r = [Disturbed(u) EXCEPT !.todo = left, !.rest = turns]
  BY <1>1, <1>8, <1>10 DEF Interrupted
<1>5. CASE InVisit(u, n) /\ r = [Idle EXCEPT !.pc = "bury", !.todo = left]
  <2>1. 0 \in 0..MissCap
    BY ClusterAssumption DEF MissCap
  <2>2. r \in Locals(Q) /\ r.pc = "bury" /\ r.node = NoName
    BY <1>2, <1>5, <2>1 DEF Idle, Locals, Step, HealthStatus
  <2>3. Good(r, u = EventLoop, Q)
    BY <2>2 DEF Good, Placed, VisitPc, HandlerPc
  <2> QED BY <1>3, <1>5, <2>2, <2>3
<1>6. CASE r = Scanning(left) /\ (InVisit(u, n) \/ th[u].pc \in {"look", "collect"})
  <2>1. Good(r, u = EventLoop, Q) /\ r.pc \in {"idle", "look"}
    BY <1>2, <1>6, ScanningGood
  <2> QED BY <1>3, <1>6, <2>1 DEF VisitPc, HandlerPc
<1>7. CASE /\ ~ InVisit(u, n) /\ th[u].pc # "look"
           /\ r = [Disturbed(u) EXCEPT !.todo = left, !.rest = turns]
  <2>1. PICK d : d = Disturbed(u)
    OBVIOUS
  <2>2. /\ Good(d, u = EventLoop, Registered)
        /\ d.pc = th[u].pc /\ d.node = th[u].node
        /\ d.old = th[u].old /\ d.count = th[u].count
        /\ ~ (d.pc = "collect" /\ d.clean)
    BY <2>1, ThreadGood, DisturbedGood
  <2>6. Good(d, u = EventLoop, Q)
    BY <2>2, GoodGrows
  <2>7. PICK e : e = [d EXCEPT !.todo = left]
    OBVIOUS
  <2>8. r = [e EXCEPT !.rest = turns]
    BY <1>7, <2>1, <2>6, <2>7 DEF Good, Locals
  <2>9. /\ e \in Locals(Q) /\ e.pc = d.pc /\ e.node = d.node
        /\ e.old = d.old /\ e.count = d.count
        /\ e.back = d.back /\ e.clean = d.clean
    BY <1>2, <2>6, <2>7 DEF Good, Locals
  <2>3. /\ r \in Locals(Q) /\ r.pc = d.pc /\ r.node = d.node
        /\ r.old = d.old /\ r.count = d.count
        /\ r.back = d.back /\ r.clean = d.clean
    BY <1>9, <2>8, <2>9 DEF Locals
  <2>5. Good(r, u = EventLoop, Q)
    BY <1>7, <2>2, <2>3, <2>6 DEF Good, Placed
  <2> QED BY <1>3, <1>7, <2>2, <2>3, <2>5
<1> QED BY <1>4, <1>5, <1>6, <1>7

\* The metadata of n is new; a node that was not known is last in the dict.
LEMMA StoreState ==
  ASSUME Types, NEW n \in Node, NEW b, StoreMetadata(n, b)
  PROVE  /\ status' \in [Node -> HealthStatus \cup {"unregistered"}]
         /\ silence' \in [Node -> 0..SilenceCap]
         /\ failed_attempts' \in [Node -> 0..MissCap]
         /\ before' \in SUBSET (Node \X Node)
         /\ \A m \in Node : status'[m] = IF m = n THEN "alive" ELSE status[m]
         /\ \A m \in Node : failed_attempts'[m] = IF m = n THEN 0 ELSE failed_attempts[m]
         /\ Registered' = Registered \cup {n}
         /\ Ordered'
<1>0. 0 \in 0..MissCap /\ 0 \in 0..SilenceCap
  BY ClusterAssumption DEF MissCap
<1>1. /\ status' \in [Node -> HealthStatus \cup {"unregistered"}]
      /\ silence' \in [Node -> 0..SilenceCap]
      /\ failed_attempts' \in [Node -> 0..MissCap]
      /\ \A m \in Node : status'[m] = IF m = n THEN "alive" ELSE status[m]
      /\ \A m \in Node : failed_attempts'[m] = IF m = n THEN 0 ELSE failed_attempts[m]
  BY <1>0 DEF StoreMetadata, Types, HealthStatus
<1>2. Registered' = Registered \cup {n}
  BY <1>1 DEF Registered
<1>3. before' \in SUBSET (Node \X Node)
  BY DEF StoreMetadata, Types, Registered
<1>4. Ordered'
  <2> SUFFICES ASSUME NEW S \in SUBSET (Registered \cup {n}), S # {}
               PROVE  \E x \in S : \A y \in S \ {x} : <<x, y>> \in before'
    BY <1>2 DEF Ordered
  <2>1. CASE n \in Registered
    BY <2>1 DEF StoreMetadata, Types, Ordered
  <2>2. CASE n \notin Registered
    <3>1. before' = before \cup (Registered \X {n})
      BY <2>2 DEF StoreMetadata
    <3>2. CASE S \ {n} = {}
      BY <3>2
    <3>3. CASE S \ {n} # {}
      <4>1. PICK x \in S \ {n} : \A y \in (S \ {n}) \ {x} : <<x, y>> \in before
        BY <3>3 DEF Types, Ordered
      <4>2. x \in Registered
        BY <4>1
      <4>3. ASSUME NEW y \in S \ {x} PROVE <<x, y>> \in before'
        BY <3>1, <4>1, <4>2, <4>3
      <4> QED BY <4>1, <4>3
    <3> QED BY <3>2, <3>3
  <2> QED BY <2>1, <2>2
<1> QED BY <1>1, <1>2, <1>3, <1>4

\* register_node rebuilds the ring, and interrupts the workers.
LEMMA StoreEffect ==
  ASSUME Types, NEW n \in Node, NEW b \in {"idle", "hear"}, StoreMetadata(n, b)
  PROVE  /\ th' = [u \in Thread |-> th'[u]]
         /\ th[EventLoop].pc = "idle"
         /\ Good(th'[EventLoop], TRUE, Registered')
         /\ th'[EventLoop].pc = "collect"
         /\ th'[EventLoop].rest = Registered' /\ th'[EventLoop].alive = {}
         /\ \A u \in Thread : u # EventLoop =>
               /\ Good(th'[u], u = EventLoop, Registered')
               /\ ~ (th'[u].pc = "collect" /\ th'[u].clean)
               /\ \/ /\ th'[u].pc \in {"idle", "look"}
                     /\ th[u].pc \notin VisitPc \/ th[u].node = n
                  \/ th'[u].pc = "bury" /\ th'[u].node = NoName /\ th[u].node = n
                  \/ Kept(u) /\ ~ (th[u].pc \in VisitPc /\ th[u].node = n)
<1>0. EventLoop \in Thread /\ 0 \in 0..MissCap
  BY ClusterAssumption DEF Thread, MissCap
<1>1. PICK Q : Q = Registered \cup {n} /\ Q = Registered'
  BY StoreState
<1>2. PICK through \in SUBSET Worker :
        th' = [u \in Thread |->
                  IF u = EventLoop
                  THEN [Rebuilding(u, Registered \cup {n}, b) EXCEPT
                           !.node = IF b = "hear" THEN n ELSE NoName]
                  ELSE Interrupted(u, n, u \in through)]
  BY DEF StoreMetadata
<1>3. /\ th' = [u \in Thread |-> th'[u]]
      /\ \A u \in Thread : u # EventLoop => th'[u] = Interrupted(u, n, u \in through)
  BY <1>2
<1>4. PICK x \in Node \cup {NoName} :
        x = (IF b = "hear" THEN n ELSE NoName)
        /\ th'[EventLoop] = [Rebuilding(EventLoop, Q, b) EXCEPT !.node = x]
  BY <1>0, <1>1, <1>2
<1>5. th[EventLoop].todo \in SUBSET Q /\ th[EventLoop].pc = "idle"
  BY <1>0, <1>1, ThreadGood DEF Locals, StoreMetadata
<1>6. PICK r : r = th'[EventLoop]
  OBVIOUS
<1>7. /\ r \in Locals(Q) /\ r.pc = "collect" /\ r.rest = Q /\ r.alive = {}
      /\ r.back = b /\ r.node = x
  BY <1>0, <1>4, <1>5, <1>6 DEF Rebuilding, Idle, Locals, Step, HealthStatus
<1>8. Good(r, TRUE, Q)
  BY <1>1, <1>4, <1>7 DEF Good, Placed, VisitPc, HandlerPc
<1>9. ASSUME NEW u \in Thread, u # EventLoop
      PROVE  /\ Good(th'[u], u = EventLoop, Q)
             /\ ~ (th'[u].pc = "collect" /\ th'[u].clean)
             /\ \/ /\ th'[u].pc \in {"idle", "look"}
                   /\ th[u].pc \notin VisitPc \/ th[u].node = n
                \/ th'[u].pc = "bury" /\ th'[u].node = NoName /\ th[u].node = n
                \/ Kept(u) /\ ~ (th[u].pc \in VisitPc /\ th[u].node = n)
  <2>3. PICK y \in BOOLEAN : y <=> u \in through
    <3>1. CASE u \in through
      BY <3>1
    <3>2. CASE u \notin through
      BY <3>2
    <3> QED BY <3>1, <3>2
  <2>4. Interrupted(u, n, u \in through) = Interrupted(u, n, y)
    BY <2>3 DEF Interrupted
  <2>1. PICK q : q = th'[u] /\ q = Interrupted(u, n, y)
    BY <1>3, <1>9, <2>4
  <2>2. /\ Good(q, u = EventLoop, Q)
        /\ ~ (q.pc = "collect" /\ q.clean)
        /\ \/ q.pc \in {"idle", "look"} /\ (th[u].pc \notin VisitPc \/ th[u].node = n)
           \/ q.pc = "bury" /\ q.node = NoName /\ th[u].node = n
           \/ /\ q.pc = th[u].pc /\ q.node = th[u].node
              /\ q.old = th[u].old /\ q.count = th[u].count
              /\ ~ (th[u].pc \in VisitPc /\ th[u].node = n)
    BY <1>1, <2>1, InterruptedEffect
  <2> QED BY <2>1, <2>2 DEF Kept
<1> QED BY <1>1, <1>3, <1>5, <1>6, <1>7, <1>8, <1>9

-----------------------------------------------------------------------------
(* The types. *)

\* A step of one thread that keeps its own locals good keeps all of them good.
LEMMA OnlyTypes ==
  ASSUME Types, NEW t \in Thread, Only(t), Registered' = Registered,
         Good(th'[t], t = EventLoop, Registered)
  PROVE  /\ th' = [u \in Thread |-> th'[u]]
         /\ \A u \in Thread : Good(th'[u], u = EventLoop, Registered')
<1>1. \A u \in Thread : th'[u] = IF u = t THEN th'[t] ELSE th[u]
  BY DEF Only
<1>2. th' = [u \in Thread |-> th'[u]]
  BY DEF Only
<1>3. ASSUME NEW u \in Thread PROVE Good(th'[u], u = EventLoop, Registered')
  <2>1. CASE u = t
    BY <1>1, <2>1
  <2>2. CASE u # t
    BY <1>1, <2>2, ThreadGood
  <2> QED BY <2>1, <2>2
<1> QED BY <1>2, <1>3

\* The node that has registered when the model starts is alone in the dict.
LEMMA InitTypes == ThreadsInit => Types
<1> SUFFICES ASSUME ThreadsInit PROVE Types
  OBVIOUS
<1>0. 0 \in 0..MissCap /\ 0 \in 0..SilenceCap
  BY ClusterAssumption DEF MissCap
<1>1. Registered = {Founder}
  BY ThreadAssumption DEF ThreadsInit, Registered
<1>2. Ordered
  BY <1>1 DEF Ordered
<1>3. \A t \in Thread : Good(th[t], t = EventLoop, Registered)
  BY IdleGood DEF ThreadsInit
<1> QED BY <1>0, <1>2, <1>3, ThreadAssumption DEF ThreadsInit, Types, HealthStatus

\* Steps that change nothing but the locals of the thread t.
Quiet(t) ==
    \/ BeginScan(t) \/ Look(t) \/ Note(t) \/ ReadMisses(t) \/ Judge(t) \/ Collect(t)
    \/ /\ t = EventLoop
       /\ \/ Weigh
          \/ Ask("ask_dead", "dead", "recover", "ask_suspect")
          \/ Ask("ask_suspect", "suspect", "return", "compare")
          \/ Compare

\* They do so.
LEMMA QuietEffect ==
  ASSUME Types, NEW t \in Thread, Quiet(t)
  PROVE  /\ Only(t)
         /\ Good(th'[t], t = EventLoop, Registered)
         /\ UNCHANGED <<status, silence, failed_attempts, before, hash_ring, trusted>>
<1>1. UNCHANGED <<status, silence, failed_attempts, before, hash_ring, trusted>>
  BY DEF Quiet, BeginScan, Look, Note, ReadMisses, Judge, Collect, Weigh, Ask,
         Compare, vars
<1>2. CASE BeginScan(t)
  BY <1>1, <1>2, BeginScanEffect
<1>3. CASE Look(t)
  BY <1>1, <1>3, LookEffect
<1>4. CASE Note(t)
  BY <1>1, <1>4, NoteEffect
<1>5. CASE ReadMisses(t)
  BY <1>1, <1>5, ReadMissesEffect
<1>6. CASE Judge(t)
  BY <1>1, <1>6, JudgeEffect
<1>7. CASE Collect(t)
  BY <1>1, <1>7, CollectEffect
<1>8. ASSUME t = EventLoop, Good(th'[EventLoop], TRUE, Registered)
      PROVE  Good(th'[t], t = EventLoop, Registered)
  BY <1>8
<1>9. CASE t = EventLoop /\ Weigh
  BY <1>1, <1>8, <1>9, WeighEffect
<1>10. CASE t = EventLoop /\ Compare
  BY <1>1, <1>8, <1>10, CompareEffect
<1>11. {"ask_dead", "ask_suspect", "recover", "return", "compare"} \subseteq HandlerPc
  BY DEF HandlerPc
<1>12. CASE t = EventLoop /\ Ask("ask_dead", "dead", "recover", "ask_suspect")
  BY <1>1, <1>8, <1>11, <1>12, AskEffect
<1>13. CASE t = EventLoop /\ Ask("ask_suspect", "suspect", "return", "compare")
  BY <1>1, <1>8, <1>11, <1>13, AskEffect
<1> QED BY <1>2, <1>3, <1>4, <1>5, <1>6, <1>7, <1>9, <1>10, <1>12, <1>13 DEF Quiet

\* Every step is one of these.
LEMMA Cases ==
  ASSUME [ThreadsNext]_threadVars
  PROVE  \/ \E t \in Thread : Quiet(t) /\ Watch
         \/ \E t \in Thread : (WriteMisses(t) \/ Doubt(t) \/ Install(t) \/ Bury(t)) /\ Watch
         \/ \E n \in Node, b \in {"idle", "hear"} : StoreMetadata(n, b) /\ Watch
         \/ \E n \in Node : Hear(n) /\ Watch
         \/ Revive("recover", "recovered") /\ Watch
         \/ Revive("return", "alive") /\ Watch
         \/ TimePasses /\ Watch
         \/ UNCHANGED threadVars
<1>0. EventLoop \in Thread
  BY DEF Thread
<1>1. ASSUME NEW t \in Thread, BeginScan(t) \/ ScanStep(t), Watch
      PROVE  (Quiet(t) \/ WriteMisses(t) \/ Doubt(t) \/ Install(t) \/ Bury(t)) /\ Watch
  BY <1>1 DEF ScanStep, Quiet
<1>2. ASSUME NEW n \in Node, Register(n) \/ RegisterAndHear(n) \/ Hear(n)
      PROVE  Hear(n) \/ \E b \in {"idle", "hear"} : StoreMetadata(n, b)
  BY <1>2 DEF Register, RegisterAndHear
<1>3. ASSUME HandlerStep
      PROVE  \/ \E n \in Node : Hear(n)
             \/ Quiet(EventLoop)
             \/ Revive("recover", "recovered") \/ Revive("return", "alive")
  BY <1>3 DEF HandlerStep, Quiet
<1> QED BY <1>0, <1>1, <1>2, <1>3 DEF ThreadsNext

\* Every step keeps the types.
LEMMA TypesStep == Types /\ [ThreadsNext]_threadVars => Types'
<1> SUFFICES ASSUME Types, [ThreadsNext]_threadVars PROVE Types'
  OBVIOUS
<1>0. EventLoop \in Thread
  BY DEF Thread
<1>1. ASSUME UNCHANGED <<status, before>> PROVE Registered' = Registered /\ Ordered'
  BY <1>1 DEF Registered, Ordered, Types
<1>2. ASSUME NEW t \in Thread, Quiet(t) PROVE Types'
  BY <1>1, <1>2, QuietEffect, OnlyTypes DEF Types
<1>3. ASSUME NEW t \in Thread, WriteMisses(t) PROVE Types'
  <2>1. UNCHANGED <<status, silence, before, hash_ring, trusted>>
    BY <1>3 DEF WriteMisses
  <2> QED BY <1>1, <1>3, <2>1, WriteMissesEffect, OnlyTypes DEF Types
<1>4. ASSUME NEW t \in Thread, Doubt(t) PROVE Types'
  <2>1. UNCHANGED <<silence, failed_attempts, before, hash_ring, trusted>>
    BY <1>4 DEF Doubt
  <2>2. Ordered'
    BY <1>4, <2>1, DoubtEffect DEF Ordered, Types
  <2> QED BY <1>4, <2>1, <2>2, DoubtEffect, OnlyTypes DEF Types
<1>5. ASSUME NEW t \in Thread, Install(t) PROVE Types'
  <2>1. UNCHANGED <<status, silence, failed_attempts, before>>
    BY <1>5 DEF Install
  <2>2. hash_ring' \in SUBSET Node /\ trusted' \in BOOLEAN
    BY <1>5, InstallEffect DEF Registered
  <2> QED BY <1>1, <1>5, <2>1, <2>2, InstallEffect, OnlyTypes DEF Types
<1>6. ASSUME NEW t \in Thread, Bury(t) PROVE Types'
  <2>1. UNCHANGED <<silence, failed_attempts, before, hash_ring, trusted>>
    BY <1>6 DEF Bury
  <2>2. Ordered'
    BY <1>6, <2>1, BuryEffect DEF Ordered, Types
  <2>3. \A u \in Thread : Good(th'[u], u = EventLoop, Registered')
    BY <1>6, BuryEffect
  <2>4. th' = [u \in Thread |-> th'[u]]
        /\ status' \in [Node -> HealthStatus \cup {"unregistered"}]
    BY <1>6, BuryEffect
  <2> QED BY <2>1, <2>2, <2>3, <2>4 DEF Types
<1>7. ASSUME NEW pc \in HandlerPc, NEW s \in HealthStatus, Revive(pc, s) PROVE Types'
  <2>1. UNCHANGED <<silence, failed_attempts, before, hash_ring>>
    BY <1>7 DEF Revive
  <2>2. Ordered'
    BY <1>7, <2>1, ReviveEffect DEF Ordered, Types
  <2>3. Good(th'[EventLoop], TRUE, Registered')
    BY <1>7, ReviveEffect
  <2>4. \A u \in Thread : u # EventLoop => Good(th'[u], u = EventLoop, Registered')
    BY <1>7, ReviveEffect
  <2>5. /\ th' = [u \in Thread |-> th'[u]]
        /\ status' \in [Node -> HealthStatus \cup {"unregistered"}]
        /\ trusted' \in BOOLEAN
    BY <1>7, ReviveEffect
  <2>6. \A u \in Thread : Good(th'[u], u = EventLoop, Registered')
    BY <2>3, <2>4
  <2> QED BY <2>1, <2>2, <2>5, <2>6 DEF Types
<1>8. ASSUME NEW n \in Node, Hear(n) PROVE Types'
  <2>1. UNCHANGED <<status, before, hash_ring, trusted>>
    BY <1>8 DEF Hear
  <2>2. Registered' = Registered /\ Ordered'
    BY <1>1, <2>1
  <2>3. Good(th'[EventLoop], TRUE, Registered')
    BY <1>8, <2>2, HearEffect
  <2>4. \A u \in Thread : u # EventLoop => Good(th'[u], u = EventLoop, Registered')
    BY <1>8, <2>2, HearEffect
  <2>5. \A u \in Thread : Good(th'[u], u = EventLoop, Registered')
    BY <2>3, <2>4
  <2> QED BY <1>8, <2>1, <2>2, <2>5, HearEffect DEF Types
<1>9. ASSUME NEW n \in Node, NEW b \in {"idle", "hear"}, StoreMetadata(n, b) PROVE Types'
  <2>1. UNCHANGED <<hash_ring, trusted>>
    BY <1>9 DEF StoreMetadata
  <2>2. Good(th'[EventLoop], TRUE, Registered')
    BY <1>9, StoreEffect
  <2>3. \A u \in Thread : u # EventLoop => Good(th'[u], u = EventLoop, Registered')
    BY <1>9, StoreEffect
  <2>4. \A u \in Thread : Good(th'[u], u = EventLoop, Registered')
    BY <2>2, <2>3
  <2>5. th' = [u \in Thread |-> th'[u]]
    BY <1>9, StoreEffect
  <2> QED BY <1>9, <2>1, <2>4, <2>5, StoreState DEF Types
<1>10. ASSUME TimePasses PROVE Types'
  <2>1. UNCHANGED <<status, failed_attempts, before, hash_ring, th, trusted>>
    BY <1>10 DEF TimePasses, Tick
  <2>2. silence' \in [Node -> 0..SilenceCap]
    BY <1>10, ClusterAssumption DEF TimePasses, Tick, Types
  <2> QED BY <1>1, <2>1, <2>2 DEF Types
<1>11. ASSUME UNCHANGED threadVars PROVE Types'
  BY <1>1, <1>11 DEF threadVars, vars, Types
<1>12. /\ "recover" \in HandlerPc /\ "return" \in HandlerPc
       /\ "recovered" \in HealthStatus /\ "alive" \in HealthStatus
  BY DEF HandlerPc, HealthStatus
<1> QED BY <1>2, <1>3, <1>4, <1>5, <1>6, <1>7, <1>8, <1>9, <1>10, <1>11, <1>12, Cases

-----------------------------------------------------------------------------
(* The ring. *)

\* The ring of the initial state is the node that has registered.
LEMMA InitRing == ThreadsInit => RingInv
<1> SUFFICES ASSUME ThreadsInit PROVE RingInv
  OBVIOUS
<1>1. \A t \in Thread : th[t].pc = "idle"
  BY IdleGood DEF ThreadsInit
<1>2. \A n \in Node : Routed(n)
  BY ThreadAssumption DEF ThreadsInit, Routed
<1> QED BY <1>1, <1>2 DEF RingInv, CollectsWell

\* A thread outside rebuild and comparison that does not begin a rebuild, and
\* leaves statuses and ring alone, cannot make the ring wrong.
LEMMA RingFrame ==
  ASSUME RingInv, NEW t \in Thread, Only(t),
         UNCHANGED <<status, hash_ring, trusted>>,
         th[t].pc \notin {"collect", "compare"}, th'[t].pc # "collect"
  PROVE  RingInv'
<1>1. \A u \in Thread : u # t => th'[u] = th[u]
  BY DEF Only
<1>2. Registered' = Registered
  BY DEF Registered
<1>3. ASSUME NEW u \in Thread PROVE CollectsWell(u)'
  <2>1. CASE u = t
    BY <2>1 DEF CollectsWell
  <2>2. CASE u # t
    BY <1>1, <1>2, <2>2 DEF CollectsWell, RingInv
  <2> QED BY <2>1, <2>2
<1>4. ASSUME trusted', Collectors' = {}, NEW n \in Node
      PROVE  Routed(n)' \/ AboutToRebuild(n)'
  <2>1. Collectors = {}
    <3> SUFFICES ASSUME NEW u \in Thread, th[u].pc = "collect" PROVE FALSE
      BY DEF Collectors
    <3>1. u # t /\ th'[u].pc = "collect"
      BY <1>1
    <3> QED BY <1>4, <3>1 DEF Collectors
  <2>2. Routed(n) \/ AboutToRebuild(n)
    BY <1>4, <2>1 DEF RingInv
  <2>3. CASE Routed(n)
    BY <2>3 DEF Routed
  <2>4. CASE AboutToRebuild(n)
    <3>1. EventLoop # t /\ EventLoop \in Thread
      BY <2>4 DEF AboutToRebuild, Thread
    <3> QED BY <1>1, <2>4, <3>1 DEF AboutToRebuild
  <2> QED BY <2>2, <2>3, <2>4
<1> QED BY <1>3, <1>4 DEF RingInv

\* One more node of a rebuild that is not disturbed is as it was read.
LEMMA CollectRing ==
  ASSUME Types, RingInv, NEW t \in Thread, Collect(t)
  PROVE  RingInv'
<1> USE CollectEffect
<1>0. UNCHANGED <<status, hash_ring, trusted>>
  BY DEF Collect, vars
<1>1. \A u \in Thread : u # t => th'[u] = th[u]
  BY DEF Only
<1>2. Registered' = Registered
  BY <1>0 DEF Registered
<1>3. PICK n \in th[t].rest :
        /\ th'[t].rest = th[t].rest \ {n}
        /\ th'[t].alive = IF status[n] = "alive" THEN th[t].alive \cup {n} ELSE th[t].alive
  OBVIOUS
<1>4. CollectsWell(t)'
  BY <1>0, <1>2, <1>3 DEF RingInv, CollectsWell
<1>5. ASSUME NEW u \in Thread, u # t PROVE CollectsWell(u)'
  BY <1>0, <1>1, <1>2, <1>5 DEF RingInv, CollectsWell
<1>6. Collectors' # {}
  BY DEF Collectors
<1> QED BY <1>4, <1>5, <1>6 DEF RingInv

\* A ring that nobody disturbed the rebuild of is right about every node.
LEMMA InstallRing ==
  ASSUME Types, RingInv, NEW t \in Thread, Install(t)
  PROVE  RingInv'
<1> USE InstallEffect
<1>0. UNCHANGED status
  BY DEF Install
<1>1. \A u \in Thread : u # t => th'[u] = th[u]
  BY DEF Only
<1>2. Registered' = Registered
  BY <1>0 DEF Registered
<1>3. CollectsWell(t)'
  BY DEF CollectsWell
<1>4. ASSUME NEW u \in Thread, u # t PROVE CollectsWell(u)'
  BY <1>0, <1>1, <1>2, <1>4 DEF RingInv, CollectsWell
<1>5. ASSUME trusted', NEW n \in Node PROVE Routed(n)'
  <2>1. th[t].clean /\ CollectsWell(t)
    BY <1>5 DEF RingInv
  <2>2. /\ \A m \in th[t].alive : status[m] \in {"alive", "suspect"}
        /\ \A m \in Registered : status[m] = "alive" => m \in th[t].alive
    BY <2>1 DEF CollectsWell
  <2>3. status[n] = "alive" => n \in Registered
    BY DEF Registered
  <2> QED BY <1>0, <2>2, <2>3 DEF Routed
<1> QED BY <1>3, <1>4, <1>5 DEF RingInv

\* SUSPECT is right on the ring and off it, whatever the status was.
LEMMA DoubtRing ==
  ASSUME Types, RingInv, NEW t \in Thread, Doubt(t)
  PROVE  RingInv'
<1> USE DoubtEffect
<1>0. UNCHANGED <<hash_ring, trusted>>
  BY DEF Doubt
<1>1. \A u \in Thread : u # t => th'[u] = th[u]
  BY DEF Only
<1>2. \A n \in Node : status'[n] = status[n] \/ status'[n] = "suspect"
  OBVIOUS
<1>3. CollectsWell(t)'
  BY DEF CollectsWell
<1>4. ASSUME NEW u \in Thread, u # t PROVE CollectsWell(u)'
  <2>1. th[u].alive \in SUBSET Node /\ Registered \in SUBSET Node
    BY ThreadGood DEF Locals, Registered
  <2> QED BY <1>1, <1>2, <1>4, <2>1 DEF RingInv, CollectsWell
<1>5. ASSUME trusted', Collectors' = {}, NEW n \in Node
      PROVE  Routed(n)' \/ AboutToRebuild(n)'
  <2>1. Collectors = {}
    <3> SUFFICES ASSUME NEW u \in Thread, th[u].pc = "collect" PROVE FALSE
      BY DEF Collectors
    <3>1. u # t /\ th'[u].pc = "collect"
      BY <1>1
    <3> QED BY <1>5, <3>1 DEF Collectors
  <2>2. Routed(n) \/ AboutToRebuild(n)
    BY <1>0, <1>5, <2>1 DEF RingInv
  <2>3. CASE status'[n] = "suspect"
    BY <2>3 DEF Routed
  <2>4. CASE status'[n] = status[n] /\ Routed(n)
    BY <1>0, <2>4 DEF Routed
  <2>5. CASE status'[n] = status[n] /\ AboutToRebuild(n)
    <3>1. EventLoop # t /\ EventLoop \in Thread
      BY <2>5 DEF AboutToRebuild, Thread
    <3> QED BY <1>1, <2>5, <3>1 DEF AboutToRebuild
  <2> QED BY <1>2, <2>2, <2>3, <2>4, <2>5
<1> QED BY <1>3, <1>4, <1>5 DEF RingInv

\* A rebuild that begins has seen nothing yet; the others are as they were or
\* are no longer clean.
LEMMA RebuildRing ==
  ASSUME RingInv, NEW t \in Thread,
         th'[t].pc = "collect", th'[t].rest = Registered', th'[t].alive = {},
         \A u \in Thread : u # t => \/ /\ status' = status
                                       /\ th'[u] = th[u]
                                    \/ ~ (th'[u].pc = "collect" /\ th'[u].clean)
  PROVE  RingInv'
<1>1. CollectsWell(t)'
  BY DEF CollectsWell
<1>2. ASSUME NEW u \in Thread, u # t PROVE CollectsWell(u)'
  <2>1. CASE ~ (th'[u].pc = "collect" /\ th'[u].clean)
    BY <2>1 DEF CollectsWell
  <2>2. CASE status' = status /\ th'[u] = th[u]
    BY <2>2 DEF RingInv, CollectsWell, Registered
  <2> QED BY <1>2, <2>1, <2>2
<1>3. Collectors' # {}
  BY DEF Collectors
<1> QED BY <1>1, <1>2, <1>3 DEF RingInv

\* The handler ends only when the ring is right about its node as well.
LEMMA CompareRing ==
  ASSUME Types, RingInv, Compare
  PROVE  RingInv'
<1> USE CompareEffect
<1>0. UNCHANGED <<status, hash_ring, trusted>> /\ EventLoop \in Thread
  BY DEF Compare, vars, Thread
<1>1. \A u \in Thread : u # EventLoop => th'[u] = th[u]
  BY DEF Only
<1>2. Registered' = Registered
  BY <1>0 DEF Registered
<1>3. CASE th'[EventLoop].pc = "collect"
  <2>1. th'[EventLoop].rest = Registered' /\ th'[EventLoop].alive = {}
    BY <1>2, <1>3
  <2> QED BY <1>0, <1>1, <1>3, <2>1, RebuildRing
<1>4. CASE th'[EventLoop].pc = "idle"
  <2>1. th[EventLoop].old = status[th[EventLoop].node]
    BY <1>4
  <2>2. ASSUME NEW u \in Thread PROVE CollectsWell(u)'
    <3>1. CASE u = EventLoop
      BY <1>4, <3>1 DEF CollectsWell
    <3>2. CASE u # EventLoop
      BY <1>0, <1>1, <1>2, <3>2 DEF CollectsWell, RingInv
    <3> QED BY <3>1, <3>2
  <2>3. ASSUME trusted', Collectors' = {}, NEW n \in Node PROVE Routed(n)'
    <3>1. Collectors = {}
      <4> SUFFICES ASSUME NEW u \in Thread, th[u].pc = "collect" PROVE FALSE
        BY DEF Collectors
      <4>1. u # EventLoop /\ th'[u].pc = "collect"
        BY <1>1
      <4> QED BY <2>3, <4>1 DEF Collectors
    <3>2. Routed(n) \/ AboutToRebuild(n)
      BY <1>0, <2>3, <3>1 DEF RingInv
    <3> QED BY <1>0, <2>1, <3>2 DEF AboutToRebuild, Routed
  <2> QED BY <2>2, <2>3 DEF RingInv
<1> QED BY <1>3, <1>4

\* A handler that changes a status disturbs every rebuild, and will rebuild the
\* ring itself or has made trusted false.
LEMMA ReviveRing ==
  ASSUME Types, RingInv, NEW pc \in HandlerPc \ {"compare"}, NEW s \in HealthStatus,
         Revive(pc, s)
  PROVE  RingInv'
<1> USE ReviveEffect
<1>0. hash_ring' = hash_ring /\ EventLoop \in Thread
  BY DEF Revive, Thread
<1>1. ASSUME NEW u \in Thread PROVE CollectsWell(u)'
  BY <1>1 DEF CollectsWell
<1>2. ASSUME trusted', Collectors' = {}, NEW n \in Node
      PROVE  Routed(n)' \/ AboutToRebuild(n)'
  <2>1. Collectors = {}
    <3> SUFFICES ASSUME NEW u \in Thread, th[u].pc = "collect" PROVE FALSE
      BY DEF Collectors
    <3>1. th[EventLoop].pc # "collect"
      BY DEF HandlerPc
    <3>2. th'[u].pc = "collect"
      BY <3>1 DEF Kept
    <3> QED BY <1>2, <3>2 DEF Collectors
  <2>2. Routed(n) \/ AboutToRebuild(n)
    BY <1>2, <2>1 DEF RingInv
  <2>3. Routed(n)
    BY <2>2 DEF AboutToRebuild
  <2>4. CASE n = th[EventLoop].node
    BY <1>2, <2>4 DEF AboutToRebuild
  <2>5. CASE n # th[EventLoop].node
    BY <1>0, <2>3, <2>5 DEF Routed
  <2> QED BY <2>4, <2>5
<1> QED BY <1>1, <1>2 DEF RingInv

\* A heartbeat that is heard changes no status.
LEMMA HearRing ==
  ASSUME Types, RingInv, NEW n \in Node, Hear(n)
  PROVE  RingInv'
<1> USE HearEffect
<1>0. UNCHANGED <<status, hash_ring, trusted>> /\ EventLoop \in Thread
  BY DEF Hear, Thread
<1>1. Registered' = Registered
  BY <1>0 DEF Registered
<1>2. ASSUME NEW u \in Thread PROVE CollectsWell(u)'
  <2>1. CASE u = EventLoop
    BY <2>1 DEF CollectsWell
  <2>2. CASE u # EventLoop
    BY <1>0, <1>1, <2>2 DEF CollectsWell, RingInv, Kept
  <2> QED BY <2>1, <2>2
<1>3. ASSUME trusted', Collectors' = {}, NEW m \in Node PROVE Routed(m)'
  <2>1. Collectors = {}
    <3> SUFFICES ASSUME NEW u \in Thread, th[u].pc = "collect" PROVE FALSE
      BY DEF Collectors
    <3>1. th'[u].pc = "collect"
      BY DEF Kept
    <3> QED BY <1>3, <3>1 DEF Collectors
  <2>2. Routed(m) \/ AboutToRebuild(m)
    BY <1>0, <1>3, <2>1 DEF RingInv
  <2> QED BY <1>0, <2>2 DEF AboutToRebuild, Routed
<1> QED BY <1>2, <1>3 DEF RingInv

\* Every step keeps the ring as right as RingInv says.
LEMMA RingStep == Types /\ RingInv /\ [ThreadsNext]_threadVars => RingInv'
<1> SUFFICES ASSUME Types, RingInv, [ThreadsNext]_threadVars PROVE RingInv'
  OBVIOUS
<1>0. EventLoop \in Thread
  BY DEF Thread
<1>1. ASSUME NEW t \in Thread, Quiet(t) PROVE RingInv'
  <2>1. Only(t) /\ UNCHANGED <<status, hash_ring, trusted>>
    BY <1>1, QuietEffect
  <2>2. CASE BeginScan(t) \/ Look(t) \/ Note(t) \/ ReadMisses(t) \/ Judge(t)
    BY <2>1, <2>2, BeginScanEffect, LookEffect, NoteEffect, ReadMissesEffect,
       JudgeEffect, RingFrame
  <2>3. CASE Collect(t)
    BY <2>3, CollectRing
  <2>4. CASE t = EventLoop /\ Weigh
    BY <2>1, <2>4, WeighEffect, RingFrame
  <2>5. {"ask_dead", "ask_suspect", "recover", "return", "compare"} \subseteq HandlerPc
    BY DEF HandlerPc
  <2>6. CASE t = EventLoop /\ Ask("ask_dead", "dead", "recover", "ask_suspect")
    <3>1. th[t].pc = "ask_dead" /\ th'[t].pc \in {"recover", "ask_suspect"}
      BY <2>5, <2>6, AskEffect
    <3> QED BY <2>1, <3>1, RingFrame
  <2>7. CASE t = EventLoop /\ Ask("ask_suspect", "suspect", "return", "compare")
    <3>1. th[t].pc = "ask_suspect" /\ th'[t].pc \in {"return", "compare"}
      BY <2>5, <2>7, AskEffect
    <3> QED BY <2>1, <3>1, RingFrame
  <2>8. CASE t = EventLoop /\ Compare
    BY <2>8, CompareRing
  <2> QED BY <1>1, <2>2, <2>3, <2>4, <2>6, <2>7, <2>8 DEF Quiet
<1>2. ASSUME NEW t \in Thread, WriteMisses(t) PROVE RingInv'
  <2>1. UNCHANGED <<status, hash_ring, trusted>>
    BY <1>2 DEF WriteMisses
  <2> QED BY <1>2, <2>1, WriteMissesEffect, RingFrame
<1>3. ASSUME NEW t \in Thread, Bury(t) PROVE RingInv'
  BY <1>3, BuryEffect, RebuildRing
<1>4. ASSUME NEW n \in Node, NEW b \in {"idle", "hear"}, StoreMetadata(n, b) PROVE RingInv'
  BY <1>0, <1>4, StoreEffect, RebuildRing
<1>5. ASSUME TimePasses \/ UNCHANGED threadVars PROVE RingInv'
  <2>1. UNCHANGED <<status, hash_ring, th, trusted>>
    BY <1>5 DEF TimePasses, Tick, threadVars, vars
  <2> QED BY <2>1 DEF RingInv, CollectsWell, Collectors, Routed, AboutToRebuild, Registered
<1>6. /\ "recover" \in HandlerPc \ {"compare"} /\ "return" \in HandlerPc \ {"compare"}
      /\ "recovered" \in HealthStatus /\ "alive" \in HealthStatus
  BY DEF HandlerPc, HealthStatus
<1> QED BY <1>1, <1>2, <1>3, <1>4, <1>5, <1>6, DoubtRing, InstallRing, HearRing,
           ReviveRing, Cases

-----------------------------------------------------------------------------
(* The counter and the status of one node. *)

\* n is not crossed after a step: it was not before, or a visit begins.
Due(n) ==
    \/ Told(n)
    \/ /\ \A t \in Thread : ~ InVisit(t, n)
       /\ \E t \in Thread : InVisit(t, n)'

\* No two threads are at work on n after a step.
AloneAfter(n) == \A t, u \in Thread : InVisit(t, n)' /\ InVisit(u, n)' => t = u

\* A thread in a visit to a node that is not crossed is on course.
LEMMA VisitorOnCourse ==
  ASSUME NEW n, NEW t \in Thread, InVisit(t, n), Due(n)
  PROVE  Told(n) /\ OnCourse(t, n)
  BY DEF Due, Told

\* Nothing about n and its visitors changes.
LEMMA ToldFrame ==
  ASSUME NEW n \in Node, Due(n), status'[n] = status[n],
         failed_attempts'[n] = failed_attempts[n],
         \A u \in Thread : /\ InVisit(u, n)' <=> InVisit(u, n)
                           /\ InVisit(u, n) => Kept(u)
  PROVE  Told(n)'
<1>1. Told(n)
  BY DEF Due
<1>2. \A t, u \in Thread : InVisit(t, n)' /\ InVisit(u, n)' => t = u
  BY <1>1 DEF Told
<1>3. ASSUME NEW t \in Thread, InVisit(t, n)' PROVE OnCourse(t, n)'
  <2>1. InVisit(t, n) /\ Kept(t) /\ OnCourse(t, n)
    BY <1>1, <1>3 DEF Told
  <2> QED BY <2>1 DEF OnCourse, Kept
<1>4. (\A t \in Thread : ~ InVisit(t, n)') => Agree(n)'
  BY <1>1 DEF Told, Agree
<1> QED BY <1>2, <1>3, <1>4 DEF Told

\* The only visitor goes on, or leaves the node in order.
LEMMA VisitGoesOn ==
  ASSUME NEW n \in Node, NEW t \in Thread, InVisit(t, n), Due(n),
         \A u \in Thread : u # t /\ InVisit(u, n)' => InVisit(u, n),
         InVisit(t, n)' => OnCourse(t, n)',
         ~ InVisit(t, n)' => Agree(n)'
  PROVE  Told(n)'
<1>1. \A u \in Thread : u # t => ~ InVisit(u, n)
  BY VisitorOnCourse DEF Told
<1>2. \A u \in Thread : InVisit(u, n)' => u = t
  BY <1>1
<1> QED BY <1>2 DEF Told

\* A thread begins a visit, and finds no other there.
LEMMA VisitBegins ==
  ASSUME NEW n \in Node, NEW t \in Thread, InVisit(t, n)', AloneAfter(n),
         OnCourse(t, n)'
  PROVE  Told(n)'
<1>1. \A u \in Thread : InVisit(u, n)' => u = t
  BY DEF AloneAfter
<1> QED BY <1>1 DEF Told

\* A step of a thread that has nothing to do with n.
LEMMA OnlyFrame ==
  ASSUME NEW n \in Node, NEW t \in Thread, Only(t), Due(n),
         ~ InVisit(t, n), ~ InVisit(t, n)', status'[n] = status[n],
         failed_attempts'[n] = failed_attempts[n]
  PROVE  Told(n)'
<1>1. \A u \in Thread : u # t => th'[u] = th[u]
  BY DEF Only
<1>2. ASSUME NEW u \in Thread
      PROVE  /\ InVisit(u, n)' <=> InVisit(u, n)
             /\ InVisit(u, n) => Kept(u)
  <2>1. CASE u = t
    BY <2>1
  <2>2. CASE u # t
    BY <1>1, <2>2 DEF InVisit, Kept
  <2> QED BY <2>1, <2>2
<1> QED BY <1>2, ToldFrame

\* A step of the visitor of n that changes only its own locals, and n.
LEMMA OnlyVisit ==
  ASSUME NEW n \in Node, NEW t \in Thread, Only(t), InVisit(t, n), Due(n),
         InVisit(t, n)' => OnCourse(t, n)',
         ~ InVisit(t, n)' => Agree(n)'
  PROVE  Told(n)'
<1>1. \A u \in Thread : u # t => th'[u] = th[u]
  BY DEF Only
<1>2. \A u \in Thread : u # t /\ InVisit(u, n)' => InVisit(u, n)
  BY <1>1 DEF InVisit
<1> QED BY <1>2, VisitGoesOn

\* A step of a thread that is in no visit, before and after.
LEMMA OutsideTold ==
  ASSUME NEW n \in Node, NEW t \in Thread, Only(t), Due(n),
         th[t].pc \notin VisitPc, th'[t].pc \notin VisitPc,
         UNCHANGED <<status, failed_attempts>>
  PROVE  Told(n)'
<1>1. ~ InVisit(t, n) /\ ~ InVisit(t, n)'
  BY DEF InVisit, VisitPc, HandlerPc
<1> QED BY <1>1, OnlyFrame

\* The scan begins a visit to a node that is not dead.
LEMMA LookTold ==
  ASSUME Types, NEW t \in Thread, Look(t), NEW n \in Registered, Due(n), AloneAfter(n)
  PROVE  Told(n)'
<1> USE LookEffect
<1>0. UNCHANGED <<status, failed_attempts>> /\ n \in Node
  BY DEF Look, vars, Registered
<1>1. ~ InVisit(t, n)
  BY DEF InVisit
<1>2. CASE InVisit(t, n)'
  <2>1. th'[t].pc = "note" /\ status'[n] # "dead"
    BY <1>0, <1>2 DEF InVisit
  <2>2. OnCourse(t, n)'
    BY <2>1 DEF OnCourse, HandlerPc
  <2> QED BY <1>0, <1>2, <2>2, VisitBegins
<1>3. CASE ~ InVisit(t, n)'
  BY <1>0, <1>1, <1>3, OnlyFrame
<1> QED BY <1>2, <1>3

\* The scan reads, judges and goes on.
LEMMA ScanTold ==
  ASSUME Types, NEW t \in Thread, NEW n \in Registered, Due(n),
         Note(t) \/ ReadMisses(t) \/ Judge(t)
  PROVE  Told(n)'
<1>0. UNCHANGED <<status, failed_attempts>> /\ n \in Node
  BY DEF Note, ReadMisses, Judge, vars, Registered
<1>1. /\ Only(t) /\ th[t].pc \in {"note", "count", "judge"}
      /\ th'[t].pc \in {"idle", "look"} \/ th'[t].node = th[t].node
  BY NoteEffect, ReadMissesEffect, JudgeEffect
<1>2. CASE th[t].node # n
  <2>1. ~ InVisit(t, n) /\ ~ InVisit(t, n)'
    BY <1>1, <1>2 DEF InVisit
  <2> QED BY <1>0, <1>1, <2>1, OnlyFrame
<1>3. CASE th[t].node = n
  <2>1. InVisit(t, n)
    BY <1>1, <1>3 DEF InVisit
  <2>2. OnCourse(t, n)
    BY <2>1, VisitorOnCourse
  <2>3. CASE Note(t)
    <3>1. th[t].pc = "note" /\ th'[t].pc = "count" /\ th'[t].old = status[n]
      BY <1>3, <2>3, NoteEffect
    <3>2. OnCourse(t, n)'
      BY <1>0, <2>2, <3>1 DEF OnCourse, HandlerPc
    <3>3. InVisit(t, n)'
      BY <1>1, <1>3, <3>1 DEF InVisit
    <3> QED BY <1>0, <1>1, <2>1, <3>2, <3>3, OnlyVisit
  <2>4. CASE ReadMisses(t)
    <3>1. /\ th[t].pc = "count" /\ th'[t].pc = "store" /\ th'[t].old = th[t].old
          /\ th'[t].count = failed_attempts[n]
      BY <1>3, <2>4, ReadMissesEffect
    <3>2. OnCourse(t, n)'
      BY <1>0, <2>2, <3>1 DEF OnCourse, HandlerPc
    <3>3. InVisit(t, n)'
      BY <1>1, <1>3, <3>1 DEF InVisit
    <3> QED BY <1>0, <1>1, <2>1, <3>2, <3>3, OnlyVisit
  <2>5. CASE Judge(t)
    <3>0. failed_attempts[n] \in Nat /\ DEAD_THRESHOLD \in Nat
      BY <1>0, ClusterAssumption DEF Types, MissCap
    <3>1. /\ th[t].pc = "judge"
          /\ \/ failed_attempts[n] >= DEAD_THRESHOLD /\ th'[t].pc = "bury"
             \/ /\ ~ (failed_attempts[n] >= DEAD_THRESHOLD)
                /\ th[t].old = "alive" /\ th'[t].pc = "doubt"
             \/ /\ ~ (failed_attempts[n] >= DEAD_THRESHOLD)
                /\ th[t].old # "alive" /\ th'[t].pc \in {"idle", "look"}
      BY <1>3, <2>5, JudgeEffect
    <3>2. status[n] # "dead" /\ th[t].old = status[n] /\ failed_attempts[n] > 0
      BY <2>2, <3>1 DEF OnCourse
    <3>3. InVisit(t, n)' => OnCourse(t, n)'
      <4>1. InVisit(t, n)' => th'[t].pc \in {"bury", "doubt"}
        BY <3>1 DEF InVisit
      <4> QED BY <1>0, <3>0, <3>1, <3>2, <4>1 DEF OnCourse, HandlerPc
    <3>4. ~ InVisit(t, n)' => Agree(n)'
      <4>1. th'[t].pc \in {"bury", "doubt"} => InVisit(t, n)'
        BY <1>1, <1>3 DEF InVisit
      <4> QED BY <1>0, <3>0, <3>1, <3>2, <4>1 DEF Agree
    <3> QED BY <1>0, <1>1, <2>1, <3>3, <3>4, OnlyVisit
  <2> QED BY <2>3, <2>4, <2>5
<1> QED BY <1>2, <1>3

\* The miss that the only visitor counts is not lost.
LEMMA WriteMissesTold ==
  ASSUME Types, NEW t \in Thread, WriteMisses(t), NEW n \in Registered, Due(n)
  PROVE  Told(n)'
<1> USE WriteMissesEffect
<1>0. status' = status /\ n \in Node
  BY DEF WriteMisses, Registered
<1>1. CASE th[t].node # n
  <2>1. ~ InVisit(t, n) /\ ~ InVisit(t, n)'
    BY <1>1 DEF InVisit
  <2> QED BY <1>0, <1>1, <2>1, OnlyFrame
<1>2. CASE th[t].node = n
  <2>1. InVisit(t, n) /\ InVisit(t, n)'
    BY <1>2 DEF InVisit
  <2>2. OnCourse(t, n)
    BY <2>1, VisitorOnCourse
  <2>3. OnCourse(t, n)'
    BY <1>0, <1>2, <2>2 DEF OnCourse, HandlerPc
  <2> QED BY <1>0, <2>1, <2>3, OnlyVisit
<1> QED BY <1>1, <1>2

\* The node that the only visitor suspects has missed something, not too much.
LEMMA DoubtTold ==
  ASSUME Types, NEW t \in Thread, Doubt(t), NEW n \in Registered, Due(n)
  PROVE  Told(n)'
<1> USE DoubtEffect
<1>0. failed_attempts' = failed_attempts /\ n \in Node
  BY DEF Doubt, Registered
<1>1. ~ InVisit(t, n)'
  BY DEF InVisit
<1>2. CASE th[t].node # n
  <2>1. ~ InVisit(t, n)
    BY <1>2 DEF InVisit
  <2> QED BY <1>0, <1>1, <1>2, <2>1, OnlyFrame
<1>3. CASE th[t].node = n
  <2>1. InVisit(t, n)
    BY <1>3 DEF InVisit
  <2>2. OnCourse(t, n)
    BY <2>1, VisitorOnCourse
  <2>3. failed_attempts[n] \in Nat /\ DEAD_THRESHOLD \in Nat
    BY <1>0, ClusterAssumption DEF Types, MissCap
  <2>4. failed_attempts[n] > 0 /\ failed_attempts[n] < DEAD_THRESHOLD
    BY <2>2 DEF OnCourse
  <2>5. Agree(n)'
    BY <1>0, <1>3, <2>3, <2>4 DEF Agree
  <2> QED BY <1>0, <1>1, <2>1, <2>5, OnlyVisit
<1> QED BY <1>2, <1>3

\* The node that the only visitor buries has reached the threshold; a scan that
\* holds a replaced object buries no node of the dict.
LEMMA BuryTold ==
  ASSUME Types, NEW t \in Thread, Bury(t), NEW n \in Registered, Due(n)
  PROVE  Told(n)'
<1> USE BuryEffect
<1>0. failed_attempts' = failed_attempts /\ n \in Node
  BY DEF Bury, Registered
<1>1. ~ InVisit(t, n)'
  BY DEF InVisit
<1>2. \A u \in Thread : u # t => (InVisit(u, n)' <=> InVisit(u, n)) /\ Kept(u)
  BY DEF Kept, InVisit
<1>3. CASE th[t].node # n
  <2>1. ~ InVisit(t, n) /\ status'[n] = status[n]
    BY <1>0, <1>3 DEF InVisit
  <2> QED BY <1>0, <1>1, <1>2, <2>1, ToldFrame
<1>4. CASE th[t].node = n
  <2>1. InVisit(t, n)
    BY <1>4 DEF InVisit
  <2>2. OnCourse(t, n)
    BY <2>1, VisitorOnCourse
  <2>3. failed_attempts[n] >= DEAD_THRESHOLD /\ status'[n] = "dead"
    BY <1>0, <1>4, <2>2 DEF OnCourse
  <2>4. Agree(n)'
    BY <1>0, <2>3 DEF Agree
  <2> QED BY <1>0, <1>1, <1>2, <2>1, <2>4, VisitGoesOn
<1> QED BY <1>3, <1>4

\* A handler that has the node for itself reads what it left there.
LEMMA HandlerTold ==
  ASSUME Types, NEW n \in Registered, Due(n),
         \/ Weigh
         \/ Ask("ask_dead", "dead", "recover", "ask_suspect")
         \/ Ask("ask_suspect", "suspect", "return", "compare")
         \/ Compare
  PROVE  Told(n)'
<1>0. UNCHANGED <<status, failed_attempts>> /\ n \in Node /\ EventLoop \in Thread
  BY DEF Weigh, Ask, Compare, vars, Registered, Thread
<1>1. {"ask_dead", "ask_suspect", "recover", "return", "compare"} \subseteq HandlerPc
  BY DEF HandlerPc
<1>2. /\ Only(EventLoop) /\ th[EventLoop].pc \in HandlerPc
      /\ \/ th[EventLoop].pc = "weigh" /\ th'[EventLoop].pc = "ask_dead"
            /\ th'[EventLoop].node = th[EventLoop].node
         \/ /\ th[EventLoop].pc = "ask_dead" /\ th'[EventLoop].node = th[EventLoop].node
            /\ \/ th'[EventLoop].pc = "recover"
               \/ /\ th'[EventLoop].pc = "ask_suspect"
                  /\ status[th[EventLoop].node] # "dead"
         \/ /\ th[EventLoop].pc = "ask_suspect" /\ th'[EventLoop].node = th[EventLoop].node
            /\ \/ th'[EventLoop].pc = "return"
               \/ /\ th'[EventLoop].pc = "compare"
                  /\ status[th[EventLoop].node] # "suspect"
         \/ th[EventLoop].pc = "compare" /\ th'[EventLoop].pc \in {"idle", "collect"}
  <2>1. CASE Weigh
    BY <2>1, WeighEffect DEF HandlerPc
  <2>2. CASE Ask("ask_dead", "dead", "recover", "ask_suspect")
    BY <1>1, <2>2, AskEffect
  <2>3. CASE Ask("ask_suspect", "suspect", "return", "compare")
    BY <1>1, <2>3, AskEffect
  <2>4. CASE Compare
    BY <1>1, <2>4, CompareEffect
  <2> QED BY <2>1, <2>2, <2>3, <2>4
<1>3. CASE th[EventLoop].node # n
  <2>1. ~ InVisit(EventLoop, n) /\ ~ InVisit(EventLoop, n)'
    BY <1>2, <1>3 DEF InVisit
  <2> QED BY <1>0, <1>2, <2>1, OnlyFrame
<1>4. CASE th[EventLoop].node = n
  <2>1. InVisit(EventLoop, n)
    BY <1>2, <1>4 DEF InVisit, HandlerPc
  <2>2. OnCourse(EventLoop, n)
    BY <1>0, <2>1, VisitorOnCourse
  <2>3. failed_attempts[n] = 0
    BY <1>2, <2>2 DEF OnCourse
  <2>4. CASE th[EventLoop].pc = "compare"
    <3>1. status[n] # "dead" /\ status[n] # "suspect"
      BY <2>2, <2>4 DEF OnCourse
    <3>2. Agree(n)'
      BY <1>0, <2>3, <3>1, ClusterAssumption DEF Agree
    <3>3. ~ InVisit(EventLoop, n)'
      BY <1>2, <2>4 DEF InVisit
    <3> QED BY <1>0, <1>2, <2>1, <3>2, <3>3, OnlyVisit
  <2>5. CASE th[EventLoop].pc # "compare"
    <3>1. th'[EventLoop].pc \in HandlerPc /\ th'[EventLoop].node = n
      BY <1>2, <1>4, <2>5 DEF HandlerPc
    <3>2. InVisit(EventLoop, n)'
      BY <3>1 DEF InVisit, HandlerPc
    <3>3. OnCourse(EventLoop, n)'
      BY <1>0, <1>2, <1>4, <2>2, <2>3, <2>5 DEF OnCourse
    <3> QED BY <1>0, <1>2, <2>1, <3>2, <3>3, OnlyVisit
  <2> QED BY <2>4, <2>5
<1> QED BY <1>3, <1>4

\* A node that is revived has no misses.
LEMMA ReviveTold ==
  ASSUME Types, NEW pc \in HandlerPc, NEW s \in {"recovered", "alive"}, Revive(pc, s),
         NEW n \in Registered, Due(n)
  PROVE  Told(n)'
<1>0. /\ failed_attempts' = failed_attempts /\ n \in Node /\ EventLoop \in Thread
      /\ s \in HealthStatus
  BY DEF Revive, Registered, Thread, HealthStatus
<1> USE ReviveEffect
<1>1. \A u \in Thread : u # EventLoop => (InVisit(u, n)' <=> InVisit(u, n)) /\ Kept(u)
  BY <1>0 DEF Kept, InVisit
<1>2. CASE th[EventLoop].node # n
  <2>1. /\ ~ InVisit(EventLoop, n) /\ ~ InVisit(EventLoop, n)'
        /\ status'[n] = status[n]
    BY <1>0, <1>2 DEF InVisit
  <2> QED BY <1>0, <1>1, <2>1, ToldFrame
<1>3. CASE th[EventLoop].node = n
  <2>1. InVisit(EventLoop, n)
    BY <1>0, <1>3 DEF InVisit, HandlerPc
  <2>2. OnCourse(EventLoop, n)
    BY <1>0, <2>1, VisitorOnCourse
  <2>3. failed_attempts[n] = 0 /\ status'[n] = s /\ th'[EventLoop].pc = "compare"
    BY <1>0, <1>3, <2>2 DEF OnCourse
  <2>4. OnCourse(EventLoop, n)' /\ InVisit(EventLoop, n)'
    BY <1>0, <1>3, <2>3 DEF OnCourse, InVisit
  <2> QED BY <1>0, <1>1, <2>1, <2>4, VisitGoesOn
<1> QED BY <1>2, <1>3

\* A heartbeat begins: the misses of its node are forgotten.
LEMMA HearTold ==
  ASSUME Types, NEW m \in Node, Hear(m), NEW n \in Registered, Due(n), AloneAfter(n)
  PROVE  Told(n)'
<1> USE HearEffect
<1>0. status' = status /\ n \in Node /\ EventLoop \in Thread
  BY DEF Hear, Registered, Thread
<1>1. ASSUME NEW u \in Thread, u # EventLoop
      PROVE  /\ InVisit(u, n)' <=> InVisit(u, n)
             /\ InVisit(u, n) => Kept(u)
  <2>1. CASE th[u].pc = "look" /\ th'[u].pc \in {"idle", "look"}
    BY <2>1 DEF InVisit
  <2>2. CASE Kept(u)
    BY <2>2 DEF Kept, InVisit
  <2> QED BY <1>1, <2>1, <2>2
<1>2. ~ InVisit(EventLoop, n)
  BY DEF InVisit
<1>3. CASE m # n
  <2>1. ~ InVisit(EventLoop, n)'
    BY <1>3 DEF InVisit
  <2> QED BY <1>0, <1>1, <1>2, <1>3, <2>1, ToldFrame
<1>4. CASE m = n
  <2>1. InVisit(EventLoop, n)' /\ OnCourse(EventLoop, n)'
    BY <1>4 DEF InVisit, OnCourse
  <2> QED BY <1>0, <2>1, VisitBegins
<1> QED BY <1>3, <1>4

\* A node that is registered has no misses and no visitors; the visits to the
\* others go on.
LEMMA StoreTold ==
  ASSUME Types, NEW m \in Node, NEW b \in {"idle", "hear"}, StoreMetadata(m, b),
         NEW n \in Node, n = m \/ Due(n)
  PROVE  Told(n)'
<1> USE StoreEffect
<1>0. EventLoop \in Thread /\ NoName \notin Node
  BY ThreadAssumption DEF Thread
<1>1. ~ InVisit(EventLoop, n) /\ ~ InVisit(EventLoop, n)'
  BY DEF InVisit
<1>2. ASSUME NEW u \in Thread, u # EventLoop
      PROVE  \/ th'[u].pc \in {"idle", "look"} /\ (th[u].pc \notin VisitPc \/ th[u].node = m)
             \/ th'[u].pc = "bury" /\ th'[u].node = NoName /\ th[u].node = m
             \/ Kept(u) /\ ~ (th[u].pc \in VisitPc /\ th[u].node = m)
  BY <1>2
<1>3. CASE n = m
  <2>1. status'[n] = "alive" /\ failed_attempts'[n] = 0
    BY <1>3, StoreState
  <2>2. Agree(n)'
    BY <2>1, ClusterAssumption DEF Agree
  <2>3. ASSUME NEW u \in Thread PROVE ~ InVisit(u, n)'
    <3>1. CASE u = EventLoop
      BY <1>1, <3>1
    <3>2. CASE u # EventLoop
      BY <1>0, <1>2, <1>3, <3>2 DEF InVisit, VisitPc, HandlerPc, Kept
    <3> QED BY <3>1, <3>2
  <2> QED BY <2>2, <2>3 DEF Told
<1>4. CASE n # m
  <2>1. status'[n] = status[n] /\ failed_attempts'[n] = failed_attempts[n]
    BY <1>4, StoreState
  <2>2. ASSUME NEW u \in Thread
        PROVE  /\ InVisit(u, n)' <=> InVisit(u, n)
               /\ InVisit(u, n) => Kept(u)
    <3>1. CASE u = EventLoop
      BY <1>1, <3>1
    <3>2. CASE u # EventLoop
      BY <1>0, <1>2, <1>4, <3>2 DEF InVisit, VisitPc, HandlerPc, Kept
    <3> QED BY <3>1, <3>2
  <2> QED BY <1>4, <2>1, <2>2, ToldFrame
<1> QED BY <1>3, <1>4

\* Visitors are finitely many; two of them are more than one, none is not.
LEMMA MoreThanOne ==
  ASSUME NEW V, IsFiniteSet(V)
  PROVE  /\ Cardinality(V) > 1 => V # {}
         /\ \A t, u \in V : t # u => Cardinality(V) > 1
<1>1. Cardinality({}) = 0
  BY FS_EmptySet
<1>2. ASSUME NEW t \in V, NEW u \in V, t # u PROVE Cardinality(V) > 1
  <2>1. IsFiniteSet({t}) /\ Cardinality({t}) = 1
    BY FS_Singleton
  <2>2. PICK W : W = {t, u}
    OBVIOUS
  <2>3. W = {t} \cup {u} /\ u \notin {t} /\ W \subseteq V
    BY <1>2, <2>2
  <2>4. Cardinality(W) = 2
    BY <2>1, <2>3, FS_AddElement
  <2>5. Cardinality(W) <= Cardinality(V)
    BY <2>3, FS_Subset
  <2>6. Cardinality(V) \in Nat
    BY FS_CardinalityType
  <2> QED BY <2>4, <2>5, <2>6
<1> QED BY <1>1, <1>2

\* The threads are finitely many, and so are the visitors of a node.
LEMMA FiniteThreads == IsFiniteSet(Thread)
  BY ThreadAssumption, FS_AddElement DEF Thread

\* What the history says of a node that is not crossed after a step.
LEMMA WatchEffect ==
  ASSUME Types', ToldInv, Watch, Registered \subseteq Registered'
  PROVE  /\ crossed' \subseteq Registered'
         /\ \A n \in Node : n \notin crossed' =>
               AloneAfter(n) /\ (n \in Registered => Due(n))
<1>1. \A n \in Node : /\ IsFiniteSet(Visitors(n)')
                      /\ \A t \in Thread : t \in Visitors(n)' <=> InVisit(t, n)'
  <2> TAKE n \in Node
  <2>1. \A t \in Thread : t \in Visitors(n)' <=> InVisit(t, n)'
    BY DEF Visitors
  <2>2. PICK V : V = Visitors(n)'
    OBVIOUS
  <2>3. V \subseteq Thread
    BY <2>2 DEF Visitors
  <2>4. IsFiniteSet(V)
    BY <2>3, FiniteThreads, FS_Subset
  <2> QED BY <2>1, <2>2, <2>4
<1>2. crossed' = {n \in Node : \/ Cardinality(Visitors(n)') > 1
                               \/ n \in crossed /\ ~ Refreshed(n)}
  BY DEF Watch
<1>3. ASSUME NEW n \in crossed' PROVE n \in Registered'
  <2>1. n \in Node /\ (Cardinality(Visitors(n)') > 1 \/ n \in crossed)
    BY <1>2
  <2>2. CASE n \in crossed
    BY <2>2 DEF ToldInv
  <2>3. CASE Cardinality(Visitors(n)') > 1
    <3>1. PICK V : V = Visitors(n)'
      OBVIOUS
    <3>2. V # {}
      BY <1>1, <2>1, <2>3, <3>1, MoreThanOne
    <3>3. PICK t \in Thread : InVisit(t, n)'
      BY <1>1, <2>1, <3>1, <3>2 DEF Visitors
    <3>4. th'[t].node = n /\ th'[t].pc \in VisitPc
      BY <3>3 DEF InVisit, VisitPc, HandlerPc
    <3>5. Placed(th'[t], t = EventLoop, Registered')
      BY DEF Types, Good
    <3> QED BY <2>1, <3>4, <3>5, ThreadAssumption DEF Placed
  <2> QED BY <2>1, <2>2, <2>3
<1>4. ASSUME NEW n \in Node, n \notin crossed' PROVE AloneAfter(n)
  <2>1. PICK V : V = Visitors(n)'
    OBVIOUS
  <2>2. IsFiniteSet(V) /\ ~ (Cardinality(V) > 1)
    BY <1>1, <1>2, <1>4, <2>1
  <2>3. \A t, u \in V : t = u
    BY <2>2, MoreThanOne
  <2> QED BY <1>1, <2>1, <2>3 DEF AloneAfter
<1>5. ASSUME NEW n \in Registered, n \notin crossed' PROVE Due(n)
  <2>0. n \in Node
    BY DEF Registered
  <2>1. n \notin crossed \/ Refreshed(n)
    BY <1>2, <1>5, <2>0
  <2>2. CASE n \notin crossed
    BY <2>2 DEF ToldInv, Due
  <2>3. CASE Refreshed(n)
    <3>1. \A t \in Thread : ~ InVisit(t, n)
      BY <2>3 DEF Refreshed, Visitors
    <3>2. \E t \in Thread : InVisit(t, n)'
      BY <1>1, <2>0, <2>3 DEF Refreshed, Visitors
    <3> QED BY <3>1, <3>2 DEF Due
  <2> QED BY <2>1, <2>2, <2>3
<1> QED BY <1>3, <1>4, <1>5

\* Every step leaves each node that is not crossed in order.
LEMMA ToldStep == Types /\ ToldInv /\ [ThreadsNext]_threadVars => ToldInv'
<1> SUFFICES ASSUME Types, ToldInv, [ThreadsNext]_threadVars PROVE ToldInv'
  OBVIOUS
<1>0. Types' /\ EventLoop \in Thread
  BY TypesStep DEF Thread
<1>1. CASE UNCHANGED threadVars
  BY <1>1 DEF threadVars, vars, ToldInv, Told, OnCourse, Agree, InVisit, Registered
<1>2. ASSUME Watch, Registered' = Registered,
             \A n \in Registered : Due(n) /\ AloneAfter(n) => Told(n)'
      PROVE  ToldInv'
  <2>1. /\ crossed' \subseteq Registered'
        /\ \A n \in Node : n \notin crossed' =>
              AloneAfter(n) /\ (n \in Registered => Due(n))
    BY <1>0, <1>2, WatchEffect
  <2>2. Registered \subseteq Node
    BY DEF Registered
  <2> QED BY <1>2, <2>1, <2>2 DEF ToldInv
<1>3. ASSUME UNCHANGED status PROVE Registered' = Registered
  BY <1>3 DEF Registered
<1>4. ASSUME NEW t \in Thread, Quiet(t), Watch PROVE ToldInv'
  <2>1. Only(t) /\ UNCHANGED <<status, failed_attempts>>
    BY <1>4, QuietEffect
  <2>2. ASSUME NEW n \in Registered, Due(n), AloneAfter(n) PROVE Told(n)'
    <3>1. n \in Node
      BY DEF Registered
    <3>2. CASE BeginScan(t)
      <4>1. th[t].pc \notin VisitPc /\ th'[t].pc \notin VisitPc
        BY <3>2, BeginScanEffect DEF VisitPc, HandlerPc
      <4> QED BY <2>1, <2>2, <3>1, <4>1, OutsideTold
    <3>3. CASE Look(t)
      BY <2>2, <3>3, LookTold
    <3>4. CASE Note(t) \/ ReadMisses(t) \/ Judge(t)
      BY <2>2, <3>4, ScanTold
    <3>5. CASE Collect(t)
      <4>1. th[t].pc \notin VisitPc /\ th'[t].pc \notin VisitPc
        BY <3>5, CollectEffect DEF VisitPc, HandlerPc
      <4> QED BY <2>1, <2>2, <3>1, <4>1, OutsideTold
    <3>6. CASE \/ Weigh
               \/ Ask("ask_dead", "dead", "recover", "ask_suspect")
               \/ Ask("ask_suspect", "suspect", "return", "compare")
               \/ Compare
      BY <2>2, <3>6, HandlerTold
    <3> QED BY <1>4, <3>2, <3>3, <3>4, <3>5, <3>6 DEF Quiet
  <2> QED BY <1>2, <1>3, <1>4, <2>1, <2>2
<1>5. ASSUME NEW t \in Thread, WriteMisses(t), Watch PROVE ToldInv'
  <2>1. UNCHANGED status
    BY <1>5 DEF WriteMisses
  <2> QED BY <1>2, <1>3, <1>5, <2>1, WriteMissesTold
<1>6. ASSUME NEW t \in Thread, Doubt(t), Watch PROVE ToldInv'
  BY <1>2, <1>6, DoubtEffect, DoubtTold
<1>7. ASSUME NEW t \in Thread, Install(t), Watch PROVE ToldInv'
  <2>1. UNCHANGED <<status, failed_attempts>>
    BY <1>7 DEF Install
  <2>2. Only(t) /\ th[t].pc \notin VisitPc /\ th'[t].pc \notin VisitPc
    BY <1>7, InstallEffect DEF VisitPc, HandlerPc
  <2>3. ASSUME NEW n \in Registered, Due(n) PROVE Told(n)'
    <3>1. n \in Node
      BY DEF Registered
    <3> QED BY <2>1, <2>2, <2>3, <3>1, OutsideTold
  <2> QED BY <1>2, <1>3, <1>7, <2>1, <2>3
<1>8. ASSUME NEW t \in Thread, Bury(t), Watch PROVE ToldInv'
  BY <1>2, <1>8, BuryEffect, BuryTold
<1>9. ASSUME NEW pc \in HandlerPc, NEW s \in {"recovered", "alive"}, Revive(pc, s), Watch
      PROVE  ToldInv'
  <2>1. s \in HealthStatus
    BY DEF HealthStatus
  <2>2. Registered' = Registered
    BY <1>9, <2>1, ReviveEffect
  <2> QED BY <1>2, <1>9, <2>2, ReviveTold
<1>10. ASSUME NEW n \in Node, Hear(n), Watch PROVE ToldInv'
  <2>1. UNCHANGED status
    BY <1>10 DEF Hear
  <2> QED BY <1>2, <1>3, <1>10, <2>1, HearTold
<1>11. ASSUME NEW m \in Node, NEW b \in {"idle", "hear"}, StoreMetadata(m, b), Watch
       PROVE  ToldInv'
  <2>1. Registered' = Registered \cup {m}
    BY <1>11, StoreState
  <2>2. /\ crossed' \subseteq Registered'
        /\ \A n \in Node : n \notin crossed' =>
              AloneAfter(n) /\ (n \in Registered => Due(n))
    BY <1>0, <1>11, <2>1, WatchEffect
  <2>3. ASSUME NEW n \in Registered' \ crossed' PROVE Told(n)'
    <3>1. n \in Node /\ (n = m \/ Due(n))
      BY <2>1, <2>2, <2>3 DEF Registered
    <3> QED BY <1>11, <3>1, StoreTold
  <2> QED BY <2>2, <2>3 DEF ToldInv
<1>12. ASSUME TimePasses, Watch PROVE ToldInv'
  <2>1. UNCHANGED <<status, failed_attempts, th>>
    BY <1>12 DEF TimePasses, Tick
  <2>2. ASSUME NEW n \in Registered, Due(n) PROVE Told(n)'
    <3>1. n \in Node
      BY DEF Registered
    <3>2. \A u \in Thread : (InVisit(u, n)' <=> InVisit(u, n)) /\ Kept(u)
      BY <2>1 DEF InVisit, Kept
    <3> QED BY <2>1, <2>2, <3>1, <3>2, ToldFrame
  <2> QED BY <1>2, <1>3, <1>12, <2>1, <2>2
<1>13. "recover" \in HandlerPc /\ "return" \in HandlerPc
  BY DEF HandlerPc
<1> QED BY <1>1, <1>4, <1>5, <1>6, <1>7, <1>8, <1>9, <1>10, <1>11, <1>12, <1>13, Cases

\* Nobody visits the node that has registered when the model starts.
LEMMA InitTold == ThreadsInit => ToldInv
<1> SUFFICES ASSUME ThreadsInit PROVE ToldInv
  OBVIOUS
<1>1. \A t \in Thread : th[t].pc = "idle"
  BY IdleGood DEF ThreadsInit
<1>2. \A t \in Thread, n \in Node : ~ InVisit(t, n)
  BY <1>1 DEF InVisit
<1>3. \A n \in Registered : n \in Node /\ status[n] = "alive" /\ failed_attempts[n] = 0
  BY DEF ThreadsInit, Registered
<1>4. \A n \in Registered : n \in Node /\ Agree(n)
  BY <1>3, ClusterAssumption DEF Agree
<1> QED BY <1>2, <1>4 DEF ThreadsInit, ToldInv, Told

-----------------------------------------------------------------------------
(* The theorems. *)

\* The invariant holds in every reachable state, for any number of threads.
THEOREM ThreadsInvariance == ThreadsSpec => []ThreadsInv
<1>1. ThreadsInit => ThreadsInv
  BY InitTypes, InitRing, InitTold DEF ThreadsInv
<1>2. ThreadsInv /\ [ThreadsNext]_threadVars => ThreadsInv'
  BY TypesStep, RingStep, ToldStep DEF ThreadsInv
<1> QED BY <1>1, <1>2, PTL DEF ThreadsSpec

\* The state of the threads and of the cluster manager keeps its type: a thread
\* never holds a status, a node or a step that the code does not have.
THEOREM ThreadsTypeCorrect == ThreadsSpec => []ThreadsTypeOK
<1>1. ThreadsInv => ThreadsTypeOK
  <2> SUFFICES ASSUME ThreadsInv PROVE ThreadsTypeOK
    OBVIOUS
  <2>1. th \in [Thread -> Locals(Registered)]
    BY DEF ThreadsInv, Types, Good
  <2> QED BY <2>1 DEF ThreadsInv, Types, ToldInv, ThreadsTypeOK, Locals, Step
<1> QED BY <1>1, ThreadsInvariance, PTL

\* The misses and the status of a node disagree only if two threads worked on
\* that very node at the same time, and no visit repaired it since.
THEOREM OnlyCrossingMiscounts == ThreadsSpec => []OnlyCrossingVisitsMiscount
<1>1. ThreadsInv => OnlyCrossingVisitsMiscount
  BY DEF ThreadsInv, ToldInv, Told, Agree, OnlyCrossingVisitsMiscount, Visitors
<1> QED BY <1>1, ThreadsInvariance, PTL

\* The ring is wrong only after a rebuild that another thread disturbed, or
\* after a handler that saw no need for one.
THEOREM OnlyOverlapsMisroute == ThreadsSpec => []OnlyOverlapMisroutes
<1>1. ThreadsInv => OnlyOverlapMisroutes
  <2> SUFFICES ASSUME ThreadsInv, trusted,
                      \A t \in Thread : th[t].pc \notin {"compare", "collect"}
               PROVE  RoutesOnlyToLiveNodes /\ AliveNodesAreRouted
    BY DEF OnlyOverlapMisroutes
  <2>1. Collectors = {} /\ EventLoop \in Thread
    BY DEF Collectors, Thread
  <2>2. \A n \in Node : Routed(n)
    BY <2>1 DEF ThreadsInv, RingInv, AboutToRebuild
  <2>3. hash_ring \subseteq Node
    BY DEF ThreadsInv, Types
  <2> QED BY <2>2, <2>3 DEF Routed, RoutesOnlyToLiveNodes, AliveNodesAreRouted
<1> QED BY <1>1, ThreadsInvariance, PTL

-----------------------------------------------------------------------------
(***************************************************************************)
(* The gateway that nobody asks for a health check: the event loop is its  *)
(* only thread.  Nothing disturbs a rebuild, and what a handler has noted  *)
(* of a status is still true when it decides.                              *)
(***************************************************************************)
LoopUndisturbed ==
    /\ th[EventLoop].pc = "collect" => th[EventLoop].clean
    /\ th[EventLoop].pc \in {"ask_dead", "ask_suspect", "recover", "return"} =>
          th[EventLoop].old = status[th[EventLoop].node]
    /\ th[EventLoop].pc = "recover" => status[th[EventLoop].node] = "dead"
    /\ th[EventLoop].pc = "return" => status[th[EventLoop].node] = "suspect"

AloneInv == LoopUndisturbed /\ trusted /\ crossed = {}

\* Between two methods of the cluster manager the ring is right, and so are
\* the counters.
RightBetweenMethods ==
    th[EventLoop].pc = "idle" =>
        /\ RoutesOnlyToLiveNodes /\ AliveNodesAreRouted
        /\ \A n \in Registered : Agree(n)

\* The event loop is the only thread.
LEMMA OneThread ==
  ASSUME Worker = {}
  PROVE  Thread = {EventLoop}
  BY DEF Thread

\* One turn of a rebuild leaves it undisturbed.
LEMMA CollectKeepsClean ==
  ASSUME Types, Collect(EventLoop)
  PROVE  th'[EventLoop].pc = "collect" /\ th'[EventLoop].clean = th[EventLoop].clean
<1>0. EventLoop \in Thread
  BY DEF Thread
<1>1. PICK S, A : th' = [th EXCEPT ![EventLoop].rest = S, ![EventLoop].alive = A]
  BY DEF Collect
<1>2. PICK q : q = [th[EventLoop] EXCEPT !.rest = S]
  OBVIOUS
<1>3. th[EventLoop] \in Locals(Registered)
  BY <1>0, ThreadGood
<1>4. /\ q.pc = th[EventLoop].pc /\ q.clean = th[EventLoop].clean
      /\ q = [q EXCEPT !.rest = S]
  BY <1>2, <1>3 DEF Locals
<1>5. th'[EventLoop] = [q EXCEPT !.alive = A]
  BY <1>0, <1>1, <1>2 DEF Types
<1>6. th'[EventLoop].pc = q.pc /\ th'[EventLoop].clean = q.clean
  BY <1>2, <1>3, <1>5 DEF Locals
<1> QED BY <1>4, <1>6 DEF Collect

\* A rebuild that begins is undisturbed.
LEMMA RebuildingClean ==
  ASSUME NEW t, NEW S, NEW b
  PROVE  Rebuilding(t, S, b).clean
  BY DEF Rebuilding, Idle

\* process_heartbeat has noted the status as it is.
LEMMA WeighNotes ==
  ASSUME Types, Weigh
  PROVE  th'[EventLoop].old = status[th[EventLoop].node]
<1>0. EventLoop \in Thread
  BY DEF Thread
<1>1. PICK s : s = status[th[EventLoop].node]
  OBVIOUS
<1>2. th' = [th EXCEPT ![EventLoop].pc = "ask_dead", ![EventLoop].old = s]
  BY <1>1 DEF Weigh
<1>3. th[EventLoop] \in Locals(Registered)
  BY <1>0, ThreadGood
<1>4. PICK q : q = [th[EventLoop] EXCEPT !.pc = "ask_dead"]
  OBVIOUS
<1>5. th'[EventLoop] = [q EXCEPT !.old = s]
  BY <1>0, <1>2, <1>4 DEF Types
<1> QED BY <1>1, <1>3, <1>4, <1>5 DEF Locals

\* A step of the only thread that changes nothing but its locals.
LEMMA QuietUndisturbed ==
  ASSUME Types, LoopUndisturbed, Quiet(EventLoop)
  PROVE  LoopUndisturbed'
<1>0. EventLoop \in Thread
  BY DEF Thread
<1>1. UNCHANGED status
  BY <1>0, QuietEffect
<1>2. CASE BeginScan(EventLoop) \/ Look(EventLoop)
  BY <1>0, <1>2, BeginScanEffect, LookEffect DEF LoopUndisturbed
<1>3. CASE Note(EventLoop) \/ ReadMisses(EventLoop)
  BY <1>0, <1>3, NoteEffect, ReadMissesEffect DEF LoopUndisturbed
<1>4. CASE Judge(EventLoop)
  BY <1>0, <1>4, JudgeEffect DEF LoopUndisturbed
<1>5. CASE Collect(EventLoop)
  <2>1. th[EventLoop].pc = "collect"
    BY <1>5 DEF Collect
  <2> QED BY <1>5, <2>1, CollectKeepsClean DEF LoopUndisturbed
<1>6. CASE Weigh
  BY <1>1, <1>6, WeighEffect, WeighNotes DEF LoopUndisturbed
<1>7. {"ask_dead", "ask_suspect", "recover", "return", "compare"} \subseteq HandlerPc
  BY DEF HandlerPc
<1>8. CASE Ask("ask_dead", "dead", "recover", "ask_suspect")
  <2>1. /\ th[EventLoop].pc = "ask_dead"
        /\ th'[EventLoop].node = th[EventLoop].node
        /\ th'[EventLoop].old = th[EventLoop].old
        /\ \/ th'[EventLoop].pc = "recover" /\ status[th[EventLoop].node] = "dead"
           \/ th'[EventLoop].pc = "ask_suspect"
    BY <1>7, <1>8, AskEffect
  <2> QED BY <1>1, <2>1 DEF LoopUndisturbed
<1>9. CASE Ask("ask_suspect", "suspect", "return", "compare")
  BY <1>1, <1>7, <1>9, AskEffect DEF LoopUndisturbed
<1>10. CASE Compare
  <2>1. \/ th'[EventLoop].pc = "idle"
        \/ th'[EventLoop] = Rebuilding(EventLoop, Registered, "idle")
    BY <1>0, <1>10, IdleGood DEF Compare, Types
  <2>2. th'[EventLoop].pc \in {"idle", "collect"}
    BY <1>10, CompareEffect
  <2> QED BY <2>1, <2>2, RebuildingClean DEF LoopUndisturbed
<1> QED BY <1>2, <1>3, <1>4, <1>5, <1>6, <1>8, <1>9, <1>10 DEF Quiet

\* No two threads meet.
LEMMA NobodyCrosses ==
  ASSUME Worker = {}, crossed = {}, Watch
  PROVE  crossed' = {}
<1>1. ASSUME NEW n \in Node PROVE ~ (Cardinality(Visitors(n)') > 1)
  <2>1. PICK V : V = Visitors(n)'
    OBVIOUS
  <2>2. V = {} \/ V = {EventLoop}
    BY <2>1, OneThread DEF Visitors
  <2>3. Cardinality({}) = 0 /\ Cardinality({EventLoop}) = 1
    BY FS_EmptySet, FS_Singleton
  <2> QED BY <2>1, <2>2, <2>3
<1> QED BY <1>1 DEF Watch

\* Every step of the only thread leaves its work undisturbed.
LEMMA AloneStep ==
  ASSUME Worker = {}
  PROVE  Types /\ AloneInv /\ [ThreadsNext]_threadVars => AloneInv'
<1> SUFFICES ASSUME Types, AloneInv, [ThreadsNext]_threadVars
             PROVE  AloneInv'
  OBVIOUS
<1> USE OneThread
<1>0. EventLoop \in Thread /\ LoopUndisturbed /\ trusted /\ crossed = {}
  BY DEF AloneInv
<1>1. ASSUME Quiet(EventLoop), Watch PROVE AloneInv'
  BY <1>0, <1>1, QuietEffect, QuietUndisturbed, NobodyCrosses DEF AloneInv
<1>2. ASSUME WriteMisses(EventLoop) \/ Doubt(EventLoop), Watch PROVE AloneInv'
  <2>1. trusted' = trusted
    BY <1>2 DEF WriteMisses, Doubt
  <2>2. th'[EventLoop].pc \in {"idle", "look", "judge"}
    BY <1>0, <1>2, WriteMissesEffect, DoubtEffect
  <2> QED BY <1>0, <1>2, <2>1, <2>2, NobodyCrosses DEF AloneInv, LoopUndisturbed
<1>3. ASSUME Install(EventLoop), Watch PROVE AloneInv'
  BY <1>0, <1>3, InstallEffect, NobodyCrosses DEF AloneInv, LoopUndisturbed
<1>4. ASSUME Bury(EventLoop), Watch PROVE AloneInv'
  <2>1. trusted' = trusted /\ th'[EventLoop] = Rebuilding(EventLoop, Registered, "look")
    BY <1>0, <1>4 DEF Bury
  <2>2. th'[EventLoop].pc = "collect"
    BY <1>0, <1>4, BuryEffect
  <2> QED BY <1>0, <1>4, <2>1, <2>2, RebuildingClean, NobodyCrosses
          DEF AloneInv, LoopUndisturbed
<1>5. ASSUME NEW n \in Node, NEW b \in {"idle", "hear"}, StoreMetadata(n, b), Watch
      PROVE  AloneInv'
  <2>1. PICK r, x : /\ r = Rebuilding(EventLoop, Registered \cup {n}, b)
                    /\ th'[EventLoop] = [r EXCEPT !.node = x]
    BY <1>0, <1>5 DEF StoreMetadata
  <2>2. r.clean /\ trusted' = trusted
    BY <1>5, <2>1, RebuildingClean DEF StoreMetadata
  <2>3. th'[EventLoop].clean
    BY <2>1, <2>2 DEF Rebuilding, Idle
  <2>4. th'[EventLoop].pc = "collect"
    BY <1>5, StoreEffect
  <2> QED BY <1>0, <1>5, <2>2, <2>3, <2>4, NobodyCrosses DEF AloneInv, LoopUndisturbed
<1>6. ASSUME NEW n \in Node, Hear(n), Watch PROVE AloneInv'
  <2>1. trusted' = trusted
    BY <1>6 DEF Hear
  <2> QED BY <1>0, <1>6, <2>1, HearEffect, NobodyCrosses DEF AloneInv, LoopUndisturbed
<1>7. ASSUME NEW pc \in {"recover", "return"}, NEW s \in HealthStatus,
             Revive(pc, s), Watch, th[EventLoop].old # s
      PROVE  AloneInv'
  <2>1. pc \in HandlerPc
    BY DEF HandlerPc
  <2>2. trusted'
    BY <1>0, <1>7 DEF Revive
  <2> QED BY <1>0, <1>7, <2>1, <2>2, ReviveEffect, NobodyCrosses
          DEF AloneInv, LoopUndisturbed
<1>8. ASSUME Revive("recover", "recovered"), Watch PROVE AloneInv'
  <2>1. th[EventLoop].old = "dead"
    BY <1>0, <1>8 DEF Revive, LoopUndisturbed
  <2> QED BY <1>7, <1>8, <2>1 DEF HealthStatus
<1>9. ASSUME Revive("return", "alive"), Watch PROVE AloneInv'
  <2>1. th[EventLoop].old = "suspect"
    BY <1>0, <1>9 DEF Revive, LoopUndisturbed
  <2> QED BY <1>7, <1>9, <2>1 DEF HealthStatus
<1>10. ASSUME TimePasses, Watch PROVE AloneInv'
  <2>1. UNCHANGED <<status, th, trusted>>
    BY <1>10 DEF TimePasses, Tick
  <2> QED BY <1>0, <1>10, <2>1, NobodyCrosses DEF AloneInv, LoopUndisturbed
<1>11. CASE UNCHANGED threadVars
  BY <1>0, <1>11 DEF threadVars, vars, AloneInv, LoopUndisturbed
<1> QED BY <1>1, <1>2, <1>3, <1>4, <1>5, <1>6, <1>8, <1>9, <1>10, <1>11, Cases

\* With the event loop as the only thread the races that HealthCheck describes
\* cannot happen: between two methods the ring and the counters are right, as
\* they are in ClusterManager, where a method is one step.
THEOREM EventLoopAloneIsSafe ==
  ASSUME Worker = {}
  PROVE  ThreadsSpec => []RightBetweenMethods
<1>1. ThreadsInit => AloneInv
  <2> SUFFICES ASSUME ThreadsInit PROVE AloneInv
    OBVIOUS
  <2>1. th[EventLoop].pc = "idle"
    BY IdleGood DEF ThreadsInit, Thread
  <2> QED BY <2>1 DEF ThreadsInit, AloneInv, LoopUndisturbed
<1>2. ThreadsInv /\ AloneInv /\ [ThreadsNext]_threadVars => AloneInv'
  BY AloneStep DEF ThreadsInv
<1>3. ThreadsInv /\ AloneInv => RightBetweenMethods
  <2> SUFFICES ASSUME ThreadsInv, AloneInv, th[EventLoop].pc = "idle"
               PROVE  /\ RoutesOnlyToLiveNodes /\ AliveNodesAreRouted
                      /\ \A n \in Registered : Agree(n)
    BY DEF RightBetweenMethods
  <2>1. Thread = {EventLoop} /\ trusted /\ crossed = {}
    BY OneThread DEF AloneInv
  <2>2. Collectors = {} /\ \A n \in Node : ~ AboutToRebuild(n)
    BY <2>1 DEF Collectors, AboutToRebuild
  <2>3. \A n \in Node : Routed(n)
    BY <2>1, <2>2 DEF ThreadsInv, RingInv
  <2>4. RoutesOnlyToLiveNodes /\ AliveNodesAreRouted
    BY <2>3 DEF ThreadsInv, Types, Routed, RoutesOnlyToLiveNodes, AliveNodesAreRouted
  <2>5. \A t \in Thread, n \in Node : ~ InVisit(t, n)
    BY <2>1 DEF InVisit
  <2>6. \A n \in Registered : n \in Node /\ Told(n)
    BY <2>1 DEF ThreadsInv, ToldInv, Registered
  <2> QED BY <2>4, <2>5, <2>6 DEF Told
<1> QED BY <1>1, <1>2, <1>3, ThreadsInvariance, PTL DEF ThreadsSpec
=============================================================================
