--------------------------- MODULE CircuitBreaker ---------------------------
(***************************************************************************)
(* The gateway's per-node circuit breaker                                  *)
(* (gateway/app/services/circuit_breaker.py), driven the way the request   *)
(* handlers drive it (call_node, get_key, put_key and delete_key of        *)
(* gateway/app/api/cache.py).                                              *)
(*                                                                         *)
(* Everything between two awaits runs without interruption on the event    *)
(* loop.  A handler asks is_available for the nodes it considers, chooses  *)
(* one and issues the HTTP call in one step; the call is then in flight    *)
(* while other handlers run, and its outcome is recorded in a later step.  *)
(*                                                                         *)
(* Two counters are kept only as far as the code tells their values apart: *)
(* failure_count, which is only compared with failure_threshold, stops at  *)
(* failure_threshold, and since_failure, the age time.time() -             *)
(* last_failure_time, which is only compared with timeout_s, stops at      *)
(* timeout_s.                                                              *)
(***************************************************************************)
EXTENDS Naturals, FiniteSets

CONSTANTS
    Node,               \* ids of the cache nodes
    Request,            \* slots for the client requests being served
    NoNode,             \* the target of a slot with no call in flight
    failure_threshold,  \* failures that open a circuit
    timeout_s           \* cool-down of an open circuit, in clock ticks

ASSUME BreakerAssumption ==
    /\ failure_threshold \in Nat \ {0}
    /\ timeout_s \in Nat
    /\ NoNode \notin Node

VARIABLES
    circuits,   \* CircuitBreaker.states: the NodeCircuit of every node
    target,     \* target[r]: the node that request r has a call in flight to
    admitted    \* admitted[r]: state of that node's circuit when it was let in

vars == <<circuits, target, admitted>>

BreakerState == {"closed", "open", "half_open"}

Circuit ==
    [state : BreakerState,
     failure_count : 0..failure_threshold,
     since_failure : 0..timeout_s]

\* Circuits and slots have their types: no method leaves a circuit with a
\* failure count below zero or an age past the cool-down.
TypeOK ==
    /\ circuits \in [Node -> Circuit]
    /\ target \in [Request -> Node \cup {NoNode}]
    /\ admitted \in [Request -> BreakerState]

\* A circuit that _get creates on first use.  A node that was never asked for
\* behaves as one with a new circuit, so circuits is total from the start.
NewCircuit == [state |-> "closed", failure_count |-> 0, since_failure |-> 0]

Init ==
    /\ circuits = [n \in Node |-> NewCircuit]
    /\ target = [r \in Request |-> NoNode]
    /\ admitted = [r \in Request |-> "closed"]

-----------------------------------------------------------------------------
(* The three methods, as functions of one circuit. *)

\* Faulty variant: a success forgives one failure, counted below zero as well.
AfterSuccessForgivesOne(c) ==
    [c EXCEPT !.state = "closed", !.failure_count = @ - 1]

AfterSuccess(c) ==
    [state |-> "closed", failure_count |-> 0, since_failure |-> c.since_failure]

\* Faulty variant: a failed probe counts, but the circuit is never reopened.
AfterFailureOnlyClosedTrips(c) ==
    LET k == IF c.failure_count < failure_threshold THEN c.failure_count + 1
                                                    ELSE c.failure_count
    IN  [state |-> IF k = failure_threshold /\ c.state = "closed"
                   THEN "open" ELSE c.state,
         failure_count |-> k,
         since_failure |-> 0]

AfterFailure(c) ==
    LET k == IF c.failure_count < failure_threshold THEN c.failure_count + 1
                                                    ELSE c.failure_count
    IN  [state |-> IF k = failure_threshold THEN "open" ELSE c.state,
         failure_count |-> k,
         since_failure |-> 0]

CooledDown(c) == c.since_failure >= timeout_s

\* The answer of is_available ...
Available(c) == c.state # "open" \/ CooledDown(c)

\* Faulty variant: a refused request restarts the cool-down.
AfterQueryRestartsCooldown(c) ==
    IF c.state # "open" THEN c
    ELSE IF CooledDown(c)
         THEN [c EXCEPT !.state = "half_open", !.failure_count = 0]
         ELSE [c EXCEPT !.since_failure = 0]

\* ... and what asking does to the circuit.
AfterQuery(c) ==
    IF c.state = "open" /\ CooledDown(c)
    THEN [state |-> "half_open", failure_count |-> 0,
          since_failure |-> c.since_failure]
    ELSE c

-----------------------------------------------------------------------------
(***************************************************************************)
(* A handler serving r asks for the nodes S (all replicas of the key for a *)
(* GET, the primary alone for a PUT or DELETE) and calls one of them that  *)
(* is available, n.  When none is available the handler answers 503 and    *)
(* nothing changes, except that S was asked for: that is Refuse.           *)
(***************************************************************************)
Ask(S) ==
    circuits' = [m \in Node |-> IF m \in S THEN AfterQuery(circuits[m])
                                           ELSE circuits[m]]

Dispatch(r, S, n) ==
    /\ target[r] = NoNode
    /\ n \in S
    /\ Available(circuits[n])
    /\ Ask(S)
    /\ target' = [target EXCEPT ![r] = n]
    /\ admitted' = [admitted EXCEPT ![r] = AfterQuery(circuits[n]).state]

Refuse(S) ==
    /\ \A n \in S : ~ Available(circuits[n])
    /\ Ask(S)
    /\ UNCHANGED <<target, admitted>>

\* The call ends; the slot is free for another request.
Finish(r) ==
    /\ target[r] # NoNode
    /\ target' = [target EXCEPT ![r] = NoNode]
    /\ admitted' = [admitted EXCEPT ![r] = "closed"]

\* The node answered with a status below 500.
CallSucceeds(r) ==
    /\ Finish(r)
    /\ circuits' = [circuits EXCEPT ![target[r]] = AfterSuccess(@)]

\* The node answered with a status of 500 or more, refused the connection, or
\* did not answer within the request's timeout.
CallFails(r) ==
    /\ Finish(r)
    /\ circuits' = [circuits EXCEPT ![target[r]] = AfterFailure(@)]

\* Any other exception of the HTTP client (a connection dropped half way)
\* passes call_node without being recorded.
CallBreaks(r) ==
    /\ Finish(r)
    /\ UNCHANGED circuits

\* One tick of the clock.
AgeCircuits ==
    circuits' = [n \in Node |->
                    IF circuits[n].since_failure < timeout_s
                    THEN [circuits[n] EXCEPT !.since_failure = @ + 1]
                    ELSE circuits[n]]

Tick ==
    /\ AgeCircuits
    /\ UNCHANGED <<target, admitted>>

Next ==
    \/ \E r \in Request, S \in SUBSET Node : \E n \in S : Dispatch(r, S, n)
    \/ \E S \in (SUBSET Node) \ {{}} : Refuse(S)
    \/ \E r \in Request : CallSucceeds(r)
    \/ \E r \in Request : CallFails(r)
    \/ \E r \in Request : CallBreaks(r)
    \/ Tick

Spec == Init /\ [][Next]_vars

(***************************************************************************)
(* Time passes, every call ends (call_node gives the HTTP client a timeout *)
(* of five seconds), and requests for the keys of every node keep coming.  *)
(* The slots are a bound of the model: strong fairness says that a slot    *)
(* that is free again and again is used for a request to n.                *)
(***************************************************************************)
Traffic(n) == \E r \in Request : Dispatch(r, {n}, n)

FairSpec ==
    /\ Spec
    /\ WF_vars(Tick)
    /\ \A r \in Request :
          WF_vars(CallSucceeds(r) \/ CallFails(r) \/ CallBreaks(r))
    /\ \A n \in Node : SF_vars(Traffic(n))

-----------------------------------------------------------------------------
(***************************************************************************)
(* A circuit is open exactly when failure_threshold failures have been     *)
(* recorded since its last success or probe: no sequence of late answers,  *)
(* late failures and probes leaves a node with too many failures routable, *)
(* or a node below the threshold cut off.                                  *)
(***************************************************************************)
OpenIffThreshold ==
    \A n \in Node : circuits[n].state = "open"
                        <=> circuits[n].failure_count = failure_threshold

(***************************************************************************)
(* An open circuit does not stay open for ever: calls admitted before it   *)
(* opened may still fail and restart the cool-down, but they run out, the  *)
(* cool-down ends and the next request probes the node.                    *)
(***************************************************************************)
OpenCircuitIsProbed ==
    \A n \in Node : circuits[n].state = "open" ~> circuits[n].state # "open"

Probes(n) == {r \in Request : target[r] = n /\ admitted[r] = "half_open"}

(***************************************************************************)
(* What the module's own documentation says of HALF_OPEN: one probe        *)
(* request is allowed.  At most one call let in by a half-open circuit of  *)
(* a node is in flight at any time.                                        *)
(***************************************************************************)
OneProbeAtATime ==
    \A n \in Node : Cardinality(Probes(n)) <= 1
=============================================================================
