------------------------ MODULE CircuitBreakerProofs ------------------------
(***************************************************************************)
(* The circuit breaker is consistent for every set of nodes and requests,  *)
(* every threshold and every cool-down.                                    *)
(***************************************************************************)
EXTENDS CircuitBreaker, TLAPS

(***************************************************************************)
(* A circuit is sound when it has its type and is open exactly at the      *)
(* threshold.  Each method keeps one circuit sound; the steps of the       *)
(* breaker only apply methods to circuits, so the invariant follows.       *)
(***************************************************************************)
Sound(c) ==
    /\ c \in Circuit
    /\ c.state = "open" <=> c.failure_count = failure_threshold

Inv ==
    /\ TypeOK
    /\ \A n \in Node : Sound(circuits[n])

\* record_success closes the circuit and forgets its failures.
LEMMA SuccessSound ==
  ASSUME NEW c, Sound(c)
  PROVE  Sound(AfterSuccess(c))
<1>1. AfterSuccess(c) \in Circuit
  BY BreakerAssumption DEF Sound, Circuit, AfterSuccess, BreakerState
<1>2. AfterSuccess(c).state = "closed" /\ AfterSuccess(c).failure_count = 0
  BY DEF Sound, Circuit, AfterSuccess
<1> QED BY <1>1, <1>2, BreakerAssumption DEF Sound

\* record_failure opens the circuit exactly when it counts the last failure.
LEMMA FailureSound ==
  ASSUME NEW c, Sound(c)
  PROVE  Sound(AfterFailure(c))
  BY BreakerAssumption DEF Sound, Circuit, AfterFailure, BreakerState

\* is_available may turn an open circuit into a half-open one with no failures.
LEMMA QuerySound ==
  ASSUME NEW c, Sound(c)
  PROVE  Sound(AfterQuery(c)) /\ AfterQuery(c).state \in BreakerState
<1>1. CASE c.state = "open" /\ CooledDown(c)
  <2>1. AfterQuery(c) \in Circuit
    BY <1>1, BreakerAssumption DEF Sound, Circuit, AfterQuery, BreakerState
  <2>2. AfterQuery(c).state = "half_open" /\ AfterQuery(c).failure_count = 0
    BY <1>1 DEF Sound, Circuit, AfterQuery
  <2> QED BY <2>1, <2>2, BreakerAssumption DEF Sound, BreakerState
<1>2. CASE ~ (c.state = "open" /\ CooledDown(c))
  BY <1>2 DEF Sound, Circuit, AfterQuery
<1> QED BY <1>1, <1>2

\* The clock changes the age of the last failure only.
LEMMA AgedSound ==
  ASSUME NEW c, Sound(c), c.since_failure < timeout_s
  PROVE  Sound([c EXCEPT !.since_failure = @ + 1])
  BY BreakerAssumption DEF Sound, Circuit, BreakerState

\* Every circuit is created closed and without failures.
LEMMA InitInv == Init => Inv
  BY BreakerAssumption
     DEF Init, Inv, TypeOK, Sound, Circuit, NewCircuit, BreakerState

\* A step that leaves every circuit sound preserves the invariant.
LEMMA SoundSuffices ==
  ASSUME circuits' = [n \in Node |-> circuits'[n]],
         \A n \in Node : Sound(circuits'[n]),
         target' \in [Request -> Node \cup {NoNode}],
         admitted' \in [Request -> BreakerState]
  PROVE  Inv'
  BY DEF Inv, TypeOK, Sound

\* Asking for the nodes of S leaves every circuit sound.
LEMMA AskSound ==
  ASSUME Inv, NEW S \in SUBSET Node, Ask(S)
  PROVE  /\ circuits' = [n \in Node |-> circuits'[n]]
         /\ \A n \in Node : Sound(circuits'[n])
  BY QuerySound DEF Inv, Ask

\* A request is let in: the nodes it considers are asked, one is called.
LEMMA DispatchInv ==
  ASSUME Inv, NEW r \in Request, NEW S \in SUBSET Node, NEW n \in S,
         Dispatch(r, S, n)
  PROVE  Inv'
<1>1. target' \in [Request -> Node \cup {NoNode}]
  BY DEF Dispatch, Inv, TypeOK
<1>2. admitted' \in [Request -> BreakerState]
  BY QuerySound DEF Dispatch, Inv, TypeOK
<1> QED BY <1>1, <1>2, AskSound, SoundSuffices DEF Dispatch

\* A request is refused: the nodes it considers are asked.
LEMMA RefuseInv ==
  ASSUME Inv, NEW S \in SUBSET Node, Refuse(S)
  PROVE  Inv'
  BY AskSound, SoundSuffices DEF Refuse, Inv, TypeOK

\* The end of a call frees its slot and leaves the types of slots alone.
LEMMA FinishTypes ==
  ASSUME Inv, NEW r \in Request, Finish(r)
  PROVE  /\ target[r] \in Node
         /\ target' \in [Request -> Node \cup {NoNode}]
         /\ admitted' \in [Request -> BreakerState]
  BY DEF Finish, Inv, TypeOK, BreakerState

\* However a call ends, only the circuit of its node changes, by a method.
LEMMA CallEndsInv ==
  ASSUME Inv, NEW r \in Request,
         CallSucceeds(r) \/ CallFails(r) \/ CallBreaks(r)
  PROVE  Inv'
<1>1. Finish(r)
  BY DEF CallSucceeds, CallFails, CallBreaks
<1>2. CASE CallSucceeds(r)
  BY <1>1, <1>2, FinishTypes, SuccessSound, SoundSuffices
     DEF CallSucceeds, Inv, TypeOK
<1>3. CASE CallFails(r)
  BY <1>1, <1>3, FinishTypes, FailureSound, SoundSuffices
     DEF CallFails, Inv, TypeOK
<1>4. CASE CallBreaks(r)
  BY <1>1, <1>4, FinishTypes, SoundSuffices DEF CallBreaks, Inv, TypeOK
<1> QED BY <1>2, <1>3, <1>4

\* The passing of time keeps every circuit sound.
LEMMA TickInv ==
  ASSUME Inv, Tick
  PROVE  Inv'
<1>1. \A n \in Node : Sound(circuits'[n])
  BY AgedSound DEF Tick, AgeCircuits, Inv
<1> QED BY <1>1, SoundSuffices DEF Tick, AgeCircuits, Inv, TypeOK

\* Every step of the breaker preserves Inv.
LEMMA NextInv == Inv /\ [Next]_vars => Inv'
<1> SUFFICES ASSUME Inv, [Next]_vars PROVE Inv'
  OBVIOUS
<1>1. CASE \E r \in Request, S \in SUBSET Node : \E n \in S : Dispatch(r, S, n)
  BY <1>1, DispatchInv
<1>2. CASE \E S \in (SUBSET Node) \ {{}} : Refuse(S)
  BY <1>2, RefuseInv
<1>3. CASE \E r \in Request : CallSucceeds(r) \/ CallFails(r) \/ CallBreaks(r)
  BY <1>3, CallEndsInv
<1>4. CASE Tick
  BY <1>4, TickInv
<1>5. CASE UNCHANGED vars
  BY <1>5 DEF vars, Inv, TypeOK, Sound
<1> QED BY <1>1, <1>2, <1>3, <1>4, <1>5 DEF Next

\* Inv holds in every reachable state of the breaker.
THEOREM Invariance == Spec => []Inv
  BY InitInv, NextInv, PTL DEF Spec

\* The circuits and request slots keep their types.
THEOREM TypeCorrect == Spec => []TypeOK
  BY Invariance, PTL DEF Inv

\* A circuit is open exactly when failure_threshold failures are recorded,
\* however late answers, late failures and probes interleave.
THEOREM OpenAtThreshold == Spec => []OpenIffThreshold
<1>1. Inv => OpenIffThreshold
  BY DEF Inv, Sound, OpenIffThreshold
<1> QED BY <1>1, Invariance, PTL
=============================================================================
