-------------------------- MODULE DataPlaneProofs ---------------------------
(***************************************************************************)
(* For any number of nodes, keys, values and calls in flight: acknowledged *)
(* writes stay where they were acknowledged, clients are told the truth,   *)
(* and a pin names the node of the write it was made for.                  *)
(*                                                                         *)
(* The properties speak of what a node may have, given the writes that     *)
(* were sent and acknowledged.  The invariant that carries them says that  *)
(* the two histories, may of an entry and others of a call, leave out none *)
(* of the writes that have yet to land, whoever still waits for them.      *)
(***************************************************************************)
EXTENDS DataPlane, TLAPS, WellFoundedInduction

CallRecord ==
    [op : {"none", "get", "put", "delete"}, key : Key \cup {NoValue},
     value : Value \cup {NoValue}, node : Node \cup {NoNode},
     phase : {"sent", "checked", "ran"}, waiting : BOOLEAN, found : BOOLEAN,
     answer : Value \cup {NoValue}, was : SUBSET Content, others : SUBSET Content]

Age == 0..(READ_YOUR_WRITES_PIN + 1)

PinRecord == [node : Node \cup {NoNode}, age : Age]

\* Slots are free or hold a call of a key to a node; only a PUT has a value
\* and is handled in two steps.
CallOK(r) ==
    /\ r.op = "none" => ~ r.waiting /\ r.phase = "sent"
    /\ r.op # "none" => r.node \in Node /\ r.key \in Key
    /\ r.op = "put" <=> r.value \in Value
    /\ r.phase = "checked" => r.op = "put"

Types ==
    /\ stores \in [Node -> [Key -> Content]]
    /\ call \in [Call -> CallRecord]
    /\ \A c \in Call : CallOK(call[c])
    /\ recent_writes \in [Key -> PinRecord]
    /\ may \in [Node -> [Key -> SUBSET Content]]
    /\ acked \in [Key -> PinRecord]

Writes(d) == call[d].op \in {"put", "delete"}

\* A write that has yet to land, whether somebody waits for it or not.
Pending(d) == Writes(d) /\ call[d].phase # "ran"

SameEntry(c, d) == call[c].node = call[d].node /\ call[c].key = call[d].key

\* A call that is told of other writes.
Listens(c) == call[c].waiting /\ (call[c].op = "get" => call[c].phase = "sent")

\* A pending write is among what its node may have ...
PendingMayLand ==
    \A d \in Call : Pending(d) => call[d].value \in may[call[d].node][call[d].key]

\* ... and among what the calls to the same entry know of.
PendingIsKnown ==
    \A c, d \in Call : c # d /\ Listens(c) /\ Pending(d) /\ SameEntry(c, d) =>
        call[d].value \in call[c].others

\* A write that has landed is still there, or one that it knows of.
LandedStays ==
    \A c \in Call : call[c].waiting /\ Writes(c) /\ call[c].phase = "ran" =>
        Stored(c) \in {call[c].value} \cup call[c].others

\* A call finds what its client may expect, and contains() said so.
Sees ==
    \A c \in Call : call[c].waiting =>
        /\ call[c].phase = "sent" => Stored(c) \in Expected(c)
        /\ call[c].phase = "checked" => TrueOf(Expected(c), "put", call[c].found, NoValue)

Inv ==
    /\ Types
    /\ AckedWritesStay /\ PendingMayLand /\ PendingIsKnown /\ LandedStays /\ Sees
    /\ PinFollowsWrite

\* What AnswersAreTrue says of a step.
Truthful ==
    \A c \in Call :
        call[c].waiting /\ call[c].phase # "ran" /\ call'[c].phase = "ran" =>
            TrueOf(Expected(c), call[c].op, call'[c].found, call'[c].answer)

-----------------------------------------------------------------------------
(* Routing. *)

\* The least-number principle for sets.
LEMMA LeastNumber ==
    ASSUME NEW T \in SUBSET Nat, T # {}
    PROVE  \E x \in T : \A y \in T : x <= y
<1> DEFINE R == {p \in Nat \X Nat : p[1] < p[2]}
<1>1. IsWellFoundedOn(R, Nat)
  BY NatLessThanWellFounded DEF OpToRel
<1>2. PICK x \in T : \A y \in T : ~ (<<y, x>> \in R)
  <2> HIDE DEF R
  <2> QED
    BY <1>1, WFMin
<1>3. \A y \in T : ~ (y < x)
  BY <1>2
<1> QED
  BY <1>3

\* Of any nodes one comes first on the walk from a key.
LEMMA FirstOnWalk ==
    ASSUME NEW k \in Key, NEW S \in SUBSET Node, S # {}
    PROVE  \E n \in S : \A m \in S : rank[k][n] <= rank[k][m]
<1> DEFINE R == {rank[k][n] : n \in S}
<1>1. R \in SUBSET Nat /\ R # {}
  BY DataPlaneAssumption
<1>2. PICK x \in R : \A y \in R : x <= y
  <2> HIDE DEF R
  <2> QED
    BY <1>1, LeastNumber
<1> QED
  BY <1>2

\* A GET goes to a node of the ring ...
LEMMA PickReplicaType ==
    ASSUME NEW k \in Key, NEW ring \in SUBSET Node,
           NEW available \in (SUBSET Replicas(ring, k)) \ {{}}
    PROVE  PickReplica(k, available) \in Node
<1>1. available \in SUBSET Node /\ available # {}
  BY DEF Replicas
<1>2. \E n \in available : \A m \in available : rank[k][n] <= rank[k][m]
  BY <1>1, FirstOnWalk
<1> QED
  BY <1>1, <1>2 DEF PickReplica

\* ... and so does a PUT or a DELETE, if there is one.
LEMMA PrimaryType ==
    ASSUME NEW k \in Key, NEW n \in WriteTargets(k)
    PROVE  n \in Node
<1>1. PICK ring \in SUBSET Node : ring # {} /\ n = Primary(ring, k)
  BY DEF WriteTargets, Primary
<1>2. PICK m \in ring : \A l \in ring : rank[k][m] <= rank[k][l]
  BY <1>1, FirstOnWalk
<1>3. rank[k] \in [Node -> Nat] /\ ring \in SUBSET Node
  BY DataPlaneAssumption
<1>4. Ahead(ring, k, m) = {}
  BY <1>2, <1>3 DEF Ahead
<1> QED
  BY <1>1, <1>3, <1>4 DEF Primary

-----------------------------------------------------------------------------
(* Records of calls. *)

\* A free slot is in order.
LEMMA NoCallType ==
    /\ NoCall \in CallRecord /\ CallOK(NoCall)
    /\ NoCall.op = "none" /\ ~ NoCall.waiting /\ NoCall.phase = "sent"
  BY DataPlaneAssumption DEF NoCall, CallRecord, CallOK, Content

\* What a call is and where it goes stays the same.
SameCall(r, q) ==
    /\ r.op = q.op /\ r.key = q.key /\ r.value = q.value /\ r.node = q.node

\* Nor is anything forgotten that the call knew its entry may hold.
Remembers(r, q) ==
    /\ q.others \subseteq r.others
    /\ q.was \cup q.others \subseteq r.was \cup r.others

\* A call that is told that its entry may have become x knows it then.
LEMMA ToldEffect ==
    ASSUME Types, NEW S, NEW x \in Content, NEW d \in Call, NEW r, r = Told(S, x)[d]
    PROVE  /\ r \in CallRecord /\ CallOK(r) /\ SameCall(r, call[d])
           /\ r.phase = call[d].phase /\ r.waiting = call[d].waiting
           /\ r.found = call[d].found /\ r.answer = call[d].answer
           /\ Remembers(r, call[d])
           /\ Listens(d) /\ <<call[d].node, call[d].key>> \in S => x \in r.others
<1>1. call[d] \in CallRecord /\ CallOK(call[d])
  BY DEF Types
<1>2. CASE Listens(d) /\ <<call[d].node, call[d].key>> \in S
  <2>1. PICK w \in SUBSET Content : w = call[d].was \ {x}
    BY <1>1 DEF CallRecord
  <2>2. PICK o \in SUBSET Content : o = call[d].others \cup {x}
    BY <1>1 DEF CallRecord
  <2>3. r = [call[d] EXCEPT !.was = w, !.others = o]
    <3>1. r = [call[d] EXCEPT !.was = @ \ {x}, !.others = @ \cup {x}]
      BY <1>2 DEF Told, Listens
    <3> QED
      BY <1>1, <2>1, <2>2, <3>1 DEF CallRecord
  <2>4. r \in CallRecord
    BY <1>1, <2>3 DEF CallRecord
  <2>5. /\ SameCall(r, call[d]) /\ r.phase = call[d].phase /\ r.waiting = call[d].waiting
        /\ r.found = call[d].found /\ r.answer = call[d].answer
        /\ r.was = w /\ r.others = o
    BY <1>1, <2>3 DEF CallRecord, SameCall
  <2> QED
    BY <1>1, <2>1, <2>2, <2>4, <2>5 DEF CallOK, SameCall, Remembers
<1>3. CASE ~ (Listens(d) /\ <<call[d].node, call[d].key>> \in S)
  <2>1. r = call[d]
    BY <1>3 DEF Told, Listens
  <2> QED
    BY <1>1, <1>3, <2>1 DEF SameCall, Remembers
<1> QED
  BY <1>2, <1>3

\* The node is done with a call.
LEMMA RanEffect ==
    ASSUME Types, NEW c \in Call, call[c].op # "none", NEW f \in BOOLEAN,
           NEW a \in Value \cup {NoValue}, NEW r, r = Ran(c, f, a)
    PROVE  /\ r \in CallRecord /\ CallOK(r) /\ SameCall(r, call[c])
           /\ r.phase = "ran" /\ r.waiting = call[c].waiting
           /\ r.found = f /\ r.answer = a
           /\ call[c].op # "get" => r.others = call[c].others
<1>1. call[c] \in CallRecord /\ CallOK(call[c])
  BY DEF Types
<1>2. PICK o \in SUBSET Content : o = IF call[c].op = "get" THEN {} ELSE call[c].others
  BY <1>1 DEF CallRecord
<1>3. r = [call[c] EXCEPT !.phase = "ran", !.found = f, !.answer = a, !.was = {}, !.others = o]
  BY <1>2 DEF Ran
<1>4. r \in CallRecord
  BY <1>1, <1>2, <1>3 DEF CallRecord
<1>5. /\ SameCall(r, call[c]) /\ r.phase = "ran" /\ r.waiting = call[c].waiting
      /\ r.found = f /\ r.answer = a /\ r.others = o
  BY <1>1, <1>3 DEF CallRecord, SameCall
<1> QED
  BY <1>1, <1>2, <1>4, <1>5 DEF CallOK, SameCall
-----------------------------------------------------------------------------
(* The gateway starts a call. *)

\* A new write is told to the calls under way and added to what its node may
\* have; a new call knows of the writes that have yet to land.
LEMMA StartKeepsInv ==
    ASSUME Inv, NEW c \in Call, NEW op \in {"get", "put", "delete"},
           NEW k \in Key, NEW v \in Value \cup {NoValue}, NEW n \in Node,
           op = "put" <=> v \in Value, Start(c, op, k, v, n)
    PROVE  Inv' /\ Truthful
<1> DEFINE S == IF op = "get" THEN {} ELSE {<<n, k>>}
           heard == InFlight(n, k) \cup (IF op = "get" THEN may[n][k] ELSE {})
           new == [NoCall EXCEPT !.op = op, !.key = k, !.value = v, !.node = n,
                                 !.waiting = TRUE, !.was = may[n][k] \ heard,
                                 !.others = heard]
<1>0. Types /\ v \in Content
  BY DEF Inv, Content
<1>1. /\ stores' = stores /\ recent_writes' = recent_writes /\ acked' = acked
      /\ call[c].op = "none"
      /\ call' = [Told(S, v) EXCEPT ![c] = new]
      /\ may' = IF op = "get" THEN may ELSE [may EXCEPT ![n][k] = @ \cup {v}]
  BY DEF Start
<1>2. /\ heard \in SUBSET Content /\ may[n][k] \in SUBSET Content
      /\ InFlight(n, k) \subseteq heard
  BY <1>0 DEF InFlight, Types, CallRecord, Content
<1> HIDE DEF heard
<1>3. /\ new \in CallRecord /\ CallOK(new)
      /\ new.op = op /\ new.key = k /\ new.value = v /\ new.node = n
      /\ new.phase = "sent" /\ new.waiting
      /\ InFlight(n, k) \subseteq new.others /\ may[n][k] \subseteq new.was \cup new.others
  <2>1. new \in CallRecord
    BY <1>2, NoCallType DEF CallRecord
  <2>2. /\ new.op = op /\ new.key = k /\ new.value = v /\ new.node = n
        /\ new.phase = "sent" /\ new.waiting
        /\ new.was = may[n][k] \ heard /\ new.others = heard
    BY DEF NoCall
  <2> QED
    BY <1>2, <2>1, <2>2 DEF CallOK
<1>4. call' \in [Call -> CallRecord] /\ call'[c] = new
      /\ \A d \in Call : d # c => call'[d] = Told(S, v)[d]
  <2>1. Told(S, v) = [d \in Call |-> Told(S, v)[d]]
    BY DEF Told
  <2>2. \A d \in Call : Told(S, v)[d] \in CallRecord
    BY <1>0, ToldEffect
  <2> HIDE DEF new, S
  <2> QED
    BY <1>1, <1>3, <2>1, <2>2
<1> HIDE DEF new
<1>5. ASSUME NEW d \in Call, d # c
      PROVE  /\ CallOK(call'[d]) /\ SameCall(call'[d], call[d])
             /\ call'[d].phase = call[d].phase /\ call'[d].waiting = call[d].waiting
             /\ call'[d].found = call[d].found
             /\ Remembers(call'[d], call[d])
             /\ Listens(d) /\ <<call[d].node, call[d].key>> \in S => v \in call'[d].others
  <2> HIDE DEF S
  <2> QED
    BY <1>0, <1>4, <1>5, ToldEffect
<1>6. /\ may' \in [Node -> [Key -> SUBSET Content]]
      /\ \A m \in Node, j \in Key : may[m][j] \subseteq may'[m][j]
      /\ op # "get" => v \in may'[n][k]
  BY <1>0, <1>1 DEF Types
<1>7. Types'
  <2>1. \A d \in Call : CallOK(call'[d])
    BY <1>3, <1>4, <1>5
  <2> QED
    BY <1>0, <1>1, <1>4, <1>6, <2>1 DEF Types
<1>8. AckedWritesStay'
  BY <1>1, <1>6 DEF AckedWritesStay, Inv
<1>9. \A d \in Call : Pending(d)' => (d = c /\ op # "get") \/ (d # c /\ Pending(d))
  BY <1>3, <1>4, <1>5 DEF Pending, Writes, SameCall
<1>10. PendingMayLand'
  <2> SUFFICES ASSUME NEW d \in Call, Pending(d)'
               PROVE  call'[d].value \in may'[call'[d].node][call'[d].key]
    BY DEF PendingMayLand
  <2>1. CASE d = c
    BY <1>3, <1>4, <1>6, <1>9, <2>1
  <2>2. CASE d # c
    <3>1. Pending(d) /\ call[d].node \in Node /\ call[d].key \in Key
      BY <1>0, <1>9, <2>2 DEF Types, CallOK, Pending, Writes
    <3> QED
      BY <1>5, <1>6, <2>2, <3>1 DEF PendingMayLand, SameCall, Inv
  <2> QED
    BY <2>1, <2>2
<1>11. PendingIsKnown'
  <2> SUFFICES ASSUME NEW b \in Call, NEW d \in Call, b # d, Listens(b)', Pending(d)',
                      SameEntry(b, d)'
               PROVE  call'[d].value \in call'[b].others
    BY DEF PendingIsKnown
  <2>1. CASE b = c
    <3>1. d # c /\ Pending(d) /\ Concerns(d, n, k) /\ call'[d].value = call[d].value
      BY <1>3, <1>4, <1>5, <1>9, <2>1 DEF SameEntry, Concerns, SameCall
    <3>2. call[d].value \in InFlight(n, k)
      BY <3>1 DEF InFlight, Pending, Writes
    <3> QED
      BY <1>3, <1>4, <2>1, <3>1, <3>2
  <2>2. CASE b # c /\ d = c
    <3>1. Listens(b) /\ op # "get" /\ call[b].node = n /\ call[b].key = k
      BY <1>3, <1>4, <1>5, <1>9, <2>2 DEF SameEntry, Listens, SameCall
    <3> QED
      BY <1>3, <1>4, <1>5, <2>2, <3>1
  <2>3. CASE b # c /\ d # c
    <3>1. Listens(b) /\ Pending(d) /\ SameEntry(b, d)
      BY <1>5, <1>9, <2>3 DEF SameEntry, Listens, SameCall
    <3> QED
      BY <1>5, <2>3, <3>1 DEF PendingIsKnown, SameCall, Remembers, Inv
  <2> QED
    BY <2>1, <2>2, <2>3
<1>12. ASSUME NEW d \in Call, d # c PROVE Stored(d)' = Stored(d)
  BY <1>1, <1>5, <1>12 DEF Stored, SameCall
<1>13. LandedStays'
  <2> SUFFICES ASSUME NEW d \in Call, call'[d].waiting, Writes(d)', call'[d].phase = "ran"
               PROVE  Stored(d)' \in {call'[d].value} \cup call'[d].others
    BY DEF LandedStays
  <2>1. d # c
    BY <1>3, <1>4
  <2>2. Writes(d)
    BY <1>5, <2>1 DEF Writes, SameCall
  <2> QED
    BY <1>5, <1>12, <2>1, <2>2 DEF LandedStays, SameCall, Remembers, Inv
<1>14. Sees'
  <2> SUFFICES ASSUME NEW d \in Call, call'[d].waiting
               PROVE  /\ call'[d].phase = "sent" => Stored(d)' \in Expected(d)'
                      /\ call'[d].phase = "checked" =>
                            TrueOf(Expected(d)', "put", call'[d].found, NoValue)
    BY DEF Sees
  <2>1. CASE d = c
    BY <1>1, <1>3, <1>4, <2>1 DEF Stored, Expected, AckedWritesStay, Inv
  <2>2. CASE d # c
    <3>1. Expected(d) \subseteq Expected(d)' /\ call[d].waiting
      BY <1>5, <2>2 DEF Expected, Remembers
    <3>2. /\ call[d].phase = "sent" => Stored(d) \in Expected(d)
          /\ call[d].phase = "checked" => TrueOf(Expected(d), "put", call[d].found, NoValue)
      BY <3>1 DEF Sees, Inv
    <3> QED
      BY <1>5, <1>12, <2>2, <3>1, <3>2 DEF TrueOf
  <2> QED
    BY <2>1, <2>2
<1>15. PinFollowsWrite'
  BY <1>1 DEF PinFollowsWrite, Inv
<1>16. Truthful
  BY <1>3, <1>4, <1>5 DEF Truthful
<1> QED
  BY <1>7, <1>8, <1>10, <1>11, <1>13, <1>14, <1>15, <1>16 DEF Inv
-----------------------------------------------------------------------------
(* The node handles it. *)

\* A handler that only looks, and finds what its client may expect.
Looked(c, r) ==
    /\ call' = [call EXCEPT ![c] = r]
    /\ r \in CallRecord /\ CallOK(r) /\ SameCall(r, call[c])
    /\ r.waiting = call[c].waiting
    /\ \/ r.phase = "ran" /\ call[c].op = "get"
       \/ /\ r.phase = "checked" /\ r.was = call[c].was /\ r.others = call[c].others
          /\ call[c].waiting => TrueOf(Expected(c), "put", r.found, NoValue)
    /\ UNCHANGED <<stores, recent_writes, may, acked>>

\* Such a step takes nothing from the other calls.
LEMMA LookKeepsInv ==
    ASSUME Inv, NEW c \in Call, call[c].phase = "sent", NEW r, Looked(c, r)
    PROVE  Inv'
<1>0. Types
  BY DEF Inv
<1>1. /\ call' \in [Call -> CallRecord] /\ call'[c] = r
      /\ \A d \in Call : d # c => call'[d] = call[d]
      /\ stores' = stores /\ recent_writes' = recent_writes /\ may' = may /\ acked' = acked
  BY <1>0 DEF Looked, Types
<1>2. \A d \in Call : /\ CallOK(call'[d]) /\ SameCall(call'[d], call[d])
                      /\ call'[d].waiting = call[d].waiting
                      /\ Stored(d)' = Stored(d)
  BY <1>0, <1>1 DEF Looked, Types, SameCall, Stored
<1>3. Types'
  BY <1>0, <1>1, <1>2 DEF Types
<1>4. \A d \in Call : /\ Pending(d)' => Pending(d)
                      /\ Listens(d)' => Listens(d) /\ call'[d].others = call[d].others
  BY <1>1, <1>2 DEF Pending, Writes, Listens, SameCall, Looked
<1>5. AckedWritesStay' /\ PendingMayLand' /\ PinFollowsWrite'
  BY <1>1, <1>2, <1>4
     DEF AckedWritesStay, PendingMayLand, PinFollowsWrite, SameCall, Inv
<1>6. PendingIsKnown'
  <2> SUFFICES ASSUME NEW b \in Call, NEW d \in Call, b # d, Listens(b)', Pending(d)',
                      SameEntry(b, d)'
               PROVE  call'[d].value \in call'[b].others
    BY DEF PendingIsKnown
  <2>1. Listens(b) /\ Pending(d) /\ SameEntry(b, d) /\ call'[b].others = call[b].others
    BY <1>2, <1>4 DEF SameEntry, SameCall
  <2> QED
    BY <1>2, <2>1 DEF PendingIsKnown, SameCall, Inv
<1>7. LandedStays'
  BY <1>1, <1>2 DEF LandedStays, Looked, Writes, SameCall, Inv
<1>8. Sees'
  <2> SUFFICES ASSUME NEW d \in Call, call'[d].waiting
               PROVE  /\ call'[d].phase = "sent" => Stored(d)' \in Expected(d)'
                      /\ call'[d].phase = "checked" =>
                            TrueOf(Expected(d)', "put", call'[d].found, NoValue)
    BY DEF Sees
  <2>1. CASE d = c
    BY <1>1, <1>2, <2>1 DEF Looked, Expected
  <2>2. CASE d # c
    BY <1>1, <1>2, <2>2 DEF Sees, Expected, Inv
  <2> QED
    BY <2>1, <2>2
<1> QED
  BY <1>3, <1>5, <1>6, <1>7, <1>8 DEF Inv

\* A write lands.  The calls to the same entry know of it.
LEMMA LandingKeepsInv ==
    ASSUME Inv, NEW c \in Call, Pending(c), NEW f \in BOOLEAN,
           stores' = [stores EXCEPT ![call[c].node][call[c].key] = call[c].value],
           call' = [call EXCEPT ![c] = Ran(c, f, NoValue)],
           UNCHANGED <<recent_writes, may, acked>>
    PROVE  Inv'
<1>0. Types
  BY DEF Inv
<1>1. PICK r : r = Ran(c, f, NoValue)
  OBVIOUS
<1>2. call[c].op # "none" /\ call[c].op # "get" /\ call[c].value \in Content
  BY <1>0 DEF Pending, Writes, Types, CallRecord, Content
<1>3. /\ r \in CallRecord /\ CallOK(r) /\ SameCall(r, call[c])
      /\ r.phase = "ran" /\ r.waiting = call[c].waiting /\ r.others = call[c].others
  BY <1>0, <1>1, <1>2, RanEffect
<1>4. /\ call' \in [Call -> CallRecord] /\ call'[c] = r
      /\ \A d \in Call : d # c => call'[d] = call[d]
  BY <1>0, <1>1, <1>3 DEF Types
<1>5. \A d \in Call : /\ CallOK(call'[d]) /\ SameCall(call'[d], call[d])
                      /\ call'[d].waiting = call[d].waiting
                      /\ call'[d].others = call[d].others
  BY <1>0, <1>3, <1>4 DEF Types, SameCall
<1>6. call[c].node \in Node /\ call[c].key \in Key
  BY <1>0, <1>2 DEF Types, CallOK
<1>7. /\ stores' \in [Node -> [Key -> Content]]
      /\ \A m \in Node, j \in Key :
            stores'[m][j] = IF m = call[c].node /\ j = call[c].key THEN call[c].value
                            ELSE stores[m][j]
  BY <1>0, <1>2, <1>6 DEF Types
<1>8. Types'
  BY <1>0, <1>4, <1>5, <1>7 DEF Types
<1>9. AckedWritesStay'
  BY <1>6, <1>7 DEF AckedWritesStay, PendingMayLand, Inv
<1>10. \A d \in Call : /\ Pending(d)' => Pending(d)
                       /\ Listens(d)' => Listens(d)
  BY <1>2, <1>3, <1>4, <1>5 DEF Pending, Writes, Listens, SameCall
<1>11. PendingMayLand'
  BY <1>5, <1>10 DEF PendingMayLand, SameCall, Inv
<1>12. PendingIsKnown'
  BY <1>5, <1>10 DEF PendingIsKnown, SameEntry, SameCall, Inv
<1>13. ASSUME NEW d \in Call, d # c, Listens(d)
       PROVE  Stored(d)' = Stored(d) \/ Stored(d)' \in call[d].others
  <2>1. call[d].node \in Node /\ call[d].key \in Key
    BY <1>0, <1>13 DEF Types, CallOK, Listens
  <2>2. Stored(d)' = stores'[call[d].node][call[d].key]
    BY <1>4, <1>13 DEF Stored
  <2>3. CASE SameEntry(d, c)
    BY <1>7, <1>13, <2>1, <2>2, <2>3 DEF PendingIsKnown, SameEntry, Inv
  <2>4. CASE ~ SameEntry(d, c)
    BY <1>7, <2>1, <2>2, <2>4 DEF SameEntry, Stored
  <2> QED
    BY <2>3, <2>4
<1>14. LandedStays'
  <2> SUFFICES ASSUME NEW d \in Call, call'[d].waiting, Writes(d)', call'[d].phase = "ran"
               PROVE  Stored(d)' \in {call'[d].value} \cup call'[d].others
    BY DEF LandedStays
  <2>1. CASE d = c
    BY <1>3, <1>4, <1>6, <1>7, <2>1 DEF Stored, SameCall
  <2>2. CASE d # c
    <3>1. call[d].waiting /\ Writes(d) /\ call[d].phase = "ran" /\ call'[d] = call[d]
      BY <1>4, <2>2 DEF Writes
    <3>2. Listens(d)
      BY <3>1 DEF Listens, Writes
    <3> QED
      BY <1>13, <2>2, <3>1, <3>2 DEF LandedStays, Inv
  <2> QED
    BY <2>1, <2>2
<1>15. Sees'
  <2> SUFFICES ASSUME NEW d \in Call, call'[d].waiting
               PROVE  /\ call'[d].phase = "sent" => Stored(d)' \in Expected(d)'
                      /\ call'[d].phase = "checked" =>
                            TrueOf(Expected(d)', "put", call'[d].found, NoValue)
    BY DEF Sees
  <2>1. CASE d = c
    BY <1>3, <1>4, <2>1
  <2>2. CASE d # c
    <3>1. call'[d] = call[d] /\ Expected(d)' = Expected(d)
      BY <1>4, <2>2 DEF Expected
    <3>2. /\ call[d].phase = "sent" => Stored(d) \in Expected(d) /\ Listens(d)
          /\ call[d].phase = "checked" => TrueOf(Expected(d), "put", call[d].found, NoValue)
      BY <3>1 DEF Sees, Listens, Inv
    <3>3. call[d].phase = "sent" => Stored(d)' \in Expected(d)
      BY <1>13, <2>2, <3>2 DEF Expected
    <3> QED
      BY <3>1, <3>2, <3>3
  <2> QED
    BY <2>1, <2>2
<1>16. PinFollowsWrite'
  BY DEF PinFollowsWrite, Inv
<1> QED
  BY <1>8, <1>9, <1>11, <1>12, <1>14, <1>15, <1>16 DEF Inv
\* What a loss does to a call: it dies, or a GET is answered by it, or the call
\* goes on and knows of the loss if it concerns it.
Bereft(d, r, S, x) ==
    \/ r = NoCall
    \/ /\ r \in CallRecord /\ CallOK(r) /\ SameCall(r, call[d])
       /\ r.waiting = call[d].waiting
       /\ \/ r.phase = "ran" /\ call[d].op = "get"
          \/ /\ r.phase = call[d].phase /\ r.found = call[d].found
             /\ Remembers(r, call[d])
             /\ Listens(d) /\ <<call[d].node, call[d].key>> \in S => x \in r.others

\* Entries that expire, or are lost, are not what was written any more, and all
\* whom it concerns know.
LEMMA VacateKeepsInv ==
    ASSUME Inv, NEW S \in SUBSET (Node \X Key), NEW x \in {NoValue, Expired},
           NEW calls \in [Call -> CallRecord],
           \A d \in Call : Bereft(d, calls[d], S, x), Vacate(S, x, calls)
    PROVE  Inv'
<1>0. Types /\ x \in Content
  BY DEF Inv, Content
<1>1. /\ call' \in [Call -> CallRecord] /\ \A d \in Call : Bereft(d, call'[d], S, x)
      /\ recent_writes' = recent_writes /\ acked' = acked
  BY DEF Vacate
<1>2. /\ stores' \in [Node -> [Key -> Content]]
      /\ \A m \in Node, j \in Key :
            stores'[m][j] = IF <<m, j>> \in S THEN x ELSE stores[m][j]
  BY <1>0 DEF Vacate, Types
<1>3. \A m \in Node, j \in Key : InFlight(m, j)' \in SUBSET Content
  BY <1>1 DEF InFlight, CallRecord, Content
<1>4. /\ may' \in [Node -> [Key -> SUBSET Content]]
      /\ \A m \in Node, j \in Key :
            may'[m][j] = IF <<m, j>> \in S THEN {x} \cup InFlight(m, j)' ELSE may[m][j]
  <2>1. \A m \in Node, j \in Key : may[m][j] \in SUBSET Content
    BY <1>0 DEF Types
  <2>2. may' = [m \in Node |-> [j \in Key |->
                  IF <<m, j>> \in S THEN {x} \cup InFlight(m, j)' ELSE may[m][j]]]
    BY DEF Vacate
  <2> QED
    BY <1>0, <1>3, <2>1, <2>2
<1>5. ASSUME NEW d \in Call, call'[d].op # "none"
      PROVE  /\ SameCall(call'[d], call[d]) /\ call'[d].waiting = call[d].waiting
             /\ call[d].node \in Node /\ call[d].key \in Key
             /\ Stored(d)' = IF <<call[d].node, call[d].key>> \in S THEN x ELSE Stored(d)
             /\ \/ call'[d].phase = "ran" /\ call[d].op = "get"
                \/ /\ call'[d].phase = call[d].phase /\ call'[d].found = call[d].found
                   /\ Remembers(call'[d], call[d])
                   /\ Listens(d) /\ <<call[d].node, call[d].key>> \in S =>
                         x \in call'[d].others
  <2>1. call'[d] # NoCall
    BY <1>5, NoCallType
  <2>2. SameCall(call'[d], call[d]) /\ call[d].node \in Node /\ call[d].key \in Key
    BY <1>0, <1>1, <1>5, <2>1 DEF Bereft, SameCall, Types, CallOK
  <2>3. Stored(d)' = IF <<call[d].node, call[d].key>> \in S THEN x ELSE Stored(d)
    BY <1>2, <2>2 DEF Stored, SameCall
  <2> QED
    BY <1>1, <2>1, <2>2, <2>3 DEF Bereft
<1>6. Types'
  <2>1. \A d \in Call : CallOK(call'[d])
    BY <1>1, NoCallType DEF Bereft
  <2> QED
    BY <1>0, <1>1, <1>2, <1>4, <2>1 DEF Types
<1>7. AckedWritesStay'
  BY <1>2, <1>4 DEF AckedWritesStay, Inv
<1>8. \A d \in Call : /\ Pending(d)' => Pending(d) /\ call'[d].op # "none"
                      /\ Listens(d)' => Listens(d) /\ call'[d].op # "none"
                                        /\ call[d].others \subseteq call'[d].others
  <2>1. ASSUME NEW d \in Call, Pending(d)' PROVE Pending(d) /\ call'[d].op # "none"
    BY <1>5, <2>1 DEF Pending, Writes, SameCall
  <2>2. ASSUME NEW d \in Call, Listens(d)'
        PROVE  Listens(d) /\ call'[d].op # "none" /\ call[d].others \subseteq call'[d].others
    <3>1. call'[d].op # "none"
      BY <1>6, <2>2 DEF Types, CallOK, Listens
    <3> QED
      BY <1>5, <2>2, <3>1 DEF Listens, SameCall, Remembers
  <2> QED
    BY <2>1, <2>2
<1>9. PendingMayLand'
  <2> SUFFICES ASSUME NEW d \in Call, Pending(d)'
               PROVE  call'[d].value \in may'[call'[d].node][call'[d].key]
    BY DEF PendingMayLand
  <2>1. /\ Pending(d) /\ SameCall(call'[d], call[d])
        /\ call[d].node \in Node /\ call[d].key \in Key
    BY <1>5, <1>8
  <2>2. CASE <<call[d].node, call[d].key>> \in S
    <3>1. call'[d].value \in InFlight(call[d].node, call[d].key)'
      BY <2>1 DEF InFlight, Concerns, Pending, Writes, SameCall
    <3> QED
      BY <1>4, <2>1, <2>2, <3>1 DEF SameCall
  <2>3. CASE <<call[d].node, call[d].key>> \notin S
    <3>1. call[d].value \in may[call[d].node][call[d].key]
      BY <2>1 DEF PendingMayLand, Inv
    <3>2. may'[call[d].node][call[d].key] = may[call[d].node][call[d].key]
      BY <1>4, <2>1, <2>3
    <3> QED
      BY <2>1, <3>1, <3>2 DEF SameCall
  <2> QED
    BY <2>2, <2>3
<1>10. PendingIsKnown'
  <2> SUFFICES ASSUME NEW b \in Call, NEW d \in Call, b # d, Listens(b)', Pending(d)',
                      SameEntry(b, d)'
               PROVE  call'[d].value \in call'[b].others
    BY DEF PendingIsKnown
  <2>1. /\ Listens(b) /\ Pending(d) /\ call[b].others \subseteq call'[b].others
        /\ SameCall(call'[b], call[b]) /\ SameCall(call'[d], call[d])
    BY <1>5, <1>8
  <2>2. SameEntry(b, d)
    BY <2>1 DEF SameEntry, SameCall
  <2> QED
    BY <2>1, <2>2 DEF PendingIsKnown, SameCall, Inv
<1>11. LandedStays'
  <2> SUFFICES ASSUME NEW d \in Call, call'[d].waiting, Writes(d)', call'[d].phase = "ran"
               PROVE  Stored(d)' \in {call'[d].value} \cup call'[d].others
    BY DEF LandedStays
  <2>1. call'[d].op # "none" /\ call'[d].op # "get"
    BY DEF Writes
  <2>2. /\ SameCall(call'[d], call[d]) /\ call[d].waiting /\ call[d].phase = "ran"
        /\ Writes(d) /\ Listens(d) /\ call[d].others \subseteq call'[d].others
        /\ <<call[d].node, call[d].key>> \in S => x \in call'[d].others
    BY <1>5, <2>1 DEF SameCall, Writes, Listens, Remembers
  <2>3. Stored(d) \in {call[d].value} \cup call[d].others
    BY <2>2 DEF LandedStays, Inv
  <2> QED
    BY <1>5, <2>1, <2>2, <2>3 DEF SameCall
<1>12. Sees'
  <2> SUFFICES ASSUME NEW d \in Call, call'[d].waiting, call'[d].phase # "ran"
               PROVE  /\ call'[d].phase = "sent" => Stored(d)' \in Expected(d)'
                      /\ call'[d].phase = "checked" =>
                            TrueOf(Expected(d)', "put", call'[d].found, NoValue)
    BY DEF Sees
  <2>1. call'[d].op # "none"
    BY <1>6 DEF Types, CallOK
  <2>2. /\ call[d].waiting /\ call'[d].phase = call[d].phase
        /\ call'[d].found = call[d].found /\ Expected(d) \subseteq Expected(d)'
        /\ call[d].phase = "sent" /\ <<call[d].node, call[d].key>> \in S => x \in Expected(d)'
    BY <1>5, <2>1 DEF Expected, Listens, Remembers
  <2>3. /\ call[d].phase = "sent" => Stored(d) \in Expected(d)
        /\ call[d].phase = "checked" => TrueOf(Expected(d), "put", call[d].found, NoValue)
    BY <2>2 DEF Sees, Inv
  <2>4. call'[d].phase = "sent" => Stored(d)' \in Expected(d)'
    BY <1>5, <2>1, <2>2, <2>3
  <2>5. call'[d].phase = "checked" => TrueOf(Expected(d)', "put", call'[d].found, NoValue)
    BY <2>2, <2>3 DEF TrueOf
  <2> QED
    BY <2>4, <2>5
<1>13. PinFollowsWrite'
  BY <1>1 DEF PinFollowsWrite, Inv
<1> QED
  BY <1>6, <1>7, <1>9, <1>10, <1>11, <1>12, <1>13 DEF Inv

\* Calls that are told of a loss, and go on.
LEMMA ToldIsBereft ==
    ASSUME Types, NEW S, NEW x \in Content, NEW d \in Call, NEW r, r = Told(S, x)[d]
    PROVE  r \in CallRecord /\ Bereft(d, r, S, x) /\ r.phase = call[d].phase
  BY ToldEffect DEF Bereft
\* get() of a live entry, or of none, only looks; an expired one it takes out.
LEMMA HandleGetKeepsInv ==
    ASSUME Inv, NEW c \in Call, HandleGet(c)
    PROVE  Inv' /\ Truthful
<1>0. Types /\ call[c].op = "get" /\ call[c].phase = "sent"
  BY DEF Inv, HandleGet
<1>1. /\ call[c].node \in Node /\ call[c].key \in Key
      /\ Stored(c) \in Content
      /\ call[c].waiting => Stored(c) \in Expected(c)
  BY <1>0 DEF Types, CallOK, Stored, Sees, Inv
<1>2. CASE Stored(c) # Expired
  <2>1. PICK f \in BOOLEAN : f = (Stored(c) # NoValue)
    <3>1. CASE Stored(c) = NoValue
      BY <3>1
    <3>2. CASE Stored(c) # NoValue
      BY <3>2
    <3> QED
      BY <3>1, <3>2
  <2>2. PICK a \in Value \cup {NoValue} : a = Stored(c)
    BY <1>1, <1>2 DEF Content
  <2>3. PICK r : r = Ran(c, f, a)
    OBVIOUS
  <2>4. /\ call' = [call EXCEPT ![c] = r]
        /\ UNCHANGED <<stores, recent_writes, may, acked>>
    BY <1>2, <2>1, <2>2, <2>3 DEF HandleGet
  <2>5. /\ r \in CallRecord /\ CallOK(r) /\ SameCall(r, call[c]) /\ r.phase = "ran"
        /\ r.waiting = call[c].waiting /\ r.found = f /\ r.answer = a
    BY <1>0, <2>3, RanEffect
  <2>6. Inv'
    BY <1>0, <2>4, <2>5, LookKeepsInv DEF Looked
  <2>7. call[c].waiting => TrueOf(Expected(c), "get", f, a)
    BY <1>1, <2>1, <2>2, DataPlaneAssumption DEF TrueOf, Content
  <2>8. call'[c] = r /\ \A d \in Call : d # c => call'[d] = call[d]
    BY <1>0, <2>4 DEF Types
  <2>9. Truthful
    BY <1>0, <2>5, <2>7, <2>8 DEF Truthful
  <2> QED
    BY <2>6, <2>9
<1>3. CASE Stored(c) = Expired
  <2>1. PICK S : S = {<<call[c].node, call[c].key>>}
    OBVIOUS
  <2>14. PICK f \in BOOLEAN : f = FALSE
    OBVIOUS
  <2>2. PICK r : r = Ran(c, f, NoValue)
    OBVIOUS
  <2>3. PICK calls : calls = [Told(S, NoValue) EXCEPT ![c] = r]
    OBVIOUS
  <2>4. Vacate(S, NoValue, calls) /\ call' = calls
    BY <1>3, <2>1, <2>2, <2>3, <2>14 DEF HandleGet, Vacate
  <2>5. /\ r \in CallRecord /\ CallOK(r) /\ SameCall(r, call[c]) /\ r.phase = "ran"
        /\ r.waiting = call[c].waiting /\ r.found = f /\ r.answer = NoValue
    BY <1>0, <2>2, RanEffect
  <2>6. NoValue \in Content
    BY DEF Content
  <2>7. \A d \in Call : /\ Told(S, NoValue)[d] \in CallRecord
                        /\ Bereft(d, Told(S, NoValue)[d], S, NoValue)
                        /\ Told(S, NoValue)[d].phase = call[d].phase
    BY <1>0, <2>6, ToldIsBereft
  <2>8. Told(S, NoValue) = [d \in Call |-> Told(S, NoValue)[d]]
    BY DEF Told
  <2>9. /\ calls \in [Call -> CallRecord] /\ calls[c] = r
        /\ \A d \in Call : d # c => calls[d] = Told(S, NoValue)[d]
    BY <2>3, <2>5, <2>7, <2>8
  <2>10. \A d \in Call : Bereft(d, calls[d], S, NoValue)
    <3>1. Bereft(c, r, S, NoValue)
      BY <1>0, <2>5 DEF Bereft
    <3> QED
      BY <2>7, <2>9, <3>1
  <2>15. S \in SUBSET (Node \X Key) /\ NoValue \in {NoValue, Expired}
    BY <1>1, <2>1
  <2>11. Inv'
    BY <2>4, <2>9, <2>10, <2>15, VacateKeepsInv
  <2>12. call[c].waiting => TrueOf(Expected(c), "get", f, NoValue)
    BY <1>1, <1>3, <2>14, DataPlaneAssumption DEF TrueOf
  <2>13. Truthful
    BY <1>0, <2>4, <2>5, <2>7, <2>9, <2>12 DEF Truthful
  <2> QED
    BY <2>11, <2>13
<1> QED
  BY <1>2, <1>3

\* remove() finds an entry that has expired, contains() does not.
LEMMA WriteHandlersKeepInv ==
    ASSUME Inv, NEW c \in Call, HandleDelete(c) \/ HandlePutContains(c) \/ HandlePut(c)
    PROVE  Inv' /\ Truthful
<1>0. Types /\ call[c] \in CallRecord /\ CallOK(call[c])
  BY DEF Inv, Types
<1>1. /\ call[c].op # "none" => Stored(c) \in Content
      /\ call[c].waiting /\ call[c].phase = "sent" => Stored(c) \in Expected(c)
      /\ call[c].waiting /\ call[c].phase = "checked" =>
            TrueOf(Expected(c), "put", call[c].found, NoValue)
  BY <1>0 DEF Types, CallOK, Stored, Sees, Inv
<1>2. ASSUME NEW f \in BOOLEAN, NEW r, r = Ran(c, f, NoValue), call[c].op # "none",
             call' = [call EXCEPT ![c] = r],
             call[c].waiting => TrueOf(Expected(c), call[c].op, f, NoValue)
      PROVE  Truthful
  <2>1. r.found = f /\ r.answer = NoValue
    BY <1>0, <1>2, RanEffect
  <2>2. call'[c] = r /\ \A d \in Call : d # c => call'[d] = call[d]
    BY <1>0, <1>2 DEF Types
  <2> QED
    BY <1>2, <2>1, <2>2 DEF Truthful
<1>3. CASE HandleDelete(c)
  <2>1. PICK f \in BOOLEAN : f = (Stored(c) # NoValue)
    <3>1. CASE Stored(c) = NoValue
      BY <3>1
    <3>2. CASE Stored(c) # NoValue
      BY <3>2
    <3> QED
      BY <3>1, <3>2
  <2>2. PICK r : r = Ran(c, f, NoValue)
    OBVIOUS
  <2>3. /\ stores' = [stores EXCEPT ![call[c].node][call[c].key] = call[c].value]
        /\ call' = [call EXCEPT ![c] = r] /\ Pending(c)
        /\ UNCHANGED <<recent_writes, may, acked>>
    BY <1>0, <1>3, <2>1, <2>2 DEF HandleDelete, Pending, Writes, CallOK, CallRecord
  <2>4. Inv'
    BY <2>2, <2>3, LandingKeepsInv
  <2>5. call[c].waiting => TrueOf(Expected(c), "delete", f, NoValue)
    BY <1>1, <1>3, <2>1 DEF TrueOf, HandleDelete
  <2> QED
    BY <1>2, <1>3, <2>2, <2>3, <2>4, <2>5 DEF HandleDelete
<1>4. CASE HandlePut(c)
  <2>1. PICK f \in BOOLEAN : f = call[c].found
    BY <1>0 DEF CallRecord
  <2>2. PICK r : r = Ran(c, f, NoValue)
    OBVIOUS
  <2>3. call[c].op = "put" /\ call[c].phase = "checked"
    BY <1>0, <1>4 DEF HandlePut, CallOK
  <2>4. /\ stores' = [stores EXCEPT ![call[c].node][call[c].key] = call[c].value]
        /\ call' = [call EXCEPT ![c] = r] /\ Pending(c)
        /\ UNCHANGED <<recent_writes, may, acked>>
    BY <1>4, <2>1, <2>2, <2>3 DEF HandlePut, Pending, Writes
  <2>5. Inv'
    BY <2>2, <2>4, LandingKeepsInv
  <2> QED
    BY <1>1, <1>2, <2>1, <2>2, <2>3, <2>4, <2>5
<1>5. CASE HandlePutContains(c)
  <2>1. PICK f \in BOOLEAN : f <=> Stored(c) \in Value
    <3>1. CASE Stored(c) \in Value
      BY <3>1
    <3>2. CASE Stored(c) \notin Value
      BY <3>2
    <3> QED
      BY <3>1, <3>2
  <2>2. PICK r : r = [call[c] EXCEPT !.phase = "checked", !.found = f]
    OBVIOUS
  <2>3. /\ call' = [call EXCEPT ![c] = [call[c] EXCEPT !.phase = "checked",
                                                      !.found = (Stored(c) \in Value)]]
        /\ call[c].op = "put" /\ call[c].phase = "sent"
        /\ UNCHANGED <<stores, recent_writes, may, acked>>
    BY <1>0, <1>5 DEF HandlePutContains, Types
  <2>4. [call[c] EXCEPT !.phase = "checked", !.found = (Stored(c) \in Value)] = r
    BY <1>0, <2>1, <2>2 DEF CallRecord
  <2>5. call' = [call EXCEPT ![c] = r]
    BY <2>3, <2>4
  <2>6. /\ r \in CallRecord /\ SameCall(r, call[c]) /\ r.waiting = call[c].waiting
        /\ r.phase = "checked" /\ r.was = call[c].was /\ r.others = call[c].others
        /\ r.found = f
    BY <1>0, <2>2 DEF CallRecord, SameCall
  <2>7. CallOK(r)
    BY <1>0, <2>3, <2>6 DEF CallOK, SameCall
  <2>8. call[c].waiting => TrueOf(Expected(c), "put", f, NoValue)
    BY <1>1, <2>1, <2>3 DEF TrueOf
  <2>9. Looked(c, r)
    BY <2>3, <2>5, <2>6, <2>7, <2>8 DEF Looked
  <2>10. Inv'
    BY <2>3, <2>9, LookKeepsInv
  <2>11. call'[c] = r /\ \A d \in Call : d # c => call'[d] = call[d]
    BY <1>0, <2>5 DEF Types
  <2>12. Truthful
    BY <2>6, <2>11 DEF Truthful
  <2> QED
    BY <2>10, <2>12
<1> QED
  BY <1>3, <1>4, <1>5
-----------------------------------------------------------------------------
(* The gateway hears of the outcome, or not. *)

\* A slot becomes free, or its call is given up; what nobody waits for any more
\* may still land.  If a write was answered, all that may be in its place by
\* then is a write that it knew of.
LEMMA EndKeepsInv ==
    ASSUME Inv, NEW c \in Call, Answer(c) \/ GiveUp(c) \/ Vanish(c)
    PROVE  Inv' /\ Truthful
<1>0. Types /\ call[c] \in CallRecord /\ CallOK(call[c])
  BY DEF Inv, Types
<1>1. PICK r : r = call'[c]
  OBVIOUS
<1>2. /\ r \in CallRecord /\ CallOK(r) /\ ~ r.waiting
      /\ \/ r = NoCall
         \/ SameCall(r, call[c]) /\ r.phase = call[c].phase /\ r.phase # "ran"
      /\ call' = [call EXCEPT ![c] = r]
  <2>1. CASE Answer(c) \/ Vanish(c) \/ (GiveUp(c) /\ call[c].phase = "ran")
    <3>1. call' = [call EXCEPT ![c] = NoCall]
      BY <2>1 DEF Answer, Vanish, GiveUp
    <3>2. r = NoCall
      BY <1>0, <1>1, <3>1 DEF Types
    <3> QED
      BY <3>1, <3>2, NoCallType
  <2>2. CASE GiveUp(c) /\ call[c].phase # "ran"
    <3>1. call' = [call EXCEPT ![c] = GivenUp(c)]
      BY <2>2 DEF GiveUp
    <3>2. r = GivenUp(c)
      BY <1>0, <1>1, <3>1 DEF Types
    <3>3. /\ r \in CallRecord /\ SameCall(r, call[c]) /\ r.phase = call[c].phase
          /\ ~ r.waiting
      BY <1>0, <3>2 DEF GivenUp, CallRecord, SameCall
    <3>4. CallOK(r)
      BY <1>0, <3>3 DEF CallOK, SameCall
    <3> QED
      BY <2>2, <3>1, <3>2, <3>3, <3>4
  <2> QED
    BY <2>1, <2>2
<1>3. call' \in [Call -> CallRecord] /\ \A d \in Call : d # c => call'[d] = call[d]
  BY <1>0, <1>2 DEF Types
<1>4. \A d \in Call : /\ CallOK(call'[d])
                      /\ Pending(d)' => Pending(d) /\ SameCall(call'[d], call[d])
                      /\ call'[d].waiting => d # c /\ call'[d] = call[d]
  <2>1. Pending(c)' => Pending(c) /\ SameCall(r, call[c])
    BY <1>1, <1>2, NoCallType DEF Pending, Writes, SameCall
  <2> QED
    BY <1>0, <1>1, <1>2, <1>3, <2>1 DEF Types, Pending, Writes, SameCall
<1>5. stores' = stores
  BY DEF Answer, GiveUp, Vanish
<1>6. /\ may' \in [Node -> [Key -> SUBSET Content]] /\ AckedWritesStay'
      /\ \A d \in Call : d # c /\ Pending(d) =>
            call[d].value \in may'[call[d].node][call[d].key]
  <2>1. CASE Answer(c) /\ call[c].op # "get"
    <3>1. /\ call[c].waiting /\ call[c].phase = "ran" /\ Writes(c)
          /\ call[c].node \in Node /\ call[c].key \in Key
      BY <1>0, <2>1 DEF Answer, CallOK, Writes, CallRecord
    <3>2. PICK E \in SUBSET Content : E = {call[c].value} \cup call[c].others
      BY <1>0 DEF CallRecord, Content
    <3>3. /\ may' \in [Node -> [Key -> SUBSET Content]]
          /\ \A m \in Node, j \in Key :
                may'[m][j] = IF m = call[c].node /\ j = call[c].key THEN E ELSE may[m][j]
      BY <1>0, <2>1, <3>1, <3>2 DEF Answer, Confirmed, Types
    <3>4. AckedWritesStay'
      BY <1>5, <3>1, <3>2, <3>3 DEF AckedWritesStay, LandedStays, Stored, Inv
    <3>5. ASSUME NEW d \in Call, d # c, Pending(d)
          PROVE  call[d].value \in may'[call[d].node][call[d].key]
      <4>1. call[d].node \in Node /\ call[d].key \in Key
        BY <1>0, <3>5 DEF Types, CallOK, Pending, Writes
      <4>2. call[d].value \in may[call[d].node][call[d].key]
        BY <3>5 DEF PendingMayLand, Inv
      <4>3. Listens(c)
        BY <2>1, <3>1 DEF Listens
      <4>4. SameEntry(c, d) => call[d].value \in E
        BY <3>2, <3>5, <4>3 DEF PendingIsKnown, Inv
      <4> QED
        BY <3>3, <4>1, <4>2, <4>4 DEF SameEntry
    <3> QED
      BY <3>3, <3>4, <3>5
  <2>2. CASE ~ (Answer(c) /\ call[c].op # "get")
    <3>1. may' = may
      BY <2>2 DEF Answer, Confirmed, GiveUp, Vanish
    <3> QED
      BY <1>0, <1>5, <3>1 DEF Types, AckedWritesStay, PendingMayLand, Inv
  <2> QED
    BY <2>1, <2>2
<1>7. /\ recent_writes' \in [Key -> PinRecord] /\ acked' \in [Key -> PinRecord]
      /\ PinFollowsWrite'
  <2>1. CASE Answer(c) /\ call[c].op = "put"
    <3>1. PICK p : p = [node |-> call[c].node, age |-> 0]
      OBVIOUS
    <3>2. p \in PinRecord /\ call[c].key \in Key
      BY <1>0, <2>1, <3>1, DataPlaneAssumption DEF CallOK, PinRecord, Age
    <3>3. /\ recent_writes' = [recent_writes EXCEPT ![call[c].key] = p]
          /\ acked' = [acked EXCEPT ![call[c].key] = p]
      BY <2>1, <3>1 DEF Answer, PinnedNode
    <3> QED
      BY <1>0, <3>2, <3>3 DEF Types, PinFollowsWrite, Inv
  <2>2. CASE ~ (Answer(c) /\ call[c].op = "put")
    <3>1. recent_writes' = recent_writes /\ acked' = acked
      BY <2>2 DEF Answer, GiveUp, Vanish
    <3> QED
      BY <1>0, <3>1 DEF Types, PinFollowsWrite, Inv
  <2> QED
    BY <2>1, <2>2
<1>8. Types'
  BY <1>0, <1>3, <1>4, <1>5, <1>6, <1>7 DEF Types
<1>9. PendingMayLand'
  <2> SUFFICES ASSUME NEW d \in Call, Pending(d)'
               PROVE  call'[d].value \in may'[call'[d].node][call'[d].key]
    BY DEF PendingMayLand
  <2>1. Pending(d) /\ SameCall(call'[d], call[d])
    BY <1>4
  <2>2. CASE d # c
    BY <1>3, <1>6, <2>1, <2>2
  <2>3. CASE d = c
    <3>1. ~ Answer(c)
      BY <2>1, <2>3 DEF Answer, Pending
    <3>2. may' = may
      BY <3>1 DEF GiveUp, Vanish
    <3>3. call[d].value \in may[call[d].node][call[d].key]
      BY <2>1 DEF PendingMayLand, Inv
    <3> QED
      BY <2>1, <3>2, <3>3 DEF SameCall
  <2> QED
    BY <2>2, <2>3
<1>10. PendingIsKnown'
  <2> SUFFICES ASSUME NEW b \in Call, NEW d \in Call, b # d, Listens(b)', Pending(d)',
                      SameEntry(b, d)'
               PROVE  call'[d].value \in call'[b].others
    BY DEF PendingIsKnown
  <2>1. call'[b] = call[b] /\ Pending(d) /\ SameCall(call'[d], call[d])
    BY <1>4 DEF Listens
  <2>2. Listens(b) /\ SameEntry(b, d)
    BY <2>1 DEF Listens, SameEntry, SameCall
  <2> QED
    BY <2>1, <2>2 DEF PendingIsKnown, SameCall, Inv
<1>11. LandedStays' /\ Sees'
  <2>1. ASSUME NEW d \in Call, call'[d].waiting
        PROVE  call'[d] = call[d] /\ Stored(d)' = Stored(d) /\ Expected(d)' = Expected(d)
    BY <1>4, <1>5, <2>1 DEF Stored, Expected
  <2>2. LandedStays'
    BY <2>1 DEF LandedStays, Writes, Inv
  <2>3. Sees'
    BY <2>1 DEF Sees, Inv
  <2> QED
    BY <2>2, <2>3
<1>12. Truthful
  BY <1>1, <1>2, <1>3, NoCallType DEF Truthful
<1> QED
  BY <1>6, <1>7, <1>8, <1>9, <1>10, <1>11, <1>12 DEF Inv

-----------------------------------------------------------------------------
(* The environment. *)

\* Losses of the entries S whose calls are told of it, or die.
LEMMA LossKeepsInv ==
    ASSUME Inv, NEW S \in SUBSET (Node \X Key), NEW x \in {NoValue, Expired}, NEW calls,
           calls = [d \in Call |-> calls[d]],
           \A d \in Call : calls[d] \in {NoCall, Told(S, x)[d]}, Vacate(S, x, calls)
    PROVE  Inv' /\ Truthful
<1>0. Types /\ x \in Content
  BY DEF Inv, Content
<1>1. ASSUME NEW d \in Call
      PROVE  /\ calls[d] \in CallRecord /\ Bereft(d, calls[d], S, x)
             /\ calls[d].phase = "ran" => call[d].phase = "ran"
  <2>1. CASE calls[d] = NoCall
    BY <2>1, NoCallType DEF Bereft
  <2>2. CASE calls[d] = Told(S, x)[d]
    BY <1>0, <2>2, ToldIsBereft
  <2> QED
    BY <2>1, <2>2
<1>2. calls \in [Call -> CallRecord]
  BY <1>1
<1>3. Inv'
  BY <1>1, <1>2, VacateKeepsInv
<1>4. Truthful
  BY <1>1 DEF Truthful, Vacate
<1> QED
  BY <1>3, <1>4

\* An entry that expires, or is evicted, is such a loss ...
LEMMA EntryLossKeepsInv ==
    ASSUME Inv, NEW n \in Node, NEW k \in Key, Expire(n, k) \/ Lose(n, k)
    PROVE  Inv' /\ Truthful
<1>1. PICK S : S = {<<n, k>>}
  OBVIOUS
<1>4. S \in SUBSET (Node \X Key)
  BY <1>1
<1>2. \/ Vacate(S, NoValue, Told(S, NoValue))
      \/ Vacate(S, Expired, Told(S, Expired))
  BY <1>1 DEF Expire, Lose
<1>3. ASSUME NEW x \in {NoValue, Expired}, Vacate(S, x, Told(S, x))
      PROVE  Inv' /\ Truthful
  <2>1. PICK calls : calls = Told(S, x)
    OBVIOUS
  <2>2. /\ calls = [d \in Call |-> calls[d]]
        /\ \A d \in Call : calls[d] \in {NoCall, Told(S, x)[d]}
    BY <2>1 DEF Told
  <2>3. Vacate(S, x, calls)
    BY <1>3, <2>1
  <2> QED
    BY <1>4, <2>2, <2>3, LossKeepsInv
<1> QED
  BY <1>2, <1>3

\* ... and so is the loss of all that a node had, when it restarts.
LEMMA RestartKeepsInv ==
    ASSUME Inv, NEW n \in Node, Restart(n)
    PROVE  Inv' /\ Truthful
<1>1. PICK S : S = {n} \X Key
  OBVIOUS
<1>5. S \in SUBSET (Node \X Key)
  BY <1>1
<1>2. PICK calls : /\ calls = [c \in Call |->
                          IF call[c].node = n /\ call[c].phase = "checked"
                          THEN NoCall ELSE Told(S, NoValue)[c]]
                   /\ Vacate(S, NoValue, calls)
  BY <1>1 DEF Restart
<1>3. /\ calls = [d \in Call |-> calls[d]]
      /\ \A d \in Call : calls[d] \in {NoCall, Told(S, NoValue)[d]}
  BY <1>2
<1>4. PICK x \in {NoValue, Expired} : x = NoValue
  OBVIOUS
<1>6. /\ Vacate(S, x, calls)
      /\ \A d \in Call : calls[d] \in {NoCall, Told(S, x)[d]}
  BY <1>2, <1>3, <1>4
<1> QED
  BY <1>3, <1>5, <1>6, LossKeepsInv

\* The clock and the pins leave calls and stores alone.  A pin ages with the
\* write it was made for, and is dropped only when it is too old.
LEMMA PinsKeepInv ==
    ASSUME Inv,
           \/ Tick \/ CleanupExpiredPins
           \/ \E n \in Node, k \in Key : IsPinnedToPrimary(k, n)
           \/ UNCHANGED vars
    PROVE  Inv' /\ Truthful
<1>0. Types
  BY DEF Inv
<1>1. stores' = stores /\ call' = call /\ may' = may
  BY DEF Tick, CleanupExpiredPins, IsPinnedToPrimary, vars
<1>2. NoPin \in PinRecord /\ NoPin.age > READ_YOUR_WRITES_PIN
  BY DataPlaneAssumption DEF NoPin, PinRecord, Age
<1>3. /\ recent_writes' \in [Key -> PinRecord] /\ acked' \in [Key -> PinRecord]
      /\ PinFollowsWrite'
  <2>1. CASE Tick
    <3>1. ASSUME NEW k \in Key
          PROVE  /\ recent_writes'[k] \in PinRecord /\ acked'[k] \in PinRecord
                 /\ acked'[k].age <= READ_YOUR_WRITES_PIN => recent_writes'[k] = acked'[k]
      <4>1. PICK p : p = recent_writes[k]
        OBVIOUS
      <4>2. PICK q : q = acked[k]
        OBVIOUS
      <4>3. p \in PinRecord /\ q \in PinRecord
        BY <1>0, <4>1, <4>2 DEF Types
      <4>4. q.age <= READ_YOUR_WRITES_PIN => p = q
        BY <4>1, <4>2 DEF PinFollowsWrite, Inv
      <4>5. /\ recent_writes'[k] = [p EXCEPT !.age = Older(p.age)]
            /\ acked'[k] = IF q.age < READ_YOUR_WRITES_PIN
                           THEN [q EXCEPT !.age = q.age + 1] ELSE NoPin
        BY <2>1, <4>1, <4>2, <4>3 DEF Tick, PinRecord
      <4>6. Older(p.age) \in Age
        BY <4>3, DataPlaneAssumption DEF Older, PinRecord, Age
      <4>7. [p EXCEPT !.age = Older(p.age)] \in PinRecord
        BY <4>3, <4>6 DEF PinRecord
      <4>8. CASE q.age < READ_YOUR_WRITES_PIN
        <5>1. p = q /\ Older(p.age) = q.age + 1
          BY <4>3, <4>4, <4>8, DataPlaneAssumption DEF Older, PinRecord, Age
        <5> QED
          BY <4>5, <4>7, <4>8, <5>1
      <4>9. CASE ~ (q.age < READ_YOUR_WRITES_PIN)
        BY <1>2, <4>5, <4>7, <4>9, DataPlaneAssumption DEF NoPin
      <4> QED
        BY <4>8, <4>9
    <3>2. /\ recent_writes' = [k \in Key |-> recent_writes'[k]]
          /\ acked' = [k \in Key |-> acked'[k]]
      BY <2>1 DEF Tick
    <3> QED
      BY <3>1, <3>2 DEF PinFollowsWrite
  <2>2. CASE UNCHANGED vars
    BY <1>0, <2>2 DEF vars, Types, PinFollowsWrite, Inv
  <2>3. CASE CleanupExpiredPins \/ \E n \in Node, k \in Key : IsPinnedToPrimary(k, n)
    <3>1. /\ acked' = acked
          /\ \A k \in Key : \/ recent_writes'[k] = recent_writes[k]
                            \/ recent_writes'[k] = NoPin /\ ~ Pinned(k)
          /\ recent_writes' \in [Key -> PinRecord]
      BY <1>0, <1>2, <2>3 DEF CleanupExpiredPins, IsPinnedToPrimary, Types
    <3> QED
      BY <1>0, <3>1 DEF Types, PinFollowsWrite, Pinned, Inv
  <2> QED
    BY <2>1, <2>2, <2>3
<1>4. Types'
  BY <1>0, <1>1, <1>3 DEF Types
<1>5. AckedWritesStay' /\ PendingMayLand' /\ PendingIsKnown' /\ LandedStays' /\ Sees'
  BY <1>1 DEF AckedWritesStay, PendingMayLand, PendingIsKnown, LandedStays, Sees, Pending,
              Writes, SameEntry, Listens, Stored, Expected, Inv
<1>6. Truthful
  BY <1>1 DEF Truthful
<1> QED
  BY <1>3, <1>4, <1>5, <1>6 DEF Inv

-----------------------------------------------------------------------------
\* At first there are no calls, and the nodes are known to have nothing.
LEMMA InitInv == Init => Inv
<1> SUFFICES ASSUME Init PROVE Inv
  OBVIOUS
<1>1. NoPin \in PinRecord /\ NoPin.age > READ_YOUR_WRITES_PIN
  BY DataPlaneAssumption DEF NoPin, PinRecord, Age
<1>2. Types
  BY <1>1, NoCallType DEF Init, Types, Content
<1>3. \A c \in Call : call[c] = NoCall
  BY DEF Init
<1>4. \A c \in Call : ~ call[c].waiting /\ ~ Writes(c)
  BY <1>3, NoCallType DEF Writes
<1>5. AckedWritesStay
  BY DEF Init, AckedWritesStay
<1>6. PendingMayLand /\ PendingIsKnown /\ LandedStays /\ Sees
  BY <1>4 DEF PendingMayLand, PendingIsKnown, LandedStays, Sees, Pending, Listens
<1>7. PinFollowsWrite
  BY DEF Init, PinFollowsWrite
<1> QED
  BY <1>2, <1>5, <1>6, <1>7 DEF Inv

\* Every step keeps the invariant, and tells the truth.
LEMMA StepKeepsInv ==
    ASSUME Inv, [Next]_vars
    PROVE  Inv' /\ Truthful
<1>1. ASSUME NEW c \in Call, NEW k \in Key, Get(c, k) PROVE Inv' /\ Truthful
  <2>1. PICK n \in Node : Start(c, "get", k, NoValue, n)
    BY <1>1, PickReplicaType DEF Get
  <2> QED
    BY <2>1, StartKeepsInv, DataPlaneAssumption
<1>2. ASSUME NEW c \in Call, NEW k \in Key, Delete(c, k) PROVE Inv' /\ Truthful
  <2>1. PICK n \in Node : Start(c, "delete", k, NoValue, n)
    BY <1>2, PrimaryType DEF Delete
  <2> QED
    BY <2>1, StartKeepsInv, DataPlaneAssumption
<1>3. ASSUME NEW c \in Call, NEW k \in Key, NEW v \in Value, Put(c, k, v)
      PROVE  Inv' /\ Truthful
  <2>1. PICK n \in Node : Start(c, "put", k, v, n)
    BY <1>3, PrimaryType DEF Put
  <2> QED
    BY <2>1, StartKeepsInv
<1>4. ASSUME NEW c \in Call,
             HandleGet(c) \/ HandleDelete(c) \/ HandlePutContains(c) \/ HandlePut(c)
      PROVE  Inv' /\ Truthful
  BY <1>4, HandleGetKeepsInv, WriteHandlersKeepInv
<1>5. ASSUME NEW c \in Call, Answer(c) \/ GiveUp(c) \/ Vanish(c) PROVE Inv' /\ Truthful
  BY <1>5, EndKeepsInv
<1>6. ASSUME NEW n \in Node, NEW k \in Key, Expire(n, k) \/ Lose(n, k)
      PROVE  Inv' /\ Truthful
  BY <1>6, EntryLossKeepsInv
<1>7. ASSUME NEW n \in Node, Restart(n) PROVE Inv' /\ Truthful
  BY <1>7, RestartKeepsInv
<1> QED
  BY <1>1, <1>2, <1>3, <1>4, <1>5, <1>6, <1>7, PinsKeepInv DEF Next

\* What the properties below are read off.
LEMMA Invariance == Spec => []Inv
<1>1. Inv /\ [Next]_vars => Inv'
  BY StepKeepsInv
<1> QED
  BY InitInv, <1>1, PTL DEF Spec

\* Stores, calls and pins keep their types: in particular a call that is under
\* way always names a node of the cluster, whatever ring it was routed with,
\* and no GET ever brings an entry that had expired.
THEOREM TypeCorrect == Spec => []TypeOK
<1>1. Inv => TypeOK
  BY DEF Inv, Types, CallRecord, CallOK, PinRecord, Age, TypeOK
<1> QED
  BY <1>1, Invariance, PTL

\* An acknowledged write is on the node that acknowledged it until the entry is
\* lost or another write is sent to it; a write that lands late, after its client
\* has given up, is among those that were under way since.
THEOREM AckedWritesStayThere == Spec => []AckedWritesStay
<1>1. Inv => AckedWritesStay
  BY DEF Inv
<1> QED
  BY <1>1, Invariance, PTL

\* Answers to GET, PUT and DELETE say what may have been there at the time, given
\* the writes that were acknowledged and those that were under way.
THEOREM ClientsAreToldTheTruth == Spec => AnswersAreTrue
<1>1. Inv /\ [Next]_vars => [Truthful]_vars
  BY StepKeepsInv
<1>2. [Truthful]_vars =>
        [\A c \in Call :
          call[c].waiting /\ call[c].phase # "ran" /\ call'[c].phase = "ran" =>
              TrueOf(Expected(c), call[c].op, call'[c].found, call'[c].answer)]_vars
  BY DEF Truthful
<1> QED
  BY <1>1, <1>2, Invariance, PTL DEF Spec, AnswersAreTrue

\* A pin that is not too old names the node of the last acknowledged PUT.
THEOREM PinsFollowWrites == Spec => []PinFollowsWrite
<1>1. Inv => PinFollowsWrite
  BY DEF Inv
<1> QED
  BY <1>1, Invariance, PTL
=============================================================================
