----------------------------- MODULE LossyStore -----------------------------
(***************************************************************************)
(* What a client of one cache node may rely on, whatever the node does     *)
(* inside: a read returns the value written last, until that value's life  *)
(* is over or the key is deleted; a write may cost one other key its       *)
(* value; and nothing else is ever lost or changed, unless the whole cache *)
(* is cleared.                                                             *)
(***************************************************************************)
EXTENDS Integers

CONSTANTS
    Key, Value,
    Nothing,    \* the answer to a read of a key that has no value
    Forever,    \* life of a value that does not expire
    Life        \* lives, in clock ticks, that a write may give to a value

VARIABLES
    store,      \* store[k]: [value, life], or Nothing
    answer      \* what the last read returned: [key, value]

vars == <<store, answer>>

Entry == [value : Value, life : Life]

Init ==
    /\ store = [k \in Key |-> Nothing]
    /\ answer = Nothing

Read(k) ==
    /\ answer' = [key |-> k, value |-> IF store[k] = Nothing THEN Nothing
                                       ELSE store[k].value]
    /\ UNCHANGED store

Write(k, v, life) ==
    /\ \E lost \in {{}} \cup {{j} : j \in Key \ {k}} :
          store' = [j \in Key |->
                       IF j = k THEN [value |-> v, life |-> life]
                       ELSE IF j \in lost THEN Nothing ELSE store[j]]
    /\ UNCHANGED answer

Delete(k) ==
    /\ store' = [store EXCEPT ![k] = Nothing]
    /\ UNCHANGED answer

Clear ==
    /\ store' = [k \in Key |-> Nothing]
    /\ UNCHANGED answer

Aged(e) ==
    IF e = Nothing THEN Nothing
    ELSE IF e.life = Forever THEN e
    ELSE IF e.life = 1 THEN Nothing ELSE [e EXCEPT !.life = @ - 1]

Tick ==
    /\ store' = [k \in Key |-> Aged(store[k])]
    /\ UNCHANGED answer

Next ==
    \/ \E k \in Key : Read(k)
    \/ \E k \in Key, v \in Value, life \in Life : Write(k, v, life)
    \/ \E k \in Key : Delete(k)
    \/ Clear
    \/ Tick

Spec == Init /\ [][Next]_vars
=============================================================================
