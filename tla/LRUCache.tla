------------------------------ MODULE LRUCache ------------------------------
(***************************************************************************)
(* What the docstring of cache.py promises, without an order to maintain:  *)
(* a map of at most Capacity keys in which every use of a key is dated and *)
(* a new key that finds the map full drops the key used longest ago.       *)
(***************************************************************************)
EXTENDS Naturals, FiniteSets

CONSTANTS LKey, LValue, Absent, Capacity

VARIABLES
    content,    \* the value of each key, or Absent
    lastUse,    \* when each key was last stored or found
    now,        \* the number of calls so far
    reply       \* what the last lookup returned

vars == <<content, lastUse, now, reply>>

Held == {k \in LKey : content[k] # Absent}

Init ==
    /\ content = [k \in LKey |-> Absent]
    /\ lastUse = [k \in LKey |-> 0]
    /\ now = 0
    /\ reply = Absent

Lookup(k) ==
    /\ reply' = content[k]
    /\ now' = now + 1
    /\ lastUse' = IF k \in Held THEN [lastUse EXCEPT ![k] = now + 1] ELSE lastUse
    /\ UNCHANGED content

Store(k, v) ==
    /\ now' = now + 1
    /\ lastUse' = [lastUse EXCEPT ![k] = now + 1]
    /\ IF k \in Held \/ Cardinality(Held) < Capacity
         THEN content' = [content EXCEPT ![k] = v]
         ELSE \E oldest \in Held :
                /\ \A other \in Held : lastUse[oldest] <= lastUse[other]
                /\ content' = [content EXCEPT ![k] = v, ![oldest] = Absent]
    /\ UNCHANGED reply

Forget ==
    /\ content' = [k \in LKey |-> Absent]
    /\ UNCHANGED <<lastUse, now, reply>>

Next ==
    \/ \E k \in LKey : Lookup(k)
    \/ \E k \in LKey, v \in LValue : Store(k, v)
    \/ Forget

Spec == Init /\ [][Next]_vars
=============================================================================
