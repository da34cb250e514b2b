----------------------------- MODULE CacheHistory -----------------------------
(***************************************************************************)
(* ClassificationCache with the history its abstract specification speaks  *)
(* of: the number of calls, the call that last used each key and the last  *)
(* reply of get.  The history only watches; no action of the cache reads   *)
(* it.  MaxCalls bounds the number of counted calls for TLC; clear is not  *)
(* counted, so the bound stops nothing but the calls it counts.            *)
(***************************************************************************)
EXTENDS ClassificationCache

CONSTANT MaxCalls
ASSUME MaxCallsAssumption == MaxCalls \in Nat

VARIABLES lastUse, now, reply

vars == <<store, order, lastUse, now, reply>>

HInit ==
    /\ CacheInit
    /\ lastUse = [k \in Text |-> 0]
    /\ now = 0
    /\ reply = None

HGet(sentence) ==
    /\ now < MaxCalls
    /\ Get(sentence)
    /\ reply' = Lookup(sentence)
    /\ now' = now + 1
    /\ lastUse' = IF reply' = None THEN lastUse
                  ELSE [lastUse EXCEPT ![Key(sentence)] = now + 1]

HSet(sentence, value) ==
    /\ now < MaxCalls
    /\ Set(sentence, value)
    /\ now' = now + 1
    /\ lastUse' = [lastUse EXCEPT ![Key(sentence)] = now + 1]
    /\ UNCHANGED reply

HClear ==
    /\ Clear
    /\ UNCHANGED <<lastUse, now, reply>>

HNext ==
    \/ \E s \in Sentence : HGet(s)
    \/ \E s \in Sentence, v \in Value : HSet(s, v)
    \/ HClear

HSpec == HInit /\ [][HNext]_vars

------------------------------------------------------------------------------

HistoryTypeOK ==
    /\ lastUse \in [Text -> Nat]
    /\ now \in Nat
    /\ reply \in Value \cup {None}
    /\ \A k \in Text : lastUse[k] <= now

\* The places of the keys are the order of their last uses: what makes the
\* front of the OrderedDict the right victim.
OrderIsRecency ==
    \A i, j \in DOMAIN order : i < j => lastUse[order[i]] < lastUse[order[j]]

HInv == CacheInv /\ HistoryTypeOK /\ OrderIsRecency

LRU == INSTANCE LRUCache WITH
         LKey <- Text, LValue <- Value, Absent <- None, Capacity <- MaxSize,
         content <- store

\* The promise of cache.py's docstring: seen through its replies the cache is a
\* map of MaxSize keys that forgets the key used longest ago, whatever calls
\* were made before and however the sentences were spelled.
RefinesLRU == LRU!Spec
==============================================================================
