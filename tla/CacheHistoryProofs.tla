-------------------------- MODULE CacheHistoryProofs --------------------------
(***************************************************************************)
(* The recency order of the cache is the order of the last uses, whatever  *)
(* the calls were; from it, and from the invariant of the cache, follows   *)
(* that the cache implements the least-recently-used map of LRUCache.      *)
(***************************************************************************)
EXTENDS CacheHistory, ClassificationCacheProofs, FiniteSetTheorems

LEMMA TouchedOrder ==
    ASSUME HInv, NEW k \in Cached, order' = MoveToEnd(k),
           lastUse' = [lastUse EXCEPT ![k] = now + 1]
    PROVE  OrderIsRecency'
<1> USE DEF HInv, CacheInv, TypeOK, OnePlacePerKey
<1> DEFINE p == PositionOf(k)
           from(n) == IF n < p THEN n ELSE IF n < Len(order) THEN n + 1 ELSE p
<1>1. /\ order' \in Seq(Text) /\ Len(order') = Len(order)
      /\ p \in 1..Len(order) /\ order[p] = k
      /\ \A i \in 1..Len(order) :
           order'[i] = IF i < p THEN order[i]
                       ELSE IF i < Len(order) THEN order[i + 1] ELSE k
  BY MoveToEndFacts
<1>2. Len(order) \in Nat /\ DOMAIN order = 1..Len(order) /\ DOMAIN order' = 1..Len(order)
  BY <1>1
<1> HIDE DEF p
<1>3. ASSUME NEW i \in DOMAIN order', NEW j \in DOMAIN order', i < j
      PROVE  lastUse'[order'[i]] < lastUse'[order'[j]]
  <2>1. /\ from(i) \in DOMAIN order /\ order'[i] = order[from(i)] /\ from(i) # p
        /\ order[from(i)] # k
    BY <1>1, <1>2, <1>3
  <2>2. lastUse'[order'[i]] = lastUse[order[from(i)]]
    BY <2>1 DEF HistoryTypeOK
  <2>3. CASE j = Len(order)
    <3>1. order'[j] = k
      BY <1>1, <1>2, <2>3
    <3>2. lastUse'[order'[j]] = now + 1
      BY <3>1 DEF HistoryTypeOK, Cached
    <3>3. order[from(i)] \in Text
      BY <2>1
    <3>4. /\ lastUse[order[from(i)]] <= now
          /\ lastUse[order[from(i)]] \in Nat /\ now \in Nat
      BY <3>3 DEF HistoryTypeOK
    <3> QED BY <2>2, <3>2, <3>4
  <2>4. CASE j < Len(order)
    <3>1. /\ from(j) \in DOMAIN order /\ order'[j] = order[from(j)]
          /\ order[from(j)] # k /\ from(i) < from(j)
      BY <1>1, <1>2, <1>3, <2>4
    <3>2. lastUse'[order'[j]] = lastUse[order[from(j)]]
      BY <3>1 DEF HistoryTypeOK
    <3>3. lastUse[order[from(i)]] < lastUse[order[from(j)]]
      BY <2>1, <3>1 DEF OrderIsRecency
    <3> QED BY <2>2, <3>2, <3>3
  <2>5. j = Len(order) \/ j < Len(order)
    BY <1>2
  <2> QED BY <2>3, <2>4, <2>5, Zenon
<1> QED BY <1>3 DEF OrderIsRecency

LEMMA InsertedOrder ==
    ASSUME HInv, NEW k \in Text, NEW v \in Value, Insert(k, v),
           lastUse' = [lastUse EXCEPT ![k] = now + 1]
    PROVE  OrderIsRecency'
<1> USE DEF HInv, CacheInv, TypeOK, OnePlacePerKey, Insert
<1>1. /\ order' \in Seq(Text) /\ Len(order') = Len(order) + 1
      /\ \A i \in 1..Len(order) : order'[i] = order[i]
      /\ order'[Len(order) + 1] = k
  BY AppendProperties
<1>2. /\ Len(order) \in Nat /\ DOMAIN order = 1..Len(order)
      /\ DOMAIN order' = 1..(Len(order) + 1)
  BY <1>1
<1>3. ASSUME NEW i \in DOMAIN order', NEW j \in DOMAIN order', i < j
      PROVE  lastUse'[order'[i]] < lastUse'[order'[j]]
  <2>1. /\ i \in DOMAIN order /\ order'[i] = order[i] /\ order[i] # k
        /\ order[i] \in Text
    BY <1>1, <1>2, <1>3 DEF Range
  <2>2. lastUse'[order'[i]] = lastUse[order[i]]
    BY <2>1 DEF HistoryTypeOK
  <2>3. CASE j = Len(order) + 1
    <3>1. lastUse'[order'[j]] = now + 1 /\ lastUse[order[i]] <= now
      BY <1>1, <2>1, <2>3 DEF HistoryTypeOK
    <3>2. lastUse[order[i]] \in Nat /\ now \in Nat
      BY <2>1 DEF HistoryTypeOK
    <3> QED BY <2>2, <3>1, <3>2
  <2>4. CASE j <= Len(order)
    <3>1. j \in DOMAIN order /\ order'[j] = order[j] /\ order[j] # k /\ order[j] \in Text
      BY <1>1, <1>2, <2>4 DEF Range
    <3>2. lastUse'[order'[j]] = lastUse[order[j]]
      BY <3>1 DEF HistoryTypeOK
    <3>3. lastUse[order[i]] < lastUse[order[j]]
      BY <1>3, <2>1, <3>1 DEF OrderIsRecency
    <3> QED BY <2>2, <3>2, <3>3
  <2>5. j = Len(order) + 1 \/ j <= Len(order)
    BY <1>2
  <2> QED BY <2>3, <2>4, <2>5, Zenon
<1> QED BY <1>3 DEF OrderIsRecency

LEMMA EvictedOrder ==
    ASSUME HInv, NEW k \in Text, NEW v \in Value, InsertAndEvict(k, v),
           lastUse' = [lastUse EXCEPT ![k] = now + 1]
    PROVE  OrderIsRecency'
<1> USE DEF HInv, CacheInv, TypeOK, OnePlacePerKey
<1>1. /\ order' \in Seq(Text) /\ Len(order') = Len(order)
      /\ \A i \in 1..Len(order) :
           order'[i] = IF i < Len(order) THEN order[i + 1] ELSE k
  BY EvictFacts
<1>2. Len(order) \in Nat /\ DOMAIN order = 1..Len(order) /\ DOMAIN order' = 1..Len(order)
  BY <1>1
<1>3. k \notin Range(order)
  BY DEF InsertAndEvict
<1>4. ASSUME NEW i \in DOMAIN order', i < Len(order)
      PROVE  /\ i + 1 \in DOMAIN order /\ order'[i] = order[i + 1]
             /\ order[i + 1] # k /\ order[i + 1] \in Text
             /\ lastUse'[order'[i]] = lastUse[order[i + 1]]
  <2>1. i + 1 \in DOMAIN order /\ order'[i] = order[i + 1] /\ order[i + 1] \in Text
    BY <1>1, <1>2, <1>4
  <2>2. order[i + 1] # k
    BY <1>3, <2>1 DEF Range
  <2> QED BY <2>1, <2>2 DEF HistoryTypeOK
<1>5. ASSUME NEW i \in DOMAIN order', NEW j \in DOMAIN order', i < j
      PROVE  lastUse'[order'[i]] < lastUse'[order'[j]]
  <2>1. i < Len(order)
    BY <1>2, <1>5
  <2>2. CASE j = Len(order)
    <3>1. lastUse'[order'[j]] = now + 1
      <4>1. order'[j] = k
        BY <1>1, <1>2, <2>2
      <4> QED BY <4>1 DEF HistoryTypeOK
    <3>2. /\ lastUse[order[i + 1]] <= now
          /\ lastUse[order[i + 1]] \in Nat /\ now \in Nat
      BY <1>4, <2>1 DEF HistoryTypeOK
    <3> QED BY <1>4, <2>1, <3>1, <3>2
  <2>3. CASE j < Len(order)
    <3>1. lastUse[order[i + 1]] < lastUse[order[j + 1]]
      BY <1>2, <1>4, <1>5, <2>1, <2>3 DEF OrderIsRecency
    <3> QED BY <1>4, <2>1, <2>3, <3>1
  <2>4. j = Len(order) \/ j < Len(order)
    BY <1>2
  <2> QED BY <2>2, <2>3, <2>4, Zenon
<1> QED BY <1>5 DEF OrderIsRecency

LEMMA HGetKeepsInv ==
    ASSUME HInv, NEW s \in Sentence, HGet(s)
    PROVE  HInv'
<1>1. CacheInv'
  BY GetKeepsInv DEF HInv, HGet
<1>2. Key(s) \in Text /\ Lookup(s) = store[Key(s)]
  BY DEF Key, Sentence, Lookup
<1>3. HistoryTypeOK'
  BY <1>2 DEF HInv, CacheInv, TypeOK, HistoryTypeOK, HGet
<1>4. OrderIsRecency'
  <2>1. CASE Lookup(s) = None
    BY <2>1 DEF HInv, HGet, Get, OrderIsRecency
  <2>2. CASE Lookup(s) # None
    <3>1. /\ Key(s) \in Cached /\ order' = MoveToEnd(Key(s))
          /\ lastUse' = [lastUse EXCEPT ![Key(s)] = now + 1]
      BY <1>2, <2>2 DEF HGet, Get, Cached
    <3> QED BY <3>1, TouchedOrder
  <2> QED BY <2>1, <2>2
<1> QED BY <1>1, <1>3, <1>4 DEF HInv

LEMMA HSetKeepsInv ==
    ASSUME HInv, NEW s \in Sentence, NEW v \in Value, HSet(s, v)
    PROVE  HInv'
<1>1. CacheInv'
  BY SetKeepsInv DEF HInv, HSet
<1>2. Key(s) \in Text
  BY DEF Key, Sentence
<1>3. HistoryTypeOK'
  BY <1>2 DEF HInv, HistoryTypeOK, HSet
<1>4. lastUse' = [lastUse EXCEPT ![Key(s)] = now + 1]
  BY DEF HSet
<1>5. OrderIsRecency'
  <2>1. CASE Overwrite(Key(s), v)
    BY <1>4, <2>1, TouchedOrder DEF Overwrite
  <2>2. CASE Insert(Key(s), v)
    BY <1>2, <1>4, <2>2, InsertedOrder
  <2>3. CASE InsertAndEvict(Key(s), v)
    BY <1>2, <1>4, <2>3, EvictedOrder
  <2> QED BY <2>1, <2>2, <2>3 DEF HSet, Set
<1> QED BY <1>1, <1>3, <1>5 DEF HInv

LEMMA HClearKeepsInv == ASSUME HInv, HClear PROVE HInv'
BY ClearKeepsInv DEF HInv, HClear, Clear, HistoryTypeOK, OrderIsRecency

LEMMA HInitInv == ASSUME HInit PROVE HInv
BY CacheInitInv DEF HInit, HInv, CacheInit, HistoryTypeOK, OrderIsRecency

LEMMA HNextInv == ASSUME HInv, [HNext]_vars PROVE HInv'
<1>1. CASE UNCHANGED vars
  <2>1. CacheInv'
    BY <1>1, CacheNextInv DEF vars, cacheVars, HInv
  <2> QED BY <1>1, <2>1 DEF vars, HInv, HistoryTypeOK, OrderIsRecency
<1> QED BY <1>1, HGetKeepsInv, HSetKeepsInv, HClearKeepsInv DEF HNext

(***************************************************************************)
(* In every history of calls the recency order is the order of last uses.  *)
(***************************************************************************)
THEOREM HistoryInvariant == HSpec => []HInv
<1>1. HInit => HInv
  BY HInitInv
<1>2. HInv /\ [HNext]_vars => HInv'
  BY HNextInv
<1> QED BY <1>1, <1>2, PTL DEF HSpec

------------------------------------------------------------------------------
(* The cache implements LRUCache.                                          *)

LEMMA CacheSize == ASSUME CacheInv PROVE Cardinality(Cached) = Len(order)
<1> USE DEF CacheInv, TypeOK, OnePlacePerKey
<1>1. Len(order) \in Nat /\ DOMAIN order = 1..Len(order) /\ order \in [1..Len(order) -> Text]
  BY LenProperties
<1>2. order \in [1..Len(order) -> Cached]
  BY <1>1 DEF Range
<1>3. order \in Bijection(1..Len(order), Cached)
  BY <1>1, <1>2 DEF Bijection, Injection, Surjection, IsInjective, Range
<1> QED BY <1>1, <1>3, FS_CountingElements DEF ExistsBijection

LEMMA HeldIsCached ==
    LRU!Held = Cached /\ LRU!Cardinality(Cached) = Cardinality(Cached)
BY DEF LRU!Held, Cached, LRU!Cardinality, Cardinality

(* The victim at the front of the order is one nobody used after another.  *)
LEMMA FrontIsOldest ==
    ASSUME HInv, order # <<>>, NEW other \in Cached
    PROVE  lastUse[order[1]] <= lastUse[other]
<1> USE DEF HInv, CacheInv, TypeOK, OnePlacePerKey
<1>1. PICK j \in DOMAIN order : order[j] = other
  BY DEF Range
<1>2. 1 \in DOMAIN order /\ j \in Nat /\ (j = 1 \/ 1 < j)
  BY <1>1
<1>3. lastUse[order[1]] \in Nat /\ lastUse[other] \in Nat
  BY <1>1, <1>2 DEF HistoryTypeOK
<1>4. CASE j = 1
  BY <1>1, <1>3, <1>4
<1>5. CASE 1 < j
  <2>1. lastUse[order[1]] < lastUse[order[j]]
    BY <1>2, <1>5 DEF OrderIsRecency
  <2> QED BY <1>1, <1>3, <2>1
<1> QED BY <1>2, <1>4, <1>5

LEMMA GetRefines ==
    ASSUME HInv, NEW s \in Sentence, HGet(s)
    PROVE  LRU!Lookup(Key(s))
BY DEF HInv, CacheInv, TypeOK, HGet, Get, Lookup, Key, LRU!Lookup, LRU!Held, Sentence

LEMMA SetRefines ==
    ASSUME HInv, NEW s \in Sentence, NEW v \in Value, HSet(s, v)
    PROVE  LRU!Store(Key(s), v)
<1> DEFINE k == Key(s)
<1>1. k \in Text /\ now' = now + 1 /\ lastUse' = [lastUse EXCEPT ![k] = now + 1]
      /\ UNCHANGED reply
  BY DEF Key, Sentence, HSet
<1>2. Cardinality(Cached) = Len(order) /\ Len(order) \in Nat
  BY CacheSize, LenProperties DEF HInv, CacheInv, TypeOK
<1> SUFFICES LRU!Store(k, v)
  OBVIOUS
<1> HIDE DEF k
<1>3. CASE Overwrite(k, v)
  BY <1>1, <1>3, HeldIsCached DEF Overwrite, LRU!Store
<1>4. CASE Insert(k, v)
  BY <1>1, <1>2, <1>4, HeldIsCached DEF Insert, LRU!Store
<1>5. CASE InsertAndEvict(k, v)
  <2>1. /\ order # <<>> /\ order[1] \in Cached
        /\ store' = [store EXCEPT ![k] = v, ![order[1]] = None]
    BY <1>1, <1>5, EvictFacts DEF HInv
  <2>2. \A other \in Cached : lastUse[order[1]] <= lastUse[other]
    BY <2>1, FrontIsOldest
  <2>3. k \notin Cached /\ ~ (Cardinality(Cached) < MaxSize)
    BY <1>2, <1>5, MaxSizeAssumption DEF InsertAndEvict
  <2> QED BY <1>1, <2>1, <2>2, <2>3, HeldIsCached DEF LRU!Store
<1> QED BY <1>3, <1>4, <1>5 DEF HSet, Set, k

LEMMA InitRefines == ASSUME HInit PROVE LRU!Init
BY DEF HInit, CacheInit, LRU!Init

LEMMA NextRefines == ASSUME HInv, [HNext]_vars PROVE [LRU!Next]_(LRU!vars)
<1>1. ASSUME NEW s \in Sentence, HGet(s) PROVE LRU!Next
  BY <1>1, GetRefines DEF LRU!Next, Key, Sentence
<1>2. ASSUME NEW s \in Sentence, NEW v \in Value, HSet(s, v) PROVE LRU!Next
  BY <1>2, SetRefines DEF LRU!Next, Key, Sentence
<1>3. CASE HClear
  BY <1>3 DEF HClear, Clear, LRU!Next, LRU!Forget
<1>4. CASE UNCHANGED vars
  BY <1>4 DEF vars, LRU!vars
<1> QED BY <1>1, <1>2, <1>3, <1>4 DEF HNext

(***************************************************************************)
(* Every behaviour of the cache is a behaviour of the least-recently-used  *)
(* map: the order the OrderedDict keeps finds the right victim always.     *)
(***************************************************************************)
THEOREM CacheRefinesLRU == HSpec => RefinesLRU
<1>1. HInit => LRU!Init
  BY InitRefines
<1>2. HInv /\ [HNext]_vars => [LRU!Next]_(LRU!vars)
  BY NextRefines
<1> QED BY <1>1, <1>2, HistoryInvariant, PTL DEF HSpec, RefinesLRU, LRU!Spec
==============================================================================
