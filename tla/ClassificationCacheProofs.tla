----------------------- MODULE ClassificationCacheProofs -----------------------
(***************************************************************************)
(* What holds of the cache for any texts, spellings, verdicts and size.    *)
(* Each operation preserves CacheInv; the lemmas are stated one by one     *)
(* because the modules that use the cache cite them.                       *)
(***************************************************************************)
EXTENDS ClassificationCache, TLAPS, SequenceTheorems

(***************************************************************************)
(* What removing one position does to a sequence, element by element.      *)
(***************************************************************************)
LEMMA RemoveAtFacts ==
    ASSUME NEW S, NEW s \in Seq(S), NEW p \in 1..Len(s)
    PROVE  /\ RemoveAt(s, p) \in Seq(S)
           /\ Len(RemoveAt(s, p)) = Len(s) - 1
           /\ \A i \in 1..(Len(s) - 1) :
                RemoveAt(s, p)[i] = IF i < p THEN s[i] ELSE s[i + 1]
<1> DEFINE a == SubSeq(s, 1, p - 1)
           b == SubSeq(s, p + 1, Len(s))
<1>1. /\ a \in Seq(S) /\ Len(a) = p - 1
      /\ \A i \in 1..(p - 1) : a[i] = s[i]
  BY SubSeqProperties
<1>2. /\ b \in Seq(S) /\ Len(b) = Len(s) - p
      /\ \A i \in 1..(Len(s) - p) : b[i] = s[p + i]
  BY SubSeqProperties
<1> HIDE DEF a, b
<1>3. /\ a \o b \in Seq(S)
      /\ Len(a \o b) = Len(s) - 1
      /\ \A i \in 1..(Len(s) - 1) :
           (a \o b)[i] = IF i <= Len(a) THEN a[i] ELSE b[i - Len(a)]
  BY <1>1, <1>2, ConcatProperties
<1>4. ASSUME NEW i \in 1..(Len(s) - 1)
      PROVE  (a \o b)[i] = IF i < p THEN s[i] ELSE s[i + 1]
  <2>. Len(s) \in Nat /\ i \in Int /\ p \in Int
    BY LenProperties
  <2>1. CASE i < p
    BY <1>1, <1>3, <2>1
  <2>2. CASE i >= p
    <3>1. i - (p - 1) \in 1..(Len(s) - p) /\ p + (i - (p - 1)) = i + 1
      BY <2>2
    <3> QED BY <1>1, <1>2, <1>3, <2>2, <3>1
  <2>3. i < p \/ i >= p
    OBVIOUS
  <2> QED BY <2>1, <2>2, <2>3, Zenon
<1> QED BY <1>3, <1>4 DEF RemoveAt, a, b

(***************************************************************************)
(* move_to_end keeps the other keys in their order and puts k last.        *)
(***************************************************************************)
LEMMA MoveToEndFacts ==
    ASSUME order \in Seq(Text), NEW k \in Range(order)
    PROVE  /\ MoveToEnd(k) \in Seq(Text)
           /\ Len(MoveToEnd(k)) = Len(order)
           /\ PositionOf(k) \in 1..Len(order)
           /\ order[PositionOf(k)] = k
           /\ \A i \in 1..Len(order) :
                MoveToEnd(k)[i] = IF i < PositionOf(k) THEN order[i]
                                  ELSE IF i < Len(order) THEN order[i + 1]
                                  ELSE k
<1> DEFINE p == PositionOf(k)
<1>1. p \in 1..Len(order) /\ order[p] = k /\ k \in Text
  <2>1. \E i \in DOMAIN order : order[i] = k
    BY DEF Range
  <2> QED BY <2>1 DEF PositionOf
<1> HIDE DEF p
<1>2. /\ RemoveAt(order, p) \in Seq(Text)
      /\ Len(RemoveAt(order, p)) = Len(order) - 1
      /\ \A i \in 1..(Len(order) - 1) :
           RemoveAt(order, p)[i] = IF i < p THEN order[i] ELSE order[i + 1]
  BY <1>1, RemoveAtFacts
<1>3. /\ Append(RemoveAt(order, p), k) \in Seq(Text)
      /\ Len(Append(RemoveAt(order, p), k)) = Len(order)
      /\ \A i \in 1..(Len(order) - 1) :
           Append(RemoveAt(order, p), k)[i] = RemoveAt(order, p)[i]
      /\ Append(RemoveAt(order, p), k)[Len(order)] = k
  BY <1>1, <1>2, AppendProperties
<1> QED BY <1>1, <1>2, <1>3 DEF MoveToEnd, p

(***************************************************************************)
(* The three ways a key is used, each in terms of the order it leaves.     *)
(***************************************************************************)
LEMMA TouchKeepsInv ==
    ASSUME CacheInv, NEW k \in Cached, order' = MoveToEnd(k),
           store' \in [Text -> Value \cup {None}], Cached' = Cached
    PROVE  CacheInv'
<1> DEFINE p == PositionOf(k)
<1>0. order \in Seq(Text) /\ k \in Range(order)
  BY DEF CacheInv, TypeOK, OnePlacePerKey
<1>1. /\ order' \in Seq(Text) /\ Len(order') = Len(order)
      /\ p \in 1..Len(order) /\ order[p] = k
      /\ \A i \in 1..Len(order) :
           order'[i] = IF i < p THEN order[i]
                       ELSE IF i < Len(order) THEN order[i + 1] ELSE k
  BY <1>0, MoveToEndFacts
<1> USE DEF CacheInv, TypeOK, WithinCapacity, OnePlacePerKey
<1>2. Len(order) \in Nat /\ DOMAIN order = 1..Len(order) /\ DOMAIN order' = 1..Len(order)
  BY <1>1
<1> HIDE DEF p
<1>3. Range(order') = Range(order)
  <2>1. ASSUME NEW i \in 1..Len(order) PROVE order'[i] \in Range(order)
    <3>1. \E j \in 1..Len(order) : order'[i] = order[j]
      <4>1. CASE i < p
        BY <1>1, <4>1
      <4>2. CASE i >= p /\ i < Len(order)
        <5>1. i + 1 \in 1..Len(order) /\ order'[i] = order[i + 1]
          BY <1>1, <1>2, <4>2
        <5> QED BY <5>1
      <4>3. CASE i >= p /\ i >= Len(order)
        BY <1>1, <1>2, <4>3
      <4> QED BY <1>1, <1>2, <4>1, <4>2, <4>3
    <3> QED BY <1>2, <3>1 DEF Range
  <2>2. ASSUME NEW i \in 1..Len(order) PROVE order[i] \in Range(order')
    <3>1. CASE i < p
      BY <1>1, <1>2, <3>1 DEF Range
    <3>2. CASE i = p
      <4>1. Len(order) \in 1..Len(order) /\ order'[Len(order)] = order[i]
        BY <1>1, <1>2, <3>2
      <4> QED BY <1>2, <4>1 DEF Range
    <3>3. CASE i > p
      <4>1. i - 1 \in 1..Len(order) /\ order'[i - 1] = order[i]
        BY <1>1, <1>2, <3>3
      <4> QED BY <1>2, <4>1 DEF Range
    <3> QED BY <1>1, <1>2, <3>1, <3>2, <3>3
  <2> QED BY <1>2, <2>1, <2>2 DEF Range
<1>4. ASSUME NEW i \in DOMAIN order', NEW j \in DOMAIN order', order'[i] = order'[j]
      PROVE  i = j
  <2> DEFINE from(n) == IF n < p THEN n ELSE IF n < Len(order) THEN n + 1 ELSE p
  <2>1. ASSUME NEW n \in 1..Len(order)
        PROVE  from(n) \in 1..Len(order) /\ order'[n] = order[from(n)]
    BY <1>1, <1>2
  <2>2. from(i) = from(j)
    BY <1>2, <1>4, <2>1
  <2> QED BY <1>1, <1>2, <2>2
<1> QED BY <1>1, <1>3, <1>4

LEMMA InsertKeepsInv ==
    ASSUME CacheInv, NEW k \in Text, NEW v \in Value, Insert(k, v)
    PROVE  CacheInv'
<1> USE DEF CacheInv, TypeOK, WithinCapacity, OnePlacePerKey, Insert
<1>1. /\ order' \in Seq(Text) /\ Len(order') = Len(order) + 1
      /\ \A i \in 1..Len(order) : order'[i] = order[i]
      /\ order'[Len(order) + 1] = k
  BY AppendProperties
<1>2. /\ Len(order) \in Nat /\ DOMAIN order = 1..Len(order)
      /\ DOMAIN order' = 1..(Len(order) + 1)
  BY <1>1
<1>3. Cached' = Cached \cup {k}
  BY NoneAssumption DEF Cached
<1>4. Range(order') = Range(order) \cup {k}
  BY <1>1, <1>2 DEF Range
<1>5. k \notin Range(order)
  OBVIOUS
<1>6. ASSUME NEW i \in DOMAIN order', NEW j \in DOMAIN order', order'[i] = order'[j]
      PROVE  i = j
  BY <1>1, <1>2, <1>5, <1>6 DEF Range
<1> QED BY <1>1, <1>2, <1>3, <1>4, <1>6, MaxSizeAssumption

(***************************************************************************)
(* With no room left the key at the front is the victim: the others move   *)
(* one place forward and the newcomer is last.                             *)
(***************************************************************************)
LEMMA EvictFacts ==
    ASSUME CacheInv, NEW k \in Text, NEW v \in Value, InsertAndEvict(k, v)
    PROVE  /\ order # <<>> /\ order[1] \in Cached /\ order[1] # k
           /\ store' = [store EXCEPT ![k] = v, ![order[1]] = None]
           /\ order' \in Seq(Text) /\ Len(order') = Len(order)
           /\ \A i \in 1..Len(order) :
                order'[i] = IF i < Len(order) THEN order[i + 1] ELSE k
<1> USE DEF CacheInv, TypeOK, WithinCapacity, OnePlacePerKey, InsertAndEvict
<1> DEFINE grown == Append(order, k)
<1>1. order # <<>> /\ Len(order) \in Nat \ {0} /\ DOMAIN order = 1..Len(order)
  BY MaxSizeAssumption
<1>2. order[1] \in Cached /\ order[1] # k
  BY <1>1 DEF Range
<1>3. /\ grown \in Seq(Text) /\ grown # <<>> /\ Len(grown) = Len(order) + 1
      /\ \A i \in 1..Len(order) : grown[i] = order[i]
      /\ grown[Len(order) + 1] = k
  BY AppendProperties
<1>4. Head(grown) = order[1]
  BY <1>1, <1>3
<1> HIDE DEF grown
<1>5. /\ Tail(grown) \in Seq(Text) /\ Len(Tail(grown)) = Len(order)
      /\ \A i \in 1..Len(order) : Tail(grown)[i] = grown[i + 1]
  BY <1>1, <1>3, HeadTailProperties
<1>6. order' = Tail(grown) /\ store' = [store EXCEPT ![k] = v, ![Head(grown)] = None]
  BY DEF grown
<1>7. ASSUME NEW i \in 1..Len(order)
      PROVE  order'[i] = IF i < Len(order) THEN order[i + 1] ELSE k
  BY <1>1, <1>3, <1>5, <1>6
<1> QED BY <1>1, <1>2, <1>4, <1>5, <1>6, <1>7

LEMMA EvictKeepsInv ==
    ASSUME CacheInv, NEW k \in Text, NEW v \in Value, InsertAndEvict(k, v)
    PROVE  CacheInv' /\ Cached' = (Cached \cup {k}) \ {order[1]}
<1> USE DEF CacheInv, TypeOK, WithinCapacity, OnePlacePerKey
<1>1. /\ order # <<>> /\ order[1] \in Cached /\ order[1] # k
      /\ store' = [store EXCEPT ![k] = v, ![order[1]] = None]
      /\ order' \in Seq(Text) /\ Len(order') = Len(order)
      /\ \A i \in 1..Len(order) :
           order'[i] = IF i < Len(order) THEN order[i + 1] ELSE k
  BY EvictFacts
<1>2. /\ Len(order) \in Nat \ {0} /\ DOMAIN order = 1..Len(order)
      /\ DOMAIN order' = 1..Len(order)
  BY <1>1
<1>3. Cached' = (Cached \cup {k}) \ {order[1]}
  BY <1>1, NoneAssumption DEF Cached
<1>4. k \notin Range(order)
  BY DEF InsertAndEvict
<1>5. ASSUME NEW i \in DOMAIN order', NEW j \in DOMAIN order', order'[i] = order'[j]
      PROVE  i = j
  <2>1. ASSUME NEW n \in 1..Len(order), n < Len(order)
        PROVE  /\ n + 1 \in DOMAIN order /\ order'[n] = order[n + 1]
               /\ order'[n] # k
    BY <1>1, <1>2, <1>4, <2>1 DEF Range
  <2>2. order'[Len(order)] = k
    BY <1>1, <1>2
  <2>3. CASE i < Len(order) /\ j < Len(order)
    <3>1. order[i + 1] = order[j + 1]
      BY <1>2, <1>5, <2>1, <2>3
    <3> QED BY <1>2, <2>1, <2>3, <3>1
  <2>4. CASE i = Len(order) /\ j < Len(order)
    BY <1>2, <1>5, <2>1, <2>2, <2>4
  <2>5. CASE i < Len(order) /\ j = Len(order)
    BY <1>2, <1>5, <2>1, <2>2, <2>5
  <2> QED BY <1>2, <2>3, <2>4, <2>5
<1>6. Range(order') = Cached'
  <2>1. ASSUME NEW i \in 1..Len(order) PROVE order'[i] \in Cached'
    <3>1. CASE i < Len(order)
      <4>1. i + 1 \in DOMAIN order /\ 1 \in DOMAIN order /\ order'[i] = order[i + 1]
        BY <1>1, <1>2, <3>1
      <4>2. order[i + 1] \in Cached /\ order[i + 1] # order[1]
        BY <1>2, <3>1, <4>1 DEF Range
      <4> QED BY <1>3, <4>1, <4>2
    <3>2. CASE i = Len(order)
      BY <1>1, <1>2, <1>3, <3>2
    <3>3. i < Len(order) \/ i = Len(order)
      <4>1. Len(order) \in Nat /\ i \in Nat /\ i <= Len(order)
        BY <1>2
      <4> QED BY <4>1
    <3> QED BY <3>1, <3>2, <3>3, Zenon
  <2>2. ASSUME NEW c \in Cached' PROVE c \in Range(order')
    <3>1. CASE c = k
      <4>1. Len(order) \in DOMAIN order' /\ order'[Len(order)] = k
        BY <1>1, <1>2
      <4> QED BY <3>1, <4>1 DEF Range
    <3>2. CASE c # k
      <4>1. PICK i \in 2..Len(order) : order[i] = c
        BY <1>2, <1>3, <3>2 DEF Range
      <4>2. i - 1 \in DOMAIN order' /\ order'[i - 1] = c
        BY <1>1, <1>2, <4>1
      <4> QED BY <4>2 DEF Range
    <3> QED BY <3>1, <3>2
  <2> QED BY <1>2, <2>1, <2>2 DEF Range
<1>7. store' \in [Text -> Value \cup {None}]
  BY <1>1 DEF Cached
<1> QED BY <1>1, <1>3, <1>5, <1>6, <1>7

LEMMA GetKeepsInv ==
    ASSUME CacheInv, NEW s \in Sentence, Get(s)
    PROVE  CacheInv'
<1> USE DEF CacheInv, TypeOK
<1>1. Key(s) \in Text
  BY DEF Key, Sentence
<1>2. CASE Lookup(s) = None
  BY <1>2 DEF Get, WithinCapacity, OnePlacePerKey, Cached
<1>3. CASE Lookup(s) # None
  <2>1. Key(s) \in Cached
    BY <1>1, <1>3 DEF Lookup, Cached
  <2>2. order' = MoveToEnd(Key(s)) /\ store' = store /\ Cached' = Cached
    BY <1>3 DEF Get, Cached
  <2> QED BY <2>1, <2>2, TouchKeepsInv
<1> QED BY <1>2, <1>3

LEMMA SetKeepsInv ==
    ASSUME CacheInv, NEW s \in Sentence, NEW v \in Value, Set(s, v)
    PROVE  CacheInv'
<1>1. Key(s) \in Text
  BY DEF Key, Sentence
<1>2. CASE Overwrite(Key(s), v)
  <2>1. /\ Key(s) \in Cached /\ order' = MoveToEnd(Key(s))
        /\ store' \in [Text -> Value \cup {None}] /\ Cached' = Cached
    BY <1>1, <1>2, NoneAssumption DEF Overwrite, Cached, CacheInv, TypeOK
  <2> QED BY <2>1, TouchKeepsInv
<1>3. CASE Insert(Key(s), v)
  BY <1>1, <1>3, InsertKeepsInv
<1>4. CASE InsertAndEvict(Key(s), v)
  BY <1>1, <1>4, EvictKeepsInv
<1> QED BY <1>2, <1>3, <1>4 DEF Set

LEMMA ClearKeepsInv == ASSUME Clear PROVE CacheInv'
BY MaxSizeAssumption DEF Clear, CacheInv, TypeOK, WithinCapacity, OnePlacePerKey, Cached, Range

LEMMA CacheInitInv == ASSUME CacheInit PROVE CacheInv
BY MaxSizeAssumption
   DEF CacheInit, CacheInv, TypeOK, WithinCapacity, OnePlacePerKey, Cached, Range

LEMMA CacheNextInv == ASSUME CacheInv, [CacheNext]_cacheVars PROVE CacheInv'
<1>1. CASE UNCHANGED cacheVars
  BY <1>1 DEF cacheVars, CacheInv, TypeOK, WithinCapacity, OnePlacePerKey, Cached
<1> QED BY <1>1, GetKeepsInv, SetKeepsInv, ClearKeepsInv DEF CacheNext

(***************************************************************************)
(* The cache keeps its types and its bound, and its recency order lists    *)
(* the cached keys once each: cache.py for every size and every sequence   *)
(* of get, set and clear.                                                  *)
(***************************************************************************)
THEOREM CacheInvariant == CacheSpec => []CacheInv
<1>1. CacheInit => CacheInv
  BY CacheInitInv
<1>2. CacheInv /\ [CacheNext]_cacheVars => CacheInv'
  BY CacheNextInv
<1> QED BY <1>1, <1>2, PTL DEF CacheSpec
==============================================================================
