------------------------- MODULE ClassificationCache -------------------------
(***************************************************************************)
(* The LRU cache of classification results (src/modules/parser/cache.py).  *)
(*                                                                         *)
(* Python's OrderedDict is two things at once: a map, kept in store, and   *)
(* the order of its keys, kept in order with the least recently used key   *)
(* first (popitem(last=False) takes it from there).                        *)
(*                                                                         *)
(* A sentence is its normalised text (casefolded, white space collapsed)   *)
(* and the way it was spelled; the key of the cache sees the text only.    *)
(* The hash is taken to be free of collisions.                             *)
(***************************************************************************)
EXTENDS Naturals, Sequences, SequencesExt

CONSTANTS
    Text,       \* normalised texts, the keys of the cache
    Spelling,   \* the ways a text can be spelled
    Value,      \* lists of (category, subcategory) pairs, never empty
    None,       \* what get returns on a miss
    MaxSize     \* max_size

ASSUME MaxSizeAssumption == MaxSize \in Nat \ {0}
ASSUME NoneAssumption == None \notin Value

VARIABLES store, order

cacheVars == <<store, order>>

Sentence == [text : Text, spelling : Spelling]

Key(sentence) == sentence.text

Cached == {k \in Text : store[k] # None}

PositionOf(k) == CHOOSE i \in DOMAIN order : order[i] = k

\* Mutant: the key is promoted without leaving its old place.
MoveToEndTwice(k) == Append(order, k)

\* OrderedDict.move_to_end of a key the cache holds.
MoveToEnd(k) == Append(RemoveAt(order, PositionOf(k)), k)

------------------------------------------------------------------------------

CacheInit ==
    /\ store = [k \in Text |-> None]
    /\ order = <<>>

\* What get returns: None on a miss.
Lookup(sentence) == store[Key(sentence)]

\* Mutant: a hit does not promote the key (first in, first out).
GetWithoutPromotion(sentence) == UNCHANGED <<store, order>>

\* get: a hit becomes the most recently used key, a miss changes nothing.
Get(sentence) ==
    /\ order' = IF Lookup(sentence) = None THEN order ELSE MoveToEnd(Key(sentence))
    /\ UNCHANGED store

\* set of a key the cache holds: the size stays the same.
Overwrite(k, value) ==
    /\ k \in Cached
    /\ store' = [store EXCEPT ![k] = value]
    /\ order' = MoveToEnd(k)

\* set of a new key while there is room for it.
Insert(k, value) ==
    /\ k \notin Cached
    /\ Len(order) < MaxSize
    /\ store' = [store EXCEPT ![k] = value]
    /\ order' = Append(order, k)

\* set of a new key that makes the cache too large: the newcomer goes to the
\* end, popitem(last=False) drops the key at the front.
InsertAndEvict(k, value) ==
    /\ k \notin Cached
    /\ Len(order) >= MaxSize
    /\ LET grown == Append(order, k)
       IN /\ store' = [store EXCEPT ![k] = value, ![Head(grown)] = None]
          /\ order' = Tail(grown)

Set(sentence, value) ==
    \/ Overwrite(Key(sentence), value)
    \/ Insert(Key(sentence), value)
    \/ InsertAndEvict(Key(sentence), value)

Clear ==
    /\ store' = [k \in Text |-> None]
    /\ order' = <<>>

CacheNext ==
    \/ \E s \in Sentence : Get(s)
    \/ \E s \in Sentence, v \in Value : Set(s, v)
    \/ Clear

CacheSpec == CacheInit /\ [][CacheNext]_cacheVars

------------------------------------------------------------------------------

TypeOK ==
    /\ store \in [Text -> Value \cup {None}]
    /\ order \in Seq(Text)

\* The bound the constructor was given holds between any two calls.
WithinCapacity == Len(order) <= MaxSize

\* Every cached key has exactly one place in the recency order, so nothing is
\* cached that eviction can never reach and no place stands for a dropped key.
OnePlacePerKey ==
    /\ Range(order) = Cached
    /\ \A i, j \in DOMAIN order : order[i] = order[j] => i = j

CacheInv == TypeOK /\ WithinCapacity /\ OnePlacePerKey
==============================================================================
