------------------------- MODULE ParserServiceProofs -------------------------
(***************************************************************************)
(* What holds of parse for any journal, catalogue, reply of the LLM, mode  *)
(* and cache size: the types, the honesty of the cache, that every item    *)
(* was earned by its own sentence, and the agreement of the trees.         *)
(***************************************************************************)
EXTENDS ParserService, DataLemmas

(***************************************************************************)
(* The results of the tasks that finished: between a task's return and the *)
(* end of the batch the verdict waits here, while other tasks may replace  *)
(* what the cache holds for the same text.                                 *)
(***************************************************************************)
ResultsEarned ==
    \A i \in DOMAIN status :
        status[i] = "finished" => result[i] \in EarnedBy(SentenceAt(i))

\* A task waits for the LLM only when the keywords did not decide.
AskingIsUndecided ==
    \A i \in DOMAIN status :
        status[i] = "asking" => mode = "hybrid" /\ High[SentenceAt(i).text] = <<>>

IInv == /\ TypeOK
        /\ Cache!CacheInv
        /\ CacheHonest
        /\ ResultsEarned
        /\ AskingIsUndecided
        /\ EveryItemEarned

------------------------------------------------------------------------------
(* The constants.                                                            *)

LEMMA CacheSizeType == CacheSize \in Nat \ {0}
BY SizeAssumption DEF CacheSize, SizeOf

LEMMA HighIsVerdict ==
    ASSUME NEW t \in Text
    PROVE  High[t] \in Verdict /\ High[t] # Fallback
<1>1. High[t] \in Seq(Subcategory)
  BY KeywordAssumption
<1>2. High[t] # Fallback
  <2>1. SUFFICES ASSUME High[t] = <<FallbackPair>> PROVE FALSE
    BY DEF Fallback
  <2>2. FallbackPair \in Subcategory
    BY <1>1, <2>1
  <2> QED BY <2>2, PairAssumption
<1> QED BY <1>2 DEF Verdict

LEMMA OtherVerdicts ==
    /\ Fallback \in Verdict
    /\ \A p \in Payload : ParsePayload(p) \in Verdict
    /\ \A s \in Sentence : /\ Legacy[s] \in Verdict
                           /\ Medium[s.text] \in Verdict
                           /\ AfterFailure(s) \in Verdict
BY DEF Verdict, AfterFailure, Sentence

LEMMA SentencesOfEntry ==
    ASSUME journal \in Journal, NEW n \in DOMAIN journal.entries
    PROVE  /\ Entry(n) \in RawEntry
           /\ AllSentences(Entry(n)) \in Seq(Sentence)
           /\ Places(Entry(n)) \subseteq DOMAIN AllSentences(Entry(n))
           /\ Places(Entry(n)) \subseteq Nat
           /\ \A i \in Places(Entry(n)) : AllSentences(Entry(n))[i] \in Sentence
<1>1. Entry(n) \in RawEntry
  BY JournalAssumption DEF Entry
<1>2. AllSentences(Entry(n)) \in Seq(Sentence)
  <2>1. /\ Entry(n).planlar \in Seq(Sentence) /\ Entry(n).cue_column \in Seq(Sentence)
        /\ Entry(n).notes_column \in Seq(Sentence) /\ Entry(n).summary \in Seq(Sentence)
    BY <1>1 DEF RawEntry
  <2> QED BY <2>1, ConcatProperties DEF AllSentences
<1>3. DOMAIN AllSentences(Entry(n)) \subseteq Nat
  BY <1>2
<1> QED BY <1>1, <1>2, <1>3 DEF Places

------------------------------------------------------------------------------
(* The cache, by the lemmas of ClassificationCacheProofs.                    *)

CacheProofs == INSTANCE ClassificationCacheProofs WITH
                 Value <- Verdict, None <- NoVerdict, MaxSize <- CacheSize

LEMMA SameCache ==
    /\ Cache!CacheInv <=> CacheProofs!CacheInv
    /\ CacheProofs!Sentence = Sentence
    /\ \A s \in Sentence : Cache!Get(s) => CacheProofs!Get(s)
    /\ \A s \in Sentence, v \in Verdict : Cache!Set(s, v) => CacheProofs!Set(s, v)
    /\ Cache!CacheInit => CacheProofs!CacheInit
BY DEF CacheProofs!Sentence, Sentence, CacheProofs!CacheInv, CacheProofs!TypeOK,
       CacheProofs!WithinCapacity, CacheProofs!OnePlacePerKey, Cache!CacheInv,
       Cache!TypeOK, Cache!WithinCapacity, Cache!OnePlacePerKey, CacheProofs!Cached,
       Cache!Cached, CacheProofs!Set, Cache!Set, CacheProofs!Overwrite, Cache!Overwrite,
       CacheProofs!Insert, Cache!Insert, CacheProofs!InsertAndEvict, Cache!InsertAndEvict,
       CacheProofs!MoveToEnd, CacheProofs!PositionOf, Cache!MoveToEnd, Cache!PositionOf,
       CacheProofs!Key, Cache!Key, CacheProofs!RemoveAt, Cache!RemoveAt,
       CacheProofs!Range, Cache!Range, CacheProofs!Get, Cache!Get, CacheProofs!Lookup,
       Cache!Lookup, CacheProofs!CacheInit, Cache!CacheInit

LEMMA SameCacheNext == Cache!CacheInv' <=> CacheProofs!CacheInv'
BY DEF CacheProofs!CacheInv, CacheProofs!TypeOK, CacheProofs!WithinCapacity,
       CacheProofs!OnePlacePerKey, Cache!CacheInv, Cache!TypeOK, Cache!WithinCapacity,
       Cache!OnePlacePerKey, CacheProofs!Cached, Cache!Cached, CacheProofs!Range,
       Cache!Range

LEMMA CacheGetKeepsInv ==
    ASSUME Cache!CacheInv, NEW s \in Sentence, Cache!Get(s)
    PROVE  Cache!CacheInv'
BY SameCache, SameCacheNext, CacheSizeType, NoVerdictAssumption, CacheProofs!GetKeepsInv

LEMMA CacheSetKeepsInv ==
    ASSUME Cache!CacheInv, NEW s \in Sentence, NEW v \in Verdict, Cache!Set(s, v)
    PROVE  Cache!CacheInv'
BY SameCache, SameCacheNext, CacheSizeType, NoVerdictAssumption, CacheProofs!SetKeepsInv

(***************************************************************************)
(* What set does to the map: the key gets the value, and any other key     *)
(* keeps its own or is dropped.                                            *)
(***************************************************************************)
LEMMA SetEffect ==
    ASSUME Cache!TypeOK, NEW s \in Sentence, NEW v \in Verdict, Cache!Set(s, v),
           NEW t \in Text
    PROVE  store'[t] \in {store[t], NoVerdict} \/ (t = s.text /\ store'[t] = v)
BY DEF Cache!TypeOK, Cache!Set, Cache!Overwrite, Cache!Insert, Cache!InsertAndEvict,
       Cache!Key, Sentence

------------------------------------------------------------------------------
(* A task that returns.                                                      *)

LEMMA BatchFacts ==
    ASSUME TypeOK, phase = "gather"
    PROVE  /\ current \in DOMAIN journal.entries
           /\ Batch \subseteq Nat
           /\ DOMAIN status = Batch
           /\ \A i \in Batch : SentenceAt(i) \in Sentence /\ SentenceAt(i).text \in Text
BY SentencesOfEntry DEF TypeOK, Batch, SentenceAt, Sentence

\* The history only grows, so what was earned stays earned.
LEMMA EarnedStays ==
    ASSUME answers \subseteq answers', UNCHANGED mode, NEW s
    PROVE  EarnedBy(s) \subseteq EarnedBy(s)'
BY DEF EarnedBy

LEMMA ItemsStayEarned ==
    ASSUME EveryItemEarned, answers \subseteq answers', UNCHANGED <<mode, fields>>
    PROVE  EveryItemEarned'
<1>1. ASSUME NEW p \in fields, p.text # EmptyEntry
      PROVE  EarnedBy(p.text) \subseteq EarnedBy(p.text)'
  BY EarnedStays
<1> QED BY <1>1 DEF EveryItemEarned

LEMMA FinishTask ==
    ASSUME IInv, phase = "gather", NEW i \in Batch, NEW v \in Verdict, Returns(i, v),
           v \in EarnedBy(SentenceAt(i))',
           Cache!CacheInv', CacheHonest',
           stats' \in [Counters -> Nat],
           asked' \subseteq [entry : Nat, sentence : Sentence],
           answers' \subseteq [entry : Nat, sentence : Sentence,
                               verdict : Verdict \ {Fallback}],
           answers \subseteq answers'
    PROVE  IInv'
<1> USE DEF IInv
<1>1. UNCHANGED <<journal, mode, phase, current, fields, byDate, metadata>>
  BY DEF Returns, given, treeVars
<1>2. Batch' = Batch /\ \A j : SentenceAt(j)' = SentenceAt(j)
  BY <1>1 DEF Batch, SentenceAt, Entry
<1>3. /\ status' = [status EXCEPT ![i] = "finished"]
      /\ result' = [result EXCEPT ![i] = v]
      /\ status \in [Batch -> {"waiting", "asking", "finished"}]
      /\ result \in [Batch -> Verdict \cup {NoVerdict}]
  BY DEF Returns, TypeOK
<1>4. TypeOK'
  <2>1. /\ status' \in [Batch -> {"waiting", "asking", "finished"}]
        /\ result' \in [Batch -> Verdict \cup {NoVerdict}]
        /\ \A j \in Batch : status'[j] = "finished" <=> result'[j] # NoVerdict
    BY <1>3, NoVerdictAssumption DEF TypeOK
  <2>2. Cache!TypeOK'
    BY DEF Cache!CacheInv
  <2>3. /\ EntryDates' = EntryDates /\ Item' = Item
        /\ journal'.entries = journal.entries
    BY <1>1 DEF EntryDates, Item, Entry
  <2> QED BY <1>1, <1>2, <2>1, <2>2, <2>3 DEF TypeOK
<1>5. ResultsEarned'
  <2>1. ASSUME NEW j \in Batch, status'[j] = "finished"
        PROVE  result'[j] \in EarnedBy(SentenceAt(j))'
    <3>1. CASE j = i
      BY <1>3, <3>1
    <3>2. CASE j # i
      <4>1. status[j] = "finished" /\ result'[j] = result[j]
        BY <1>3, <2>1, <3>2
      <4>2. result[j] \in EarnedBy(SentenceAt(j))
        BY <1>3, <4>1 DEF ResultsEarned
      <4>3. EarnedBy(SentenceAt(j)) \subseteq EarnedBy(SentenceAt(j))'
        BY <1>1, <1>2 DEF EarnedBy
      <4> QED BY <4>1, <4>2, <4>3
    <3> QED BY <3>1, <3>2
  <2> QED BY <1>3, <2>1 DEF ResultsEarned
<1>6. EveryItemEarned'
  BY <1>1, ItemsStayEarned
<1>7. AskingIsUndecided'
  BY <1>1, <1>2, <1>3 DEF AskingIsUndecided
<1> QED BY <1>4, <1>5, <1>6, <1>7

LEMMA HonestUnchanged ==
    ASSUME CacheHonest, UNCHANGED store, answers \subseteq answers'
    PROVE  CacheHonest'
BY DEF CacheHonest

LEMMA LegacyTask ==
    ASSUME IInv, NEW i \in Batch, ClassifyLegacy(i)
    PROVE  IInv'
<1>1. phase = "gather" /\ mode = "legacy"
  BY DEF ClassifyLegacy, Starting
<1>2. SentenceAt(i) \in Sentence /\ UNCHANGED <<mode, store, order, stats, asked, answers>>
  BY <1>1, BatchFacts DEF IInv, ClassifyLegacy, Returns, given, cacheVars, history
<1>3. UNCHANGED <<journal, current>>
  BY DEF ClassifyLegacy, Returns, given
<1>4. Legacy[SentenceAt(i)] \in EarnedBy(SentenceAt(i))'
  BY <1>1, <1>2, <1>3 DEF EarnedBy, SentenceAt, Entry
<1>5. Cache!CacheInv' /\ CacheHonest'
  BY <1>2, HonestUnchanged DEF IInv, Cache!CacheInv, Cache!TypeOK, Cache!WithinCapacity,
     Cache!OnePlacePerKey, Cache!Cached
<1> QED BY <1>1, <1>2, <1>4, <1>5, FinishTask, OtherVerdicts
        DEF ClassifyLegacy, IInv, TypeOK

\* What a cached verdict was earned by, for a sentence with that text.
LEMMA CachedIsEarned ==
    ASSUME IInv, mode # "legacy", NEW s \in Sentence, Cache!Lookup(s) # NoVerdict
    PROVE  Cache!Lookup(s) \in Verdict /\ Cache!Lookup(s) \in EarnedBy(s)
<1>1. s.text \in Text /\ Cache!Lookup(s) = store[s.text]
  BY DEF Sentence, Cache!Lookup, Cache!Key
<1>2. store[s.text] \in Verdict
  BY <1>1 DEF IInv, Cache!CacheInv, Cache!TypeOK
<1>3. store[s.text] \in EarnedBy(s)
  <2>1. CASE High[s.text] # <<>>
    BY <1>1, <2>1 DEF IInv, CacheHonest, EarnedBy
  <2>2. CASE High[s.text] = <<>>
    <3>1. PICK a \in answers : a.sentence.text = s.text /\ a.verdict = store[s.text]
      BY <1>1, <2>2 DEF IInv, CacheHonest
    <3> QED BY <2>2, <3>1 DEF EarnedBy
  <2> QED BY <2>1, <2>2
<1> QED BY <1>1, <1>2, <1>3

\* The task of i runs on its own sentence in an unchanged entry.
LEMMA TaskContext ==
    ASSUME IInv, phase = "gather", NEW i \in Batch, NEW v, Returns(i, v)
    PROVE  /\ SentenceAt(i) \in Sentence /\ SentenceAt(i).text \in Text
           /\ SentenceAt(i)' = SentenceAt(i)
           /\ UNCHANGED mode
BY BatchFacts DEF IInv, Returns, given, SentenceAt, Entry

LEMMA CountType ==
    ASSUME IInv, NEW c \in Counters, Count(c)
    PROVE  stats' \in [Counters -> Nat]
BY DEF IInv, TypeOK, Count

LEMMA CacheHitTask ==
    ASSUME IInv, NEW i \in Batch, CacheHit(i)
    PROVE  IInv'
<1> DEFINE s == SentenceAt(i)
           v == Cache!Lookup(s)
<1>1. /\ phase = "gather" /\ mode # "legacy" /\ v # NoVerdict
      /\ Returns(i, v) /\ Cache!Get(s) /\ Count("cache_hits")
      /\ UNCHANGED <<asked, answers>>
  BY DEF CacheHit, Starting, history
<1>2. s \in Sentence /\ s' = s /\ UNCHANGED mode
  BY <1>1, TaskContext
<1>3. v \in Verdict /\ v \in EarnedBy(s)
  BY <1>1, <1>2, CachedIsEarned
<1>4. v \in EarnedBy(s)'
  BY <1>1, <1>2, <1>3 DEF EarnedBy
<1>5. UNCHANGED store
  BY <1>1 DEF Cache!Get
<1>6. Cache!CacheInv' /\ CacheHonest'
  BY <1>1, <1>2, <1>5, CacheGetKeepsInv, HonestUnchanged DEF IInv
<1>7. stats' \in [Counters -> Nat]
  BY <1>1, CountType DEF Counters
<1>8. v' = v
  BY <1>2, <1>5 DEF Cache!Lookup, Cache!Key
<1> HIDE DEF v
<1> QED BY <1>1, <1>3, <1>4, <1>6, <1>7, FinishTask DEF IInv, TypeOK

LEMMA HighTask ==
    ASSUME IInv, NEW i \in Batch, AcceptHigh(i)
    PROVE  IInv'
<1> DEFINE s == SentenceAt(i)
           v == High[s.text]
<1>1. /\ phase = "gather" /\ mode # "legacy" /\ v # <<>>
      /\ Returns(i, v) /\ Cache!Set(s, v) /\ Count("keyword_hits")
      /\ UNCHANGED <<asked, answers>>
  BY DEF AcceptHigh, Starting, Missed, history
<1>2. s \in Sentence /\ s.text \in Text /\ s' = s /\ UNCHANGED mode
  BY <1>1, TaskContext
<1>3. v \in Verdict /\ v # Fallback
  BY <1>2, HighIsVerdict
<1>4. v \in EarnedBy(s)'
  BY <1>1, <1>2 DEF EarnedBy
<1>5. Cache!CacheInv'
  BY <1>1, <1>2, <1>3, CacheSetKeepsInv DEF IInv
<1>6. CacheHonest'
  <2>1. ASSUME NEW t \in Text, store'[t] # NoVerdict
        PROVE  store'[t] = store[t] \/ (t = s.text /\ store'[t] = v)
    BY <1>1, <1>2, <1>3, <2>1, SetEffect DEF IInv, Cache!CacheInv
  <2> QED BY <1>1, <1>3, <2>1 DEF IInv, CacheHonest
<1>7. stats' \in [Counters -> Nat]
  BY <1>1, CountType DEF Counters
<1> QED BY <1>1, <1>3, <1>4, <1>5, <1>6, <1>7, FinishTask DEF IInv, TypeOK

LEMMA KeywordsOnlyTask ==
    ASSUME IInv, NEW i \in Batch, KeywordsOnly(i)
    PROVE  IInv'
<1> DEFINE s == SentenceAt(i)
           v == Medium[s.text]
<1>1. /\ phase = "gather" /\ mode = "keywords_only" /\ High[s.text] = <<>>
      /\ Returns(i, v) /\ UNCHANGED <<store, order, stats, asked, answers>>
  BY DEF KeywordsOnly, Starting, cacheVars, history
<1>2. s \in Sentence /\ s.text \in Text /\ s' = s /\ UNCHANGED mode
  BY <1>1, TaskContext
<1>3. v \in EarnedBy(s)'
  <2>1. v \in (IF Medium[s.text] # <<>> THEN {Medium[s.text]}
               ELSE IF mode = "hybrid" THEN {Fallback} ELSE {<<>>})
    BY <1>1
  <2> QED BY <1>1, <1>2, <2>1 DEF EarnedBy
<1>4. Cache!CacheInv' /\ CacheHonest'
  BY <1>1, HonestUnchanged DEF IInv, Cache!CacheInv, Cache!TypeOK, Cache!WithinCapacity,
     Cache!OnePlacePerKey, Cache!Cached
<1> QED BY <1>1, <1>2, <1>3, <1>4, FinishTask, OtherVerdicts DEF IInv, TypeOK

LEMMA FailureIsEarned ==
    ASSUME mode = "hybrid", NEW s \in Sentence, High[s.text] = <<>>
    PROVE  AfterFailure(s) \in EarnedBy(s)
BY DEF AfterFailure, EarnedBy

LEMMA FailsAtOnceTask ==
    ASSUME IInv, NEW i \in Batch, LLMFailsAtOnce(i)
    PROVE  IInv'
<1> DEFINE s == SentenceAt(i)
           v == AfterFailure(s)
<1>1. /\ phase = "gather" /\ mode = "hybrid" /\ High[s.text] = <<>>
      /\ Returns(i, v) /\ Count("llm_calls") /\ UNCHANGED <<store, order, answers>>
      /\ asked' = asked \cup {[entry |-> current, sentence |-> s]}
  BY DEF LLMFailsAtOnce, NeedsLLM, Starting, cacheVars
<1>2. s \in Sentence /\ s' = s /\ UNCHANGED mode
  BY <1>1, TaskContext
<1>3. v \in Verdict /\ v \in EarnedBy(s)
  BY <1>1, <1>2, FailureIsEarned, OtherVerdicts
<1>4. v \in EarnedBy(s)'
  BY <1>1, <1>2, <1>3 DEF EarnedBy
<1>5. Cache!CacheInv' /\ CacheHonest'
  BY <1>1, HonestUnchanged DEF IInv, Cache!CacheInv, Cache!TypeOK, Cache!WithinCapacity,
     Cache!OnePlacePerKey, Cache!Cached
<1>6. stats' \in [Counters -> Nat]
  BY <1>1, CountType DEF Counters
<1>7. asked' \subseteq [entry : Nat, sentence : Sentence]
  BY <1>1, <1>2 DEF IInv, TypeOK
<1> HIDE DEF v
<1> QED BY <1>1, <1>3, <1>4, <1>5, <1>6, <1>7, FinishTask DEF IInv, TypeOK

LEMMA LLMFailsTask ==
    ASSUME IInv, NEW i \in Batch, NEW p \in Payload, LLMFails(i, p)
    PROVE  IInv'
<1> DEFINE s == SentenceAt(i)
           v == AfterFailure(s)
<1>1. /\ phase = "gather" /\ status[i] = "asking"
      /\ Returns(i, v) /\ UNCHANGED <<store, order, stats, asked, answers>>
  BY DEF LLMFails, Resuming, cacheVars, history
<1>2. s \in Sentence /\ s' = s /\ UNCHANGED mode
  BY <1>1, TaskContext
<1>3. mode = "hybrid" /\ High[s.text] = <<>>
  BY <1>1, BatchFacts DEF IInv, AskingIsUndecided
<1>4. v \in Verdict /\ v \in EarnedBy(s)
  BY <1>2, <1>3, FailureIsEarned, OtherVerdicts
<1>5. v \in EarnedBy(s)'
  BY <1>1, <1>2, <1>4 DEF EarnedBy
<1>6. Cache!CacheInv' /\ CacheHonest'
  BY <1>1, HonestUnchanged DEF IInv, Cache!CacheInv, Cache!TypeOK, Cache!WithinCapacity,
     Cache!OnePlacePerKey, Cache!Cached
<1> HIDE DEF v
<1> QED BY <1>1, <1>4, <1>5, <1>6, FinishTask DEF IInv, TypeOK

LEMMA LLMAnswersTask ==
    ASSUME IInv, NEW i \in Batch, NEW p \in Payload, LLMAnswers(i, p)
    PROVE  IInv'
<1> DEFINE s == SentenceAt(i)
           v == ParsePayload(p)
           a == [entry |-> current, sentence |-> s, verdict |-> v]
<1>1. /\ phase = "gather" /\ status[i] = "asking" /\ v # Fallback
      /\ Returns(i, v) /\ Cache!Set(s, v) /\ answers' = answers \cup {a}
      /\ UNCHANGED <<stats, asked>>
  BY DEF LLMAnswers, Resuming
<1>2. s \in Sentence /\ s.text \in Text /\ s' = s /\ UNCHANGED mode
  BY <1>1, TaskContext
<1>3. mode = "hybrid" /\ High[s.text] = <<>>
  BY <1>1, BatchFacts DEF IInv, AskingIsUndecided
<1>4. v \in Verdict
  BY OtherVerdicts
<1> HIDE DEF v
<1>5. v \in EarnedBy(s)'
  <2>1. a \in answers' /\ a.sentence.text = s.text /\ a.verdict = v
    BY <1>1
  <2>2. mode' # "legacy" /\ High[s.text] = <<>>
    BY <1>2, <1>3
  <2>3. v \in {b.verdict : b \in {c \in answers' : c.sentence.text = s.text}}
    BY <2>1
  <2> QED BY <1>2, <2>2, <2>3 DEF EarnedBy
<1>6. Cache!CacheInv'
  BY <1>1, <1>2, <1>4, CacheSetKeepsInv DEF IInv
<1>7. CacheHonest'
  <2>1. ASSUME NEW t \in Text, store'[t] # NoVerdict
        PROVE  /\ store'[t] # Fallback
               /\ IF High[t] # <<>> THEN store'[t] = High[t]
                  ELSE \E b \in answers' : b.sentence.text = t /\ b.verdict = store'[t]
    <3>1. CASE store'[t] = store[t]
      BY <1>1, <2>1, <3>1 DEF IInv, CacheHonest
    <3>2. CASE t = s.text /\ store'[t] = v
      <4>1. a \in answers' /\ a.sentence.text = t /\ a.verdict = store'[t]
        BY <1>1, <3>2
      <4>2. High[t] = <<>> /\ store'[t] # Fallback
        BY <1>1, <1>3, <3>2
      <4> HIDE DEF a
      <4> QED BY <4>1, <4>2
    <3> QED BY <1>1, <1>2, <1>4, <2>1, <3>1, <3>2, SetEffect DEF IInv, Cache!CacheInv
  <2> QED BY <2>1 DEF CacheHonest
<1>8. answers' \subseteq [entry : Nat, sentence : Sentence, verdict : Verdict \ {Fallback}]
  BY <1>1, <1>2, <1>4 DEF IInv, TypeOK
<1> QED BY <1>1, <1>4, <1>5, <1>6, <1>7, <1>8, FinishTask DEF IInv, TypeOK

------------------------------------------------------------------------------
(* The steps in which no task returns.                                       *)

LEMMA AskTask ==
    ASSUME IInv, NEW i \in Batch, AskLLM(i)
    PROVE  IInv'
<1> USE DEF IInv
<1>1. /\ phase = "gather" /\ mode = "hybrid" /\ High[SentenceAt(i).text] = <<>>
      /\ status[i] = "waiting" /\ Count("llm_calls")
      /\ status' = [status EXCEPT ![i] = "asking"]
      /\ asked' = asked \cup {[entry |-> current, sentence |-> SentenceAt(i)]}
      /\ UNCHANGED <<journal, mode, phase, current, result, store, order, fields, byDate,
                     metadata, answers>>
  BY DEF AskLLM, NeedsLLM, Starting, given, cacheVars, treeVars
<1>2. /\ Batch' = Batch /\ (\A j : SentenceAt(j)' = SentenceAt(j))
      /\ SentenceAt(i) \in Sentence /\ EntryDates' = EntryDates /\ Item' = Item
  BY <1>1, BatchFacts DEF Batch, SentenceAt, Entry, EntryDates, Item
<1>3. stats' \in [Counters -> Nat]
  BY <1>1, CountType DEF Counters
<1>4. Cache!CacheInv' /\ CacheHonest' /\ EveryItemEarned'
  BY <1>1, HonestUnchanged, ItemsStayEarned DEF Cache!CacheInv, Cache!TypeOK,
     Cache!WithinCapacity, Cache!OnePlacePerKey, Cache!Cached
<1>5. TypeOK'
  <2>1. /\ status' \in [Batch -> {"waiting", "asking", "finished"}]
        /\ \A j \in Batch : status'[j] = "finished" <=> result'[j] # NoVerdict
    BY <1>1 DEF TypeOK
  <2>2. /\ asked' \subseteq [entry : Nat, sentence : Sentence]
        /\ current' \in 1..(Len(journal'.entries) + 1)
    BY <1>1, <1>2 DEF TypeOK
  <2> QED BY <1>1, <1>2, <1>3, <1>4, <2>1, <2>2 DEF TypeOK, Cache!CacheInv
<1>6. ResultsEarned' /\ AskingIsUndecided'
  BY <1>1, <1>2 DEF ResultsEarned, AskingIsUndecided, EarnedBy, TypeOK
<1> QED BY <1>4, <1>5, <1>6

\* With no task in the air the parts of the invariant that speak of tasks hold.
LEMMA BetweenEntries ==
    ASSUME status = <<>>
    PROVE  ResultsEarned /\ AskingIsUndecided
BY DEF ResultsEarned, AskingIsUndecided

LEMMA CacheUntouched ==
    ASSUME IInv, UNCHANGED <<store, order, asked, answers>>
    PROVE  Cache!CacheInv' /\ CacheHonest'
BY HonestUnchanged DEF IInv, Cache!CacheInv, Cache!TypeOK, Cache!WithinCapacity,
   Cache!OnePlacePerKey, Cache!Cached

LEMMA PlacedIsItem ==
    ASSUME journal \in Journal, NEW n \in DOMAIN journal.entries, NEW i \in Nat,
           NEW h \in {1} \cup UNION {DOMAIN v : v \in Verdict}, NEW pair,
           NEW s \in Sentence \cup {EmptyEntry}
    PROVE  Placed(n, i, h, pair, s) \in Item
<1>1. n \in Nat /\ Entry(n).date \in EntryDates
  BY JournalAssumption DEF EntryDates
<1>2. (IF pair \in Subcategory THEN pair ELSE Uncategorized) \in Subcategory
  BY PairAssumption
<1> QED BY <1>1, <1>2 DEF Placed, Item

\* Filing items keeps the trees typed and changes nothing else.
LEMMA AppendTypes ==
    ASSUME TypeOK, current \in DOMAIN journal.entries, UNCHANGED journal,
           NEW items \in SUBSET Item, AppendItems(items)
    PROVE  /\ fields' \subseteq Item
           /\ DOMAIN byDate' \subseteq EntryDates
           /\ \A d \in DOMAIN byDate' : byDate'[d] \subseteq Item
<1>1. Entry(current).date \in EntryDates
  BY DEF EntryDates
<1> QED BY <1>1 DEF AppendItems, DayTree, TypeOK

LEMMA SameItems ==
    ASSUME UNCHANGED journal
    PROVE  EntryDates' = EntryDates /\ Item' = Item
BY DEF EntryDates, Item, Entry

LEMMA OpenEntryStep ==
    ASSUME IInv, OpenEntry
    PROVE  IInv'
<1> USE DEF IInv
<1>1. /\ phase' = "gather" /\ current <= Len(journal.entries)
      /\ status' = [i \in Batch |-> "waiting"] /\ result' = [i \in Batch |-> NoVerdict]
      /\ AppendItems({})
      /\ UNCHANGED <<journal, mode, current, store, order, stats, asked, answers>>
  BY DEF OpenEntry, given, cacheVars, history
<1>2. current \in DOMAIN journal.entries /\ Batch' = Batch
  BY <1>1, JournalAssumption DEF TypeOK, Batch, Entry
<1>3. /\ fields' \subseteq Item /\ fields' = fields
      /\ DOMAIN byDate' \subseteq EntryDates
      /\ \A d \in DOMAIN byDate' : byDate'[d] \subseteq Item
  <2>1. {} \in SUBSET Item /\ fields' = fields
    BY <1>1 DEF AppendItems
  <2> QED BY <1>1, <1>2, <2>1, AppendTypes
<1>4. EntryDates' = EntryDates /\ Item' = Item
  BY <1>1, SameItems
<1>5. Cache!CacheInv' /\ CacheHonest' /\ EveryItemEarned'
  BY <1>1, <1>3, CacheUntouched, ItemsStayEarned
<1>6. TypeOK'
  BY <1>1, <1>2, <1>3, <1>4, <1>5 DEF TypeOK, Cache!CacheInv
<1>7. ResultsEarned' /\ AskingIsUndecided'
  BY <1>1 DEF ResultsEarned, AskingIsUndecided
<1> QED BY <1>5, <1>6, <1>7

LEMMA OpenEmptyEntryStep ==
    ASSUME IInv, OpenEmptyEntry
    PROVE  IInv'
<1> USE DEF IInv
<1> DEFINE item == Placed(current, 0, 1, Uncategorized, EmptyEntry)
<1>1. /\ phase = "between" /\ current <= Len(journal.entries)
      /\ AppendItems({item}) /\ current' = current + 1
      /\ UNCHANGED <<journal, mode, phase, status, result, store, order, stats, asked,
                     answers>>
  BY DEF OpenEmptyEntry, given, cacheVars, history
<1>2. current \in DOMAIN journal.entries /\ current' \in 1..(Len(journal.entries) + 1)
  BY <1>1, JournalAssumption DEF TypeOK
<1>3. item \in Item /\ item.text = EmptyEntry
  <2>1. journal \in Journal
    BY DEF TypeOK
  <2>2. item \in Item
    BY <1>2, <2>1, PlacedIsItem
  <2>3. item.text = EmptyEntry
    BY DEF Placed
  <2> QED BY <2>2, <2>3
<1> HIDE DEF item
<1>4. /\ fields' \subseteq Item /\ fields' = fields \cup {item}
      /\ DOMAIN byDate' \subseteq EntryDates
      /\ \A d \in DOMAIN byDate' : byDate'[d] \subseteq Item
  BY <1>1, <1>2, <1>3, AppendTypes DEF AppendItems
<1>5. EntryDates' = EntryDates /\ Item' = Item
  BY <1>1, SameItems
<1>6. Cache!CacheInv' /\ CacheHonest'
  BY <1>1, CacheUntouched
<1>7. EveryItemEarned'
  BY <1>1, <1>3, <1>4 DEF EveryItemEarned, EarnedBy
<1>8. TypeOK'
  BY <1>1, <1>2, <1>4, <1>5, <1>6 DEF TypeOK, Cache!CacheInv
<1>9. ResultsEarned' /\ AskingIsUndecided'
  BY <1>1 DEF TypeOK, ResultsEarned, AskingIsUndecided
<1> QED BY <1>6, <1>7, <1>8, <1>9

\* The items of a finished batch, each with the hit it was filed for.
LEMMA BatchItems ==
    ASSUME IInv, phase = "gather", \A i \in Batch : status[i] = "finished",
           NEW i \in Batch, NEW h \in DOMAIN Hits(i)
    PROVE  LET p == Placed(current, i, h, Hits(i)[h], SentenceAt(i))
           IN  /\ p \in Item /\ p.text = SentenceAt(i)
               /\ \E hits \in EarnedBy(p.text) :
                    IF hits = <<>> THEN p.bucket = BySize[p.text]
                    ELSE /\ p.hit \in DOMAIN hits
                         /\ \/ p.bucket = hits[p.hit]
                            \/ hits[p.hit] \notin Subcategory /\ p.bucket = Uncategorized
<1> DEFINE s == SentenceAt(i)
           p == Placed(current, i, h, Hits(i)[h], s)
<1>1. /\ current \in DOMAIN journal.entries /\ i \in Nat /\ s \in Sentence
      /\ journal \in Journal
  BY BatchFacts DEF IInv, TypeOK
<1>2. result[i] \in Verdict /\ result[i] \in EarnedBy(s)
  BY BatchFacts DEF IInv, TypeOK, ResultsEarned
<1>3. h \in {1} \cup UNION {DOMAIN v : v \in Verdict}
  BY <1>2 DEF Hits
<1>4. p \in Item
  BY <1>1, <1>3, PlacedIsItem
<1>5. /\ p.text = s /\ p.hit = h
      /\ p.bucket = IF Hits(i)[h] \in Subcategory THEN Hits(i)[h] ELSE Uncategorized
  BY DEF Placed
<1>6. BySize[s] \in Subcategory
  BY <1>1, KeywordAssumption
<1> HIDE DEF s, p
<1>7. CASE result[i] = <<>>
  <2>1. Hits(i) = <<BySize[s]>>
    BY <1>7 DEF Hits, s
  <2>2. h = 1 /\ Hits(i)[h] = BySize[s]
    BY <2>1
  <2> QED BY <1>2, <1>4, <1>5, <1>6, <1>7, <2>2 DEF p, s
<1>8. CASE result[i] # <<>>
  <2>1. Hits(i) = result[i]
    BY <1>8 DEF Hits
  <2> QED BY <1>2, <1>4, <1>5, <1>8, <2>1 DEF p, s
<1> QED BY <1>7, <1>8

LEMMA CloseEntryStep ==
    ASSUME IInv, CloseEntry
    PROVE  IInv'
<1> USE DEF IInv
<1> DEFINE items == UNION {{Placed(current, i, h, Hits(i)[h], SentenceAt(i)) :
                               h \in DOMAIN Hits(i)} : i \in Batch}
<1>1. /\ phase = "gather" /\ \A i \in Batch : status[i] = "finished"
      /\ AppendItems(items) /\ phase' = "between" /\ current' = current + 1
      /\ status' = <<>> /\ result' = <<>>
      /\ UNCHANGED <<journal, mode, store, order, stats, asked, answers>>
  BY DEF CloseEntry, given, cacheVars, history
<1>2. current \in DOMAIN journal.entries /\ current' \in 1..(Len(journal.entries) + 1)
  BY <1>1, JournalAssumption DEF TypeOK
<1>3. ASSUME NEW p \in items
      PROVE  /\ p \in Item
             /\ \E hits \in EarnedBy(p.text) :
                    IF hits = <<>> THEN p.bucket = BySize[p.text]
                    ELSE /\ p.hit \in DOMAIN hits
                         /\ \/ p.bucket = hits[p.hit]
                            \/ hits[p.hit] \notin Subcategory /\ p.bucket = Uncategorized
  <2>1. PICK i \in Batch : \E h \in DOMAIN Hits(i) :
            p = Placed(current, i, h, Hits(i)[h], SentenceAt(i))
    OBVIOUS
  <2>2. PICK h \in DOMAIN Hits(i) : p = Placed(current, i, h, Hits(i)[h], SentenceAt(i))
    BY <2>1
  <2> QED BY <1>1, <2>2, BatchItems
<1> HIDE DEF items
<1>4. /\ fields' \subseteq Item /\ fields' = fields \cup items
      /\ DOMAIN byDate' \subseteq EntryDates
      /\ \A d \in DOMAIN byDate' : byDate'[d] \subseteq Item
  <2>1. items \in SUBSET Item /\ fields' = fields \cup items
    BY <1>1, <1>3 DEF AppendItems
  <2> QED BY <1>1, <1>2, <2>1, AppendTypes
<1>5. EntryDates' = EntryDates /\ Item' = Item
  BY <1>1, SameItems
<1>6. Cache!CacheInv' /\ CacheHonest'
  BY <1>1, CacheUntouched
<1>7. EveryItemEarned'
  <2>1. \A s : EarnedBy(s)' = EarnedBy(s)
    BY <1>1 DEF EarnedBy
  <2> QED BY <1>3, <1>4, <2>1 DEF EveryItemEarned
<1>8. TypeOK'
  BY <1>1, <1>2, <1>4, <1>5, <1>6 DEF TypeOK, Cache!CacheInv
<1> QED BY <1>1, <1>6, <1>7, <1>8, BetweenEntries DEF ResultsEarned, AskingIsUndecided

LEMMA FinishStep ==
    ASSUME IInv, Finish
    PROVE  IInv'
<1> USE DEF IInv
<1>1. /\ phase = "between" /\ phase' = "done"
      /\ UNCHANGED <<journal, mode, current, status, result, store, order, stats, fields,
                     byDate, asked, answers>>
  BY DEF Finish, given, cacheVars, treeVars, history
<1>2. Cache!CacheInv' /\ CacheHonest' /\ EveryItemEarned'
  BY <1>1, CacheUntouched, ItemsStayEarned
<1>3. EntryDates' = EntryDates /\ Item' = Item
  BY <1>1, SameItems
<1>4. TypeOK'
  BY <1>1, <1>2, <1>3 DEF TypeOK, Cache!CacheInv
<1> QED BY <1>1, <1>2, <1>4 DEF TypeOK, ResultsEarned, AskingIsUndecided

LEMMA UnchangedStep ==
    ASSUME IInv, UNCHANGED vars
    PROVE  IInv'
<1> USE DEF IInv
<1>1. UNCHANGED <<journal, mode, phase, current, status, result, store, order, stats, fields,
                  byDate, asked, answers>>
  BY DEF vars, given, cacheVars, treeVars, history
<1>2. Cache!CacheInv' /\ CacheHonest' /\ EveryItemEarned'
  BY <1>1, CacheUntouched, ItemsStayEarned
<1>3. EntryDates' = EntryDates /\ Item' = Item /\ Batch' = Batch
      /\ \A i : SentenceAt(i)' = SentenceAt(i)
  BY <1>1, SameItems DEF Batch, SentenceAt, Entry
<1>4. TypeOK'
  BY <1>1, <1>2, <1>3 DEF TypeOK, Cache!CacheInv
<1> QED BY <1>1, <1>2, <1>3, <1>4 DEF ResultsEarned, AskingIsUndecided, EarnedBy

------------------------------------------------------------------------------

LEMMA InitInv == ASSUME Init PROVE IInv
<1> USE DEF IInv
<1>1. Cache!CacheInv
  BY SameCache, CacheSizeType, NoVerdictAssumption, CacheProofs!CacheInitInv DEF Init
<1>2. stats \in [Counters -> Nat]
  BY DEF Init, Counters
<1>3. journal \in Journal /\ current \in 1..(Len(journal.entries) + 1)
  BY JournalAssumption DEF Init
<1>4. TypeOK
  BY <1>1, <1>2, <1>3 DEF Init, TypeOK, Cache!CacheInv
<1>5. CacheHonest
  BY DEF Init, Cache!CacheInit, CacheHonest
<1> QED BY <1>1, <1>4, <1>5, BetweenEntries DEF Init, EveryItemEarned

LEMMA NextInv == ASSUME IInv, [Next]_vars PROVE IInv'
<1>1. ASSUME NEW i \in DOMAIN status, StartTask(i) PROVE IInv'
  <2>1. phase = "gather"
    BY <1>1 DEF StartTask, ClassifyLegacy, CacheHit, AcceptHigh, KeywordsOnly, AskLLM,
       LLMFailsAtOnce, NeedsLLM, Starting
  <2>2. i \in Batch
    BY <2>1, BatchFacts DEF IInv
  <2> QED BY <1>1, <2>2, LegacyTask, CacheHitTask, HighTask, KeywordsOnlyTask, AskTask,
             FailsAtOnceTask DEF StartTask
<1>2. ASSUME NEW i \in DOMAIN status, ResumeTask(i) PROVE IInv'
  <2>1. phase = "gather"
    BY <1>2 DEF ResumeTask, LLMFails, LLMAnswers, Resuming
  <2>2. i \in Batch
    BY <2>1, BatchFacts DEF IInv
  <2> QED BY <1>2, <2>2, LLMFailsTask, LLMAnswersTask DEF ResumeTask
<1> QED BY <1>1, <1>2, OpenEntryStep, OpenEmptyEntryStep, CloseEntryStep, FinishStep,
           UnchangedStep DEF Next, Returned

THEOREM ParserInvariant == Spec => []IInv
<1>1. Init => IInv
  BY InitInv
<1>2. IInv /\ [Next]_vars => IInv'
  BY NextInv
<1> QED BY <1>1, <1>2, PTL DEF Spec

(***************************************************************************)
(* Type correctness of parse, for any constants.                           *)
(***************************************************************************)
THEOREM ParserTypes == Spec => []TypeOK
<1>1. IInv => TypeOK
  BY DEF IInv
<1> QED BY <1>1, ParserInvariant, PTL

(***************************************************************************)
(* The cache of the hybrid classifier never holds the safe fallback: what  *)
(* it returns for a text are the HIGH keywords of that text or a verdict   *)
(* the LLM gave for it, in whatever order the concurrent tasks resumed.    *)
(***************************************************************************)
THEOREM CacheStaysHonest == Spec => []CacheHonest
<1>1. IInv => CacheHonest
  BY DEF IInv
<1> QED BY <1>1, ParserInvariant, PTL

(***************************************************************************)
(* No item is ever filed in a bucket its own sentence did not earn: HIGH   *)
(* keywords are not overruled, MEDIUM keywords survive an outage, results  *)
(* are not mixed up between the sentences of a batch.                      *)
(***************************************************************************)
THEOREM ItemsAreEarned == Spec => []EveryItemEarned
<1>1. IInv => EveryItemEarned
  BY DEF IInv
<1> QED BY <1>1, ParserInvariant, PTL

------------------------------------------------------------------------------
(* The whole tree and the trees of the days.                                 *)

LEMMA AppendAgrees ==
    ASSUME TypeOK, TreesAgree, current \in DOMAIN journal.entries, UNCHANGED journal,
           NEW items, AppendItems(items),
           \A p \in items : p.date = Entry(current).date,
           Opened' = Opened \cup {current}
    PROVE  TreesAgree'
<1> DEFINE date == Entry(current).date
<1>1. /\ fields' = fields \cup items
      /\ byDate' = [d \in DOMAIN byDate \cup {date} |->
                      IF d = date THEN DayTree(d) \cup items ELSE byDate[d]]
  BY DEF AppendItems
<1>2. \A n : Entry(n)' = Entry(n)
  BY DEF Entry
<1>3. DOMAIN byDate' = {Entry(n)'.date : n \in Opened'}
  BY <1>1, <1>2 DEF TreesAgree
<1>4. ASSUME NEW d \in DOMAIN byDate' PROVE byDate'[d] = {p \in fields' : p.date = d}
  <2>1. CASE d # date
    BY <1>1, <2>1 DEF TreesAgree
  <2>2. CASE d = date /\ d \in DOMAIN byDate
    BY <1>1, <2>2 DEF TreesAgree, DayTree
  <2>3. CASE d = date /\ d \notin DOMAIN byDate
    <3>1. \A p \in fields : p.date # d
      BY <2>3 DEF TreesAgree
    <3> QED BY <1>1, <2>3, <3>1 DEF DayTree
  <2> QED BY <1>1, <2>1, <2>2, <2>3
<1>5. \A p \in fields' : p.date \in DOMAIN byDate'
  BY <1>1 DEF TreesAgree
<1> QED BY <1>3, <1>4, <1>5 DEF TreesAgree

LEMMA TreesUntouched ==
    ASSUME TreesAgree, UNCHANGED <<journal, fields, byDate>>, Opened' = Opened
    PROVE  TreesAgree'
BY DEF TreesAgree, Entry

LEMMA TreesInit == ASSUME Init PROVE TreesAgree
<1>1. Opened = {}
  BY JournalAssumption DEF Init, Opened
<1> QED BY <1>1 DEF Init, TreesAgree

LEMMA TreesNext == ASSUME TypeOK, TreesAgree, [Next]_vars PROVE TreesAgree'
<1>1. current \in Nat /\ Len(journal.entries) \in Nat
      /\ DOMAIN journal.entries = 1..Len(journal.entries)
  BY JournalAssumption DEF TypeOK
<1>2. CASE OpenEntry
  <2>1. /\ current \in DOMAIN journal.entries /\ AppendItems({})
        /\ UNCHANGED <<journal, current>> /\ phase = "between" /\ phase' = "gather"
    BY <1>1, <1>2 DEF OpenEntry, given, TypeOK
  <2>2. Opened' = Opened \cup {current}
    BY <1>1, <2>1 DEF Opened
  <2> QED BY <2>1, <2>2, AppendAgrees
<1>3. CASE OpenEmptyEntry
  <2> DEFINE item == Placed(current, 0, 1, Uncategorized, EmptyEntry)
  <2>1. /\ current \in DOMAIN journal.entries /\ AppendItems({item})
        /\ UNCHANGED <<journal, phase>> /\ phase = "between" /\ current' = current + 1
    BY <1>1, <1>3 DEF OpenEmptyEntry, given, TypeOK
  <2>2. Opened' = Opened \cup {current}
    BY <1>1, <2>1 DEF Opened
  <2>3. item.date = Entry(current).date
    BY DEF Placed
  <2> HIDE DEF item
  <2> QED BY <2>1, <2>2, <2>3, AppendAgrees
<1>4. CASE CloseEntry
  <2> DEFINE items == UNION {{Placed(current, i, h, Hits(i)[h], SentenceAt(i)) :
                                 h \in DOMAIN Hits(i)} : i \in Batch}
  <2>1. /\ current \in DOMAIN journal.entries /\ AppendItems(items) /\ UNCHANGED journal
        /\ phase = "gather" /\ phase' = "between" /\ current' = current + 1
    BY <1>4 DEF CloseEntry, given, TypeOK
  <2>2. Opened' = Opened \cup {current}
    BY <1>1, <2>1 DEF Opened
  <2>3. \A p \in items : p.date = Entry(current).date
    BY DEF Placed
  <2> HIDE DEF items
  <2> QED BY <2>1, <2>2, <2>3, AppendAgrees
<1>5. ASSUME UNCHANGED <<journal, current, phase, fields, byDate>> PROVE TreesAgree'
  BY <1>5, TreesUntouched DEF Opened
<1>6. CASE Finish
  <2>1. UNCHANGED <<journal, current, fields, byDate>> /\ phase = "between" /\ phase' = "done"
    BY <1>6 DEF Finish, given, treeVars
  <2>2. Opened' = Opened
    BY <2>1 DEF Opened
  <2> QED BY <2>1, <2>2, TreesUntouched
<1>7. ASSUME NEW i \in DOMAIN status, StartTask(i) PROVE TreesAgree'
  BY <1>5, <1>7 DEF StartTask, ClassifyLegacy, CacheHit, AcceptHigh, KeywordsOnly, AskLLM,
     LLMFailsAtOnce, Returns, given, treeVars
<1>8. ASSUME NEW i \in DOMAIN status, ResumeTask(i) PROVE TreesAgree'
  BY <1>5, <1>8 DEF ResumeTask, LLMFails, LLMAnswers, Returns, given, treeVars
<1>9. CASE UNCHANGED vars
  BY <1>5, <1>9 DEF vars, given, treeVars
<1> QED BY <1>2, <1>3, <1>4, <1>6, <1>7, <1>8, <1>9 DEF Next, Returned

(***************************************************************************)
(* fields and by_date never disagree: the tree of each day is the part of  *)
(* the whole tree with that date, and a day has a tree as soon as, and     *)
(* only if, one of its entries was reached.                                *)
(***************************************************************************)
THEOREM DayTreesAgree == Spec => []TreesAgree
<1>1. Init => TreesAgree
  BY TreesInit
<1>2. TypeOK /\ TreesAgree /\ [Next]_vars => TreesAgree'
  BY TreesNext
<1> QED BY <1>1, <1>2, ParserTypes, PTL DEF Spec

------------------------------------------------------------------------------
(* Every sentence of an entry is filed.                                      *)

\* Items belong to the entries that were closed; a batch in the air has a task.
ItemsOfClosed ==
    /\ \A p \in fields : p.entry \in 1..(current - 1)
    /\ phase = "gather" => Batch # {}

Filed == ItemsOfClosed /\ NothingLost

LEMMA FirstOccurrence ==
    ASSUME NEW e, AllSentences(e) \in Seq(Sentence), NEW k \in DOMAIN AllSentences(e)
    PROVE  \E i \in Places(e) : AllSentences(e)[i] = AllSentences(e)[k]
<1> DEFINE s == AllSentences(e)
           same == {j \in 1..k : s[j] = s[k]}
<1>1. k \in 1..Len(s) /\ DOMAIN s = 1..Len(s) /\ Len(s) \in Nat
  OBVIOUS
<1> HIDE DEF s
<1>2. same \in SUBSET Int /\ k \in same
  BY <1>1
<1>3. IsFiniteSet(same)
  <2>1. IsFiniteSet(1..k)
    BY <1>1, FS_Interval
  <2> QED BY <2>1, FS_Subset
<1>4. PICK i \in same : \A j \in same : i <= j
  <2> HIDE DEF same
  <2> QED BY <1>2, <1>3, HasLeast
<1>5. i \in 1..k /\ s[i] = s[k]
  OBVIOUS
<1>6. \A j \in 1..(i - 1) : s[j] # s[i]
  BY <1>1, <1>4, <1>5
<1> QED BY <1>1, <1>5, <1>6 DEF Places, s

\* The places of an entry stand for its sentences, each for one.
LEMMA PlacesStand ==
    ASSUME NEW e, AllSentences(e) \in Seq(Sentence)
    PROVE  /\ {AllSentences(e)[i] : i \in Places(e)} = Range(AllSentences(e))
           /\ \A i, j \in Places(e) : AllSentences(e)[i] = AllSentences(e)[j] => i = j
           /\ Places(e) = {} <=> AllSentences(e) = <<>>
<1>1. Places(e) \subseteq DOMAIN AllSentences(e)
  BY DEF Places
<1>2. {AllSentences(e)[i] : i \in Places(e)} = Range(AllSentences(e))
  BY <1>1, FirstOccurrence DEF Range
<1>3. ASSUME NEW i \in Places(e), NEW j \in Places(e), i < j
      PROVE  AllSentences(e)[i] # AllSentences(e)[j]
  BY <1>1, <1>3 DEF Places
<1>4. \A i, j \in Places(e) : AllSentences(e)[i] = AllSentences(e)[j] => i = j
  <2>1. \A i \in Places(e) : i \in Int
    BY <1>1
  <2> QED BY <1>3, <2>1
<1>5. Places(e) = {} <=> AllSentences(e) = <<>>
  <2>1. AllSentences(e) # <<>> => 1 \in DOMAIN AllSentences(e)
    OBVIOUS
  <2>2. AllSentences(e) = <<>> => DOMAIN AllSentences(e) = {}
    OBVIOUS
  <2> QED BY <1>1, <2>1, <2>2, FirstOccurrence
<1> QED BY <1>2, <1>4, <1>5

\* What is kept of a payload are pairs.
LEMMA WellFormedArePairs ==
    ASSUME NEW p \in Payload
    PROVE  WellFormed(p) \in Seq(Pair)
<1> DEFINE kept == [n \in DOMAIN p.entries |->
                      IF p.entries[n] = Malformed THEN <<>> ELSE <<p.entries[n]>>]
<1>1. p.entries \in Seq(Pair \cup {Malformed})
  BY PayloadAssumption
<1>2. /\ DOMAIN p.entries = 1..Len(p.entries) /\ Len(p.entries) \in Nat
      /\ \A n \in DOMAIN p.entries : p.entries[n] # Malformed => p.entries[n] \in Pair
  BY <1>1
<1>3. kept \in Seq(Seq(Pair))
  <2> HIDE DEF Pair
  <2> QED BY <1>2
<1>4. FlattenSeq(kept) \in Seq(Pair)
  <2> HIDE DEF kept
  <2> QED BY <1>3, FlattenType
<1> QED BY <1>4 DEF WellFormed

\* A finished task has at least one hit.
LEMMA SomeHit ==
    ASSUME NEW i, result[i] \in Verdict
    PROVE  1 \in DOMAIN Hits(i)
<1>1. result[i] \in Seq(Pair)
  <2>1. Fallback \in Seq(Pair)
    BY PairAssumption DEF Fallback, Pair
  <2>2. \A p \in Payload : ParsePayload(p) \in Seq(Pair)
    BY <2>1, WellFormedArePairs DEF ParsePayload
  <2>3. \A s \in Seq(Subcategory) : s \in Seq(Pair)
    BY DEF Pair
  <2>4. /\ \A t \in Text : High[t] \in Seq(Subcategory) /\ Medium[t] \in Seq(Subcategory)
        /\ \A s \in Sentence : Legacy[s] \in Seq(Subcategory)
    BY KeywordAssumption
  <2> HIDE DEF Sentence, Pair
  <2> QED BY <2>1, <2>2, <2>3, <2>4 DEF Verdict
<1>2. CASE result[i] = <<>>
  BY <1>2 DEF Hits
<1>3. CASE result[i] # <<>>
  BY <1>1, <1>3 DEF Hits
<1> QED BY <1>2, <1>3

BatchOfItems ==
    UNION {{Placed(current, i, h, Hits(i)[h], SentenceAt(i)) : h \in DOMAIN Hits(i)} : i \in Batch}

LEMMA BatchIsFiled ==
    ASSUME IInv, phase = "gather", \A i \in Batch : status[i] = "finished"
    PROVE  /\ \A p \in BatchOfItems : p.entry = current
           /\ {p.text : p \in BatchOfItems} = Range(AllSentences(Entry(current)))
           /\ \A p, q \in BatchOfItems : p.text = q.text /\ p.hit = q.hit => p = q
<1>1. /\ current \in DOMAIN journal.entries /\ journal \in Journal
      /\ \A i \in Batch : result[i] \in Verdict
  BY BatchFacts DEF IInv, TypeOK
<1>2. AllSentences(Entry(current)) \in Seq(Sentence)
  BY <1>1, SentencesOfEntry
<1>3. /\ {SentenceAt(i) : i \in Batch} = Range(AllSentences(Entry(current)))
      /\ \A i, j \in Batch : SentenceAt(i) = SentenceAt(j) => i = j
  BY <1>2, PlacesStand DEF Batch, SentenceAt
<1>4. \A i \in Batch : 1 \in DOMAIN Hits(i)
  BY <1>1, SomeHit
<1>5. ASSUME NEW i, NEW h
      PROVE  LET p == Placed(current, i, h, Hits(i)[h], SentenceAt(i))
             IN  p.entry = current /\ p.text = SentenceAt(i) /\ p.hit = h
  BY DEF Placed
<1>6. \A p \in BatchOfItems : \E i \in Batch : \E h \in DOMAIN Hits(i) :
        p = Placed(current, i, h, Hits(i)[h], SentenceAt(i))
  BY DEF BatchOfItems
<1>7. ASSUME NEW i \in Batch PROVE \E p \in BatchOfItems : p.text = SentenceAt(i)
  <2> DEFINE p == Placed(current, i, 1, Hits(i)[1], SentenceAt(i))
  <2>1. p \in BatchOfItems
    BY <1>4 DEF BatchOfItems
  <2>2. p.text = SentenceAt(i)
    BY <1>5
  <2> HIDE DEF p
  <2> QED BY <2>1, <2>2
<1>8. \A p \in BatchOfItems : p.entry = current /\ p.text \in {SentenceAt(i) : i \in Batch}
  BY <1>5, <1>6
<1>9. {p.text : p \in BatchOfItems} = {SentenceAt(i) : i \in Batch}
  BY <1>7, <1>8
<1>10. ASSUME NEW p \in BatchOfItems, NEW q \in BatchOfItems, p.text = q.text, p.hit = q.hit
       PROVE  p = q
  <2>1. PICK i \in Batch : \E h \in DOMAIN Hits(i) :
          p = Placed(current, i, h, Hits(i)[h], SentenceAt(i))
    BY <1>6
  <2>2. PICK h \in DOMAIN Hits(i) : p = Placed(current, i, h, Hits(i)[h], SentenceAt(i))
    BY <2>1
  <2>3. PICK j \in Batch : \E k \in DOMAIN Hits(j) :
          q = Placed(current, j, k, Hits(j)[k], SentenceAt(j))
    BY <1>6
  <2>4. PICK k \in DOMAIN Hits(j) : q = Placed(current, j, k, Hits(j)[k], SentenceAt(j))
    BY <2>3
  <2>5. h = k /\ SentenceAt(i) = SentenceAt(j)
    BY <1>5, <1>10, <2>2, <2>4
  <2>6. i = j
    BY <1>3, <2>5
  <2> QED BY <2>2, <2>4, <2>5, <2>6
<1> QED BY <1>3, <1>8, <1>9, <1>10

\* The items of one more entry.
LEMMA FileItems ==
    ASSUME Filed, current \in Nat \ {0}, journal' = journal, current' = current + 1,
           phase' = "between",
           NEW items, fields' = fields \cup items,
           \A p \in items : p.entry = current,
           {p.text : p \in items} = (IF AllSentences(Entry(current)) = <<>> THEN {EmptyEntry}
                                     ELSE Range(AllSentences(Entry(current)))),
           \A p, q \in items : p.text = q.text /\ p.hit = q.hit => p = q
    PROVE  Filed'
<1>1. \A n : Entry(n)' = Entry(n)
  BY DEF Entry
<1>2. \A p \in fields : p.entry \in Int /\ 1 <= p.entry /\ p.entry < current
  BY DEF Filed, ItemsOfClosed
<1>3. ItemsOfClosed'
  BY <1>2 DEF ItemsOfClosed
<1>4. ASSUME NEW n \in 1..(current' - 1)
      PROVE  {p.text : p \in {q \in fields' : q.entry = n}} =
               IF AllSentences(Entry(n)') = <<>> THEN {EmptyEntry}
               ELSE Range(AllSentences(Entry(n)'))
  <2>1. CASE n = current
    <3>1. {q \in fields' : q.entry = n} = items
      BY <1>2, <2>1
    <3> QED BY <1>1, <2>1, <3>1
  <2>2. CASE n # current
    <3>1. n \in 1..(current - 1)
      BY <2>2
    <3>2. {q \in fields' : q.entry = n} = {q \in fields : q.entry = n}
      BY <2>2
    <3> QED BY <1>1, <3>1, <3>2 DEF Filed, NothingLost
  <2> QED BY <2>1, <2>2
<1>5. ASSUME NEW p \in fields', NEW q \in fields',
             p.entry = q.entry, p.text = q.text, p.hit = q.hit
      PROVE  p = q
  <2>1. CASE p \in fields /\ q \in fields
    BY <1>5, <2>1 DEF Filed, NothingLost
  <2>2. CASE p \in items /\ q \in items
    BY <1>5, <2>2
  <2> QED BY <1>2, <1>5, <2>1, <2>2
<1>6. NothingLost'
  BY <1>4, <1>5 DEF NothingLost
<1> QED BY <1>3, <1>6 DEF Filed

LEMMA FiledStays ==
    ASSUME Filed, UNCHANGED <<journal, current, fields>>, phase' = "gather" => Batch # {}
    PROVE  Filed'
<1>1. \A n : Entry(n)' = Entry(n)
  BY DEF Entry
<1>2. Batch' = Batch
  BY <1>1 DEF Batch
<1> QED BY <1>1, <1>2 DEF Filed, ItemsOfClosed, NothingLost

\* A step of a task changes nothing of the entry it is a task of.
LEMMA TaskStep ==
    ASSUME TypeOK, NEW i \in DOMAIN status, StartTask(i) \/ ResumeTask(i)
    PROVE  /\ phase = "gather" /\ i \in Batch
           /\ UNCHANGED <<journal, mode, phase, current, fields, byDate, metadata>>
<1>1. phase = "gather" /\ UNCHANGED <<journal, mode, phase, current, fields, byDate, metadata>>
  <2>1. CASE StartTask(i)
    BY <2>1 DEF StartTask, ClassifyLegacy, CacheHit, AcceptHigh, KeywordsOnly, AskLLM,
       LLMFailsAtOnce, NeedsLLM, Starting, Returns, given, treeVars
  <2>2. CASE ResumeTask(i)
    BY <2>2 DEF ResumeTask, LLMFails, LLMAnswers, Resuming, Returns, given, treeVars
  <2> QED BY <2>1, <2>2
<1> QED BY <1>1, BatchFacts

LEMMA FiledInit == ASSUME Init PROVE Filed
BY DEF Init, Filed, ItemsOfClosed, NothingLost

LEMMA FiledNext == ASSUME IInv, Filed, [Next]_vars PROVE Filed'
<1>1. /\ current \in Nat \ {0} /\ journal \in Journal
      /\ DOMAIN journal.entries = 1..Len(journal.entries) /\ Len(journal.entries) \in Nat
  BY JournalAssumption DEF IInv, TypeOK
<1>2. CASE OpenEntry
  <2>1. /\ UNCHANGED <<journal, current>> /\ AppendItems({}) /\ Batch # {}
    BY <1>2 DEF OpenEntry, given
  <2>2. UNCHANGED fields
    BY <2>1 DEF AppendItems
  <2> QED BY <2>1, <2>2, FiledStays
<1>3. CASE OpenEmptyEntry
  <2> DEFINE item == Placed(current, 0, 1, Uncategorized, EmptyEntry)
  <2>1. /\ current \in DOMAIN journal.entries /\ AppendItems({item}) /\ Batch = {}
        /\ UNCHANGED <<journal, phase>> /\ phase' = "between" /\ current' = current + 1
    BY <1>1, <1>3 DEF OpenEmptyEntry, given
  <2>2. AllSentences(Entry(current)) = <<>>
    <3>1. AllSentences(Entry(current)) \in Seq(Sentence)
      BY <1>1, <2>1, SentencesOfEntry
    <3> QED BY <2>1, <3>1, PlacesStand DEF Batch
  <2>3. item.entry = current /\ item.text = EmptyEntry
    BY DEF Placed
  <2> HIDE DEF item
  <2>4. fields' = fields \cup {item}
    BY <2>1 DEF AppendItems
  <2>5. {p.text : p \in {item}} = {EmptyEntry}
    BY <2>3
  <2> QED BY <1>1, <2>1, <2>2, <2>3, <2>4, <2>5, FileItems
<1>4. CASE CloseEntry
  <2>1. /\ phase = "gather" /\ \A i \in Batch : status[i] = "finished"
        /\ AppendItems(BatchOfItems) /\ UNCHANGED journal
        /\ phase' = "between" /\ current' = current + 1
    BY <1>4 DEF CloseEntry, given, BatchOfItems
  <2>2. fields' = fields \cup BatchOfItems
    BY <2>1 DEF AppendItems
  <2>3. AllSentences(Entry(current)) # <<>>
    <3>1. current \in DOMAIN journal.entries /\ Batch # {}
      BY <2>1 DEF IInv, TypeOK, Filed, ItemsOfClosed
    <3>2. AllSentences(Entry(current)) \in Seq(Sentence)
      BY <1>1, <3>1, SentencesOfEntry
    <3> QED BY <3>1, <3>2, PlacesStand DEF Batch
  <2>4. /\ \A p \in BatchOfItems : p.entry = current
        /\ {p.text : p \in BatchOfItems} = Range(AllSentences(Entry(current)))
        /\ \A p, q \in BatchOfItems : p.text = q.text /\ p.hit = q.hit => p = q
    BY <2>1, BatchIsFiled
  <2> QED BY <1>1, <2>1, <2>2, <2>3, <2>4, FileItems
<1>5. CASE Finish
  BY <1>5, FiledStays DEF Finish, given, treeVars
<1>6. ASSUME NEW i \in DOMAIN status, StartTask(i) \/ ResumeTask(i) PROVE Filed'
  <2>1. UNCHANGED <<journal, current, fields, phase>> /\ phase = "gather"
    BY <1>6, TaskStep DEF IInv
  <2> QED BY <2>1, FiledStays DEF Filed, ItemsOfClosed
<1>7. CASE UNCHANGED vars
  <2>1. UNCHANGED <<journal, current, fields, phase>>
    BY <1>7 DEF vars, given, treeVars
  <2> QED BY <2>1, FiledStays DEF Filed, ItemsOfClosed
<1> QED BY <1>2, <1>3, <1>4, <1>5, <1>6, <1>7 DEF Next, Returned

LEMMA AlwaysFiled == Spec => []Filed
<1>1. Init => Filed
  BY FiledInit
<1>2. IInv /\ Filed /\ [Next]_vars => Filed'
  BY FiledNext
<1> QED BY <1>1, <1>2, ParserInvariant, PTL DEF Spec

(***************************************************************************)
(* Nothing of the journal is lost and nothing filed twice: whatever the    *)
(* keywords, the cache and the LLM say of them, the texts filed for an     *)
(* entry are its sentences, each once per hit.                             *)
(***************************************************************************)
THEOREM NothingIsLost == Spec => []NothingLost
<1>1. Filed => NothingLost
  BY DEF Filed
<1> QED BY <1>1, AlwaysFiled, PTL

------------------------------------------------------------------------------
(* The metadata.                                                             *)

\* What parse returns with: every entry behind it, and the range of the journal.
Concluded ==
    phase = "done" =>
        /\ current = Len(journal.entries) + 1
        /\ metadata =
             [entry_count |-> Len(journal.entries),
              start |-> IF journal.range_start # NoDate THEN journal.range_start ELSE MinDate,
              end   |-> IF journal.range_end # NoDate THEN journal.range_end ELSE MaxDate]

LEMMA EntryDatesAreFinite ==
    ASSUME journal \in Journal
    PROVE  EntryDates \in SUBSET Int /\ IsFiniteSet(EntryDates)
<1>1. /\ DOMAIN journal.entries = 1..Len(journal.entries) /\ Len(journal.entries) \in Nat
      /\ \A n \in DOMAIN journal.entries : Entry(n).date \in Int
  BY JournalAssumption, SentencesOfEntry DEF RawEntry
<1>2. IsFiniteSet(DOMAIN journal.entries)
  BY <1>1, FS_Interval
<1>3. IsFiniteSet(EntryDates)
  <2> DEFINE f == [n \in DOMAIN journal.entries |-> Entry(n).date]
  <2>1. f \in Surjection(DOMAIN journal.entries, EntryDates)
    BY DEF EntryDates, Surjection
  <2> HIDE DEF f
  <2> QED BY <1>2, <2>1, FS_Surjection
<1> QED BY <1>1, <1>3 DEF EntryDates

LEMMA EndsOfEntries ==
    ASSUME journal \in Journal, NEW d \in EntryDates
    PROVE  MinDate <= d /\ d <= MaxDate
<1>1. EntryDates \in SUBSET Int /\ IsFiniteSet(EntryDates) /\ EntryDates # {}
  BY EntryDatesAreFinite
<1>2. MinDate \in EntryDates /\ \A e \in EntryDates : MinDate <= e
  BY <1>1, HasLeast DEF MinDate
<1>3. MaxDate \in EntryDates /\ \A e \in EntryDates : MaxDate >= e
  BY <1>1, HasGreatest DEF MaxDate
<1> QED BY <1>1, <1>2, <1>3

LEMMA ConcludedNext == ASSUME TypeOK, Concluded, [Next]_vars PROVE Concluded'
<1>1. CASE Finish
  <2>1. current = Len(journal.entries) + 1
    BY <1>1, JournalAssumption DEF Finish, TypeOK
  <2>2. UNCHANGED <<journal, current>> /\ EntryDates' = EntryDates
    BY <1>1 DEF Finish, given, EntryDates, Entry
  <2> QED BY <1>1, <2>1, <2>2 DEF Finish, Concluded, MinDate, MaxDate
<1>2. CASE UNCHANGED vars
  <2>1. UNCHANGED <<journal, current, phase, metadata>> /\ EntryDates' = EntryDates
    BY <1>2 DEF vars, given, EntryDates, Entry
  <2> QED BY <2>1 DEF Concluded, MinDate, MaxDate
<1>3. ASSUME NEW i \in DOMAIN status, StartTask(i) \/ ResumeTask(i) PROVE Concluded'
  BY <1>3, TaskStep DEF Concluded
<1>4. CASE OpenEntry \/ OpenEmptyEntry \/ CloseEntry
  BY <1>4 DEF OpenEntry, OpenEmptyEntry, CloseEntry, Concluded
<1> QED BY <1>1, <1>2, <1>3, <1>4 DEF Next, Returned

(***************************************************************************)
(* The metadata of a parse agree with its trees: as many entries counted   *)
(* as have items, and a range around every day that has a tree.            *)
(***************************************************************************)
THEOREM MetadataOfTrees == Spec => []MetadataAgrees
<1>1. Init => Concluded
  BY DEF Init, Concluded
<1>2. TypeOK /\ Concluded /\ [Next]_vars => Concluded'
  BY ConcludedNext
<1>3. ASSUME TypeOK, Filed, Concluded, phase = "done"
      PROVE  metadata.entry_count = Cardinality({p.entry : p \in fields})
  <2>1. journal \in Journal /\ Len(journal.entries) \in Nat
    BY <1>3, JournalAssumption DEF TypeOK
  <2>2. current - 1 = Len(journal.entries) /\ metadata.entry_count = Len(journal.entries)
    BY <1>3, <2>1 DEF Concluded
  <2>3. ASSUME NEW n \in 1..Len(journal.entries)
        PROVE  \E p \in fields : p.entry = n
    <3>1. {p.text : p \in {q \in fields : q.entry = n}} =
            IF AllSentences(Entry(n)) = <<>> THEN {EmptyEntry} ELSE Range(AllSentences(Entry(n)))
      BY <1>3, <2>2 DEF Filed, NothingLost
    <3>2. AllSentences(Entry(n)) \in Seq(Sentence)
      <4>1. n \in DOMAIN journal.entries
        BY <2>1, JournalAssumption
      <4> QED BY <2>1, <4>1, SentencesOfEntry
    <3>3. AllSentences(Entry(n)) # <<>> => Range(AllSentences(Entry(n))) # {}
      <4>1. AllSentences(Entry(n)) # <<>> => 1 \in DOMAIN AllSentences(Entry(n))
        BY <3>2
      <4> QED BY <4>1 DEF Range
    <3>4. PICK t : t \in {p.text : p \in {q \in fields : q.entry = n}}
      BY <3>1, <3>3
    <3> QED BY <3>4
  <2>4. {p.entry : p \in fields} = 1..Len(journal.entries)
    BY <1>3, <2>2, <2>3 DEF Filed, ItemsOfClosed
  <2>5. Cardinality(1..Len(journal.entries)) = Len(journal.entries)
    <3>1. \A n \in Nat : Cardinality(1..n) = n
      <4>1. \A n \in Nat : Cardinality(1..n) = IF 1 > n THEN 0 ELSE n - 1 + 1
        BY FS_Interval
      <4> QED BY <4>1
    <3> QED BY <2>1, <3>1
  <2> QED BY <2>2, <2>4, <2>5
<1>4. ASSUME TypeOK, Concluded, phase = "done", NEW d \in DOMAIN byDate
      PROVE  metadata.start <= d /\ d <= metadata.end
  <2>1. journal \in Journal /\ d \in EntryDates
    BY <1>4 DEF TypeOK
  <2>2. PICK n \in DOMAIN journal.entries : d = journal.entries[n].date
    BY <2>1 DEF EntryDates, Entry
  <2>3. /\ metadata.start = IF journal.range_start # NoDate THEN journal.range_start ELSE MinDate
        /\ metadata.end = IF journal.range_end # NoDate THEN journal.range_end ELSE MaxDate
    BY <1>4 DEF Concluded
  <2> QED BY <2>1, <2>2, <2>3, EndsOfEntries, RangeAssumption
<1>5. TypeOK /\ Filed /\ Concluded => MetadataAgrees
  BY <1>3, <1>4 DEF MetadataAgrees
<1> QED BY <1>1, <1>2, <1>5, ParserTypes, AlwaysFiled, PTL DEF Spec
------------------------------------------------------------------------------
(* What a step of a task does to the cache, to the calls and to the answers. *)

OnlyTaskMoves(i, places) ==
    /\ DOMAIN status' = DOMAIN status
    /\ status'[i] \in places
    /\ \A j \in DOMAIN status : j # i => status'[j] = status[j]

Call(i) == [entry |-> current, sentence |-> SentenceAt(i)]
Answer(i, v) == [entry |-> current, sentence |-> SentenceAt(i), verdict |-> v]

\* A task that asks has missed the cache, with keywords that do not decide.
Asks(i) ==
    /\ mode = "hybrid"
    /\ store[SentenceAt(i).text] = NoVerdict
    /\ High[SentenceAt(i).text] = <<>>
    /\ asked' = asked \cup {Call(i)}
    /\ UNCHANGED <<store, order>>

LEMMA TaskStarts ==
    ASSUME TypeOK, NEW i \in DOMAIN status, StartTask(i)
    PROVE  /\ status[i] = "waiting" /\ OnlyTaskMoves(i, {"finished", "asking"})
           /\ \A j \in Batch : j < i => status[j] # "waiting"
           /\ UNCHANGED answers
           /\ \/ status'[i] = "finished" /\ UNCHANGED <<store, asked>>
              \/ AcceptHigh(i) /\ status'[i] = "finished" /\ UNCHANGED asked
              \/ Asks(i)
<1>1. /\ status[i] = "waiting" /\ \A j \in Batch : j < i => status[j] # "waiting"
  BY DEF StartTask, ClassifyLegacy, CacheHit, AcceptHigh, KeywordsOnly, AskLLM,
     LLMFailsAtOnce, NeedsLLM, Starting
<1>2. CASE ClassifyLegacy(i) \/ CacheHit(i) \/ KeywordsOnly(i)
  <2>1. /\ UNCHANGED <<store, asked, answers>>
        /\ status' = [status EXCEPT ![i] = "finished"]
    BY <1>2 DEF ClassifyLegacy, CacheHit, KeywordsOnly, Returns, Cache!Get, cacheVars, history
  <2> QED BY <1>1, <2>1 DEF OnlyTaskMoves
<1>3. CASE AcceptHigh(i)
  <2>1. UNCHANGED <<asked, answers>> /\ status' = [status EXCEPT ![i] = "finished"]
    BY <1>3 DEF AcceptHigh, Returns, history
  <2> QED BY <1>1, <1>3, <2>1 DEF OnlyTaskMoves
<1>4. CASE AskLLM(i) \/ LLMFailsAtOnce(i)
  <2>1. /\ NeedsLLM(i) /\ UNCHANGED <<store, order, answers>>
        /\ \/ status' = [status EXCEPT ![i] = "asking"]
           \/ status' = [status EXCEPT ![i] = "finished"]
    BY <1>4 DEF AskLLM, LLMFailsAtOnce, NeedsLLM, Returns, cacheVars
  <2>2. Asks(i)
    BY <2>1 DEF Asks, Call, NeedsLLM, Missed, Cache!Lookup, Cache!Key
  <2>3. OnlyTaskMoves(i, {"finished", "asking"})
    BY <2>1 DEF OnlyTaskMoves
  <2> QED BY <1>1, <2>1, <2>2, <2>3
<1> QED BY <1>2, <1>3, <1>4 DEF StartTask

LEMMA TaskResumes ==
    ASSUME NEW i \in DOMAIN status, ResumeTask(i)
    PROVE  /\ status[i] = "asking" /\ OnlyTaskMoves(i, {"finished"})
           /\ UNCHANGED <<asked, stats>>
           /\ \/ UNCHANGED <<store, order, answers>>
              \/ \E p \in Payload :
                    /\ Cache!Set(SentenceAt(i), ParsePayload(p))
                    /\ answers' = answers \cup {Answer(i, ParsePayload(p))}
<1>1. PICK p \in Payload : LLMFails(i, p) \/ LLMAnswers(i, p)
  BY DEF ResumeTask
<1>2. /\ status[i] = "asking" /\ status' = [status EXCEPT ![i] = "finished"]
      /\ UNCHANGED <<asked, stats>>
  BY <1>1 DEF LLMFails, LLMAnswers, Resuming, Returns, history
<1>3. OnlyTaskMoves(i, {"finished"})
  BY <1>2 DEF OnlyTaskMoves
<1>4. CASE LLMFails(i, p)
  BY <1>2, <1>3, <1>4 DEF LLMFails, cacheVars, history
<1>5. CASE LLMAnswers(i, p)
  BY <1>2, <1>3, <1>5 DEF LLMAnswers, Answer
<1> QED BY <1>1, <1>4, <1>5

\* A step of the entry loop: no task runs, nothing is asked, answered or cached.
LEMMA LoopStep ==
    ASSUME OpenEntry \/ OpenEmptyEntry \/ CloseEntry \/ Finish \/ UNCHANGED vars
    PROVE  UNCHANGED <<journal, mode, store, order, stats, asked, answers>>
BY DEF OpenEntry, OpenEmptyEntry, CloseEntry, Finish, vars, given, cacheVars, history
------------------------------------------------------------------------------
(* Two spellings of a text in one entry.                                     *)

\* Another spelling of the text of i was answered in this entry.
BeatenTo(i) ==
    \E a \in answers :
        /\ a.entry = current
        /\ a.sentence # SentenceAt(i)
        /\ a.sentence.text = SentenceAt(i).text
        /\ a.verdict = store[SentenceAt(i).text]

\* If its text is in the cache although a task was sent to the LLM for it,
\* another spelling of it has been answered in the meantime.
RaceIsOfSpellings ==
    \A i \in DOMAIN status :
        status[i] = "asking" /\ store[SentenceAt(i).text] # NoVerdict => BeatenTo(i)

LEMMA BatchDiffers ==
    ASSUME TypeOK, phase = "gather", NEW i \in Batch, NEW j \in Batch, i # j
    PROVE  SentenceAt(i) # SentenceAt(j)
<1>1. AllSentences(Entry(current)) \in Seq(Sentence)
  BY SentencesOfEntry DEF TypeOK
<1> QED BY <1>1, PlacesStand DEF Batch, SentenceAt

LEMMA RaceStays ==
    ASSUME RaceIsOfSpellings, NEW j \in DOMAIN status, status[j] = "asking",
           UNCHANGED <<journal, current>>, answers \subseteq answers',
           store'[SentenceAt(j).text] \in {store[SentenceAt(j).text], NoVerdict},
           store'[SentenceAt(j).text] # NoVerdict
    PROVE  BeatenTo(j)'
<1>1. SentenceAt(j)' = SentenceAt(j)
  BY DEF SentenceAt, Entry
<1>2. BeatenTo(j)
  BY DEF RaceIsOfSpellings
<1> QED BY <1>1, <1>2 DEF BeatenTo

LEMMA RaceNext == ASSUME IInv, RaceIsOfSpellings, [Next]_vars PROVE RaceIsOfSpellings'
<1>1. CASE OpenEntry
  BY <1>1 DEF OpenEntry, RaceIsOfSpellings
<1>2. CASE CloseEntry
  BY <1>2 DEF CloseEntry, RaceIsOfSpellings
<1>3. CASE OpenEmptyEntry \/ Finish
  BY <1>3 DEF OpenEmptyEntry, Finish, RaceIsOfSpellings, IInv, TypeOK
<1>4. CASE UNCHANGED vars
  BY <1>4 DEF vars, given, cacheVars, history, RaceIsOfSpellings, BeatenTo, SentenceAt, Entry
<1>5. ASSUME NEW i \in DOMAIN status, StartTask(i) PROVE RaceIsOfSpellings'
  <2>1. /\ phase = "gather" /\ i \in Batch /\ DOMAIN status = Batch
        /\ UNCHANGED <<journal, current>>
    BY <1>5, TaskStep, BatchFacts DEF IInv
  <2>2. /\ OnlyTaskMoves(i, {"finished", "asking"}) /\ UNCHANGED answers
        /\ \/ status'[i] = "finished" /\ UNCHANGED <<store, asked>>
           \/ AcceptHigh(i) /\ status'[i] = "finished" /\ UNCHANGED asked
           \/ Asks(i)
    BY <1>5, TaskStarts DEF IInv
  <2>3. \A j : SentenceAt(j)' = SentenceAt(j)
    BY <2>1 DEF SentenceAt, Entry
  <2>4. ASSUME NEW j \in DOMAIN status, status'[j] = "asking", j # i,
               store'[SentenceAt(j).text] # NoVerdict
        PROVE  BeatenTo(j)'
    <3>1. status[j] = "asking" /\ SentenceAt(j).text \in Text
      BY <2>1, <2>2, <2>4, BatchFacts DEF OnlyTaskMoves, IInv
    <3>2. store'[SentenceAt(j).text] \in {store[SentenceAt(j).text], NoVerdict}
      <4>1. CASE AcceptHigh(i)
        <5>1. High[SentenceAt(j).text] = <<>>
          BY <3>1 DEF IInv, AskingIsUndecided
        <5>2. High[SentenceAt(i).text] # <<>> /\ Cache!Set(SentenceAt(i), High[SentenceAt(i).text])
          BY <4>1 DEF AcceptHigh
        <5>3. SentenceAt(i) \in Sentence /\ SentenceAt(i).text \in Text
          BY <2>1, BatchFacts DEF IInv
        <5>4. High[SentenceAt(i).text] \in Verdict
          BY <5>3, HighIsVerdict
        <5> QED BY <3>1, <5>1, <5>2, <5>3, <5>4, SetEffect DEF IInv, Cache!CacheInv
      <4>2. CASE UNCHANGED store
        BY <4>2
      <4> QED BY <2>2, <4>1, <4>2 DEF Asks
    <3> QED BY <2>1, <2>2, <2>4, <3>1, <3>2, RaceStays
  <2>5. status'[i] = "asking" => store'[SentenceAt(i).text] = NoVerdict
    BY <2>2 DEF Asks
  <2> QED BY <2>2, <2>3, <2>4, <2>5 DEF RaceIsOfSpellings, OnlyTaskMoves
<1>6. ASSUME NEW i \in DOMAIN status, ResumeTask(i) PROVE RaceIsOfSpellings'
  <2>1. /\ phase = "gather" /\ i \in Batch /\ DOMAIN status = Batch
        /\ UNCHANGED <<journal, current>>
    BY <1>6, TaskStep, BatchFacts DEF IInv
  <2>2. /\ OnlyTaskMoves(i, {"finished"})
        /\ \/ UNCHANGED <<store, order, answers>>
           \/ \E p \in Payload :
                 /\ Cache!Set(SentenceAt(i), ParsePayload(p))
                 /\ answers' = answers \cup {Answer(i, ParsePayload(p))}
    BY <1>6, TaskResumes
  <2>3. \A j : SentenceAt(j)' = SentenceAt(j)
    BY <2>1 DEF SentenceAt, Entry
  <2>4. ASSUME NEW j \in DOMAIN status, status'[j] = "asking",
               store'[SentenceAt(j).text] # NoVerdict
        PROVE  BeatenTo(j)'
    <3>1. /\ j # i /\ status[j] = "asking"
          /\ SentenceAt(j).text \in Text /\ SentenceAt(i) \in Sentence
      BY <2>1, <2>2, <2>4, BatchFacts DEF OnlyTaskMoves, IInv
    <3>2. CASE UNCHANGED <<store, answers>>
      BY <2>1, <2>4, <3>1, <3>2, RaceStays
    <3>3. ASSUME NEW p \in Payload, Cache!Set(SentenceAt(i), ParsePayload(p)),
                 answers' = answers \cup {Answer(i, ParsePayload(p))}
          PROVE  BeatenTo(j)'
      <4> DEFINE v == ParsePayload(p)
                 a == Answer(i, v)
      <4>1. v \in Verdict
        BY OtherVerdicts
      <4>2. \/ store'[SentenceAt(j).text] \in {store[SentenceAt(j).text], NoVerdict}
            \/ SentenceAt(j).text = SentenceAt(i).text /\ store'[SentenceAt(j).text] = v
        BY <3>1, <3>3, <4>1, SetEffect DEF IInv, Cache!CacheInv
      <4>3. CASE store'[SentenceAt(j).text] \in {store[SentenceAt(j).text], NoVerdict}
        BY <2>1, <2>4, <3>1, <3>3, <4>3, RaceStays
      <4>4. CASE SentenceAt(j).text = SentenceAt(i).text /\ store'[SentenceAt(j).text] = v
        <5>1. SentenceAt(i) # SentenceAt(j)
          BY <2>1, <3>1, BatchDiffers DEF IInv
        <5>2. /\ a \in answers' /\ a.entry = current' /\ a.sentence = SentenceAt(i)
              /\ a.verdict = v
          BY <2>1, <3>3 DEF Answer
        <5> HIDE DEF a, v
        <5> QED BY <2>3, <4>4, <5>1, <5>2 DEF BeatenTo
      <4> QED BY <4>2, <4>3, <4>4
    <3> QED BY <2>2, <3>2, <3>3
  <2> QED BY <2>2, <2>3, <2>4 DEF RaceIsOfSpellings, OnlyTaskMoves
<1> QED BY <1>1, <1>2, <1>3, <1>4, <1>5, <1>6 DEF Next, Returned

(***************************************************************************)
(* A cached verdict is only ever overwritten by the answer to another      *)
(* spelling of its text, asked about in the same entry before the first    *)
(* answer came.                                                            *)
(***************************************************************************)
THEOREM OverwrittenBySpelling == Spec => OverwrittenBySpellingOnly
<1>1. Init => RaceIsOfSpellings
  BY DEF Init, RaceIsOfSpellings
<1>2. IInv /\ RaceIsOfSpellings /\ [Next]_vars => RaceIsOfSpellings'
  BY RaceNext
<1>3. ASSUME IInv, RaceIsOfSpellings, [Next]_vars
      PROVE  [\A t \in Text :
                store[t] # NoVerdict /\ store'[t] \notin {NoVerdict, store[t]} =>
                  \E a \in answers, i \in Batch :
                      /\ a.entry = current /\ a.sentence.text = t /\ a.verdict = store[t]
                      /\ SentenceAt(i) # a.sentence /\ SentenceAt(i).text = t
                      /\ status[i] = "asking"]_vars
  <2> SUFFICES ASSUME NEW t \in Text, store[t] # NoVerdict,
                      store'[t] \notin {NoVerdict, store[t]}
               PROVE  \E a \in answers, i \in Batch :
                        /\ a.entry = current /\ a.sentence.text = t /\ a.verdict = store[t]
                        /\ SentenceAt(i) # a.sentence /\ SentenceAt(i).text = t
                        /\ status[i] = "asking"
    OBVIOUS
  <2>1. PICK i \in DOMAIN status : StartTask(i) \/ ResumeTask(i)
    BY <1>3, LoopStep DEF Next, Returned
  <2>2. phase = "gather" /\ i \in Batch /\ SentenceAt(i) \in Sentence
    BY <1>3, <2>1, TaskStep, BatchFacts DEF IInv
  <2>3. ASSUME NEW v \in Verdict, Cache!Set(SentenceAt(i), v)
        PROVE  t = SentenceAt(i).text
    BY <1>3, <2>2, <2>3, SetEffect DEF IInv, Cache!CacheInv
  <2>4. CASE StartTask(i)
    <3>1. AcceptHigh(i)
      BY <1>3, <2>1, <2>4, TaskStarts DEF IInv, Asks
    <3>2. /\ store[SentenceAt(i).text] = NoVerdict
          /\ Cache!Set(SentenceAt(i), High[SentenceAt(i).text])
      BY <3>1 DEF AcceptHigh, Missed, Cache!Lookup, Cache!Key
    <3>3. High[SentenceAt(i).text] \in Verdict
      BY <2>2, HighIsVerdict DEF Sentence
    <3> QED BY <2>3, <3>2, <3>3
  <2>5. CASE ResumeTask(i)
    <3>1. PICK p \in Payload : Cache!Set(SentenceAt(i), ParsePayload(p))
      BY <2>1, <2>5, TaskResumes
    <3>2. t = SentenceAt(i).text
      BY <2>3, <3>1, OtherVerdicts
    <3>3. status[i] = "asking" /\ BeatenTo(i)
      BY <1>3, <2>1, <2>5, <3>2, TaskResumes DEF RaceIsOfSpellings
    <3> QED BY <2>2, <3>2, <3>3 DEF BeatenTo
  <2> QED BY <2>1, <2>4, <2>5
<1> QED BY <1>1, <1>2, <1>3, ParserInvariant, PTL DEF Spec, OverwrittenBySpellingOnly
------------------------------------------------------------------------------
(* The calls to the LLM.                                                     *)

\* The cache holds texts of the journal only, no call is of a later entry, and
\* with room for every text of the journal an answered text stays cached.
CallsInv ==
    /\ Cache!Cached \subseteq JournalTexts
    /\ \A q \in asked : q.entry <= current /\ High[q.sentence.text] = <<>>
    /\ RoomForAll => \A a \in answers : a.sentence.text \in Cache!Cached
    /\ NoNeedlessCall

LEMMA RangeIsFinite ==
    ASSUME NEW S, NEW s \in Seq(S)
    PROVE  IsFiniteSet(Range(s)) /\ Range(s) \subseteq S
<1>1. DOMAIN s = 1..Len(s) /\ Len(s) \in Nat
  OBVIOUS
<1>2. IsFiniteSet(DOMAIN s)
  BY <1>1, FS_Interval
<1>3. s \in Surjection(DOMAIN s, Range(s))
  BY DEF Surjection, Range
<1>4. Range(s) \subseteq S
  BY DEF Range
<1> QED BY <1>2, <1>3, <1>4, FS_Surjection

LEMMA JournalTextsAreFinite ==
    ASSUME journal \in Journal
    PROVE  IsFiniteSet(JournalTexts)
<1> DEFINE said == {Range(AllSentences(Entry(n))) : n \in DOMAIN journal.entries}
           all == UNION said
<1>1. IsFiniteSet(DOMAIN journal.entries)
  <2>1. DOMAIN journal.entries = 1..Len(journal.entries) /\ Len(journal.entries) \in Nat
    BY JournalAssumption
  <2> QED BY <2>1, FS_Interval
<1>2. IsFiniteSet(said)
  <2> DEFINE f == [n \in DOMAIN journal.entries |-> Range(AllSentences(Entry(n)))]
  <2>1. f \in Surjection(DOMAIN journal.entries, said)
    BY DEF Surjection
  <2> HIDE DEF f, said
  <2> QED BY <1>1, <2>1, FS_Surjection
<1>3. IsFiniteSet(all)
  <2>1. ASSUME NEW n \in DOMAIN journal.entries
        PROVE  IsFiniteSet(Range(AllSentences(Entry(n))))
    <3>1. AllSentences(Entry(n)) \in Seq(Sentence)
      BY SentencesOfEntry
    <3> QED BY <3>1, RangeIsFinite
  <2>2. \A T \in said : IsFiniteSet(T)
    BY <2>1
  <2> HIDE DEF said
  <2> QED BY <1>2, <2>2, FS_UNION
<1>4. JournalTexts = {s.text : s \in all}
  BY DEF JournalTexts
<1>5. IsFiniteSet({s.text : s \in all})
  <2> HIDE DEF all
  <2> DEFINE f == [s \in all |-> s.text]
  <2>1. f \in Surjection(all, {s.text : s \in all})
    BY DEF Surjection
  <2> HIDE DEF f
  <2> QED BY <1>3, <2>1, FS_Surjection
<1> QED BY <1>4, <1>5

LEMMA BatchIsOfJournal ==
    ASSUME TypeOK, phase = "gather", NEW i \in Batch
    PROVE  SentenceAt(i).text \in JournalTexts
<1>1. current \in DOMAIN journal.entries /\ i \in DOMAIN AllSentences(Entry(current))
  BY DEF TypeOK, Batch, Places
<1>2. SentenceAt(i) \in UNION {Range(AllSentences(Entry(n))) : n \in DOMAIN journal.entries}
  BY <1>1 DEF SentenceAt, Range
<1> QED BY <1>2 DEF JournalTexts

\* As many places in the order as keys in the cache.
LEMMA OrderCounts ==
    ASSUME Cache!CacheInv
    PROVE  IsFiniteSet(Cache!Cached) /\ Cardinality(Cache!Cached) = Len(order)
<1>1. /\ order \in Seq(Text) /\ Cache!Range(order) = Cache!Cached
      /\ \A i, j \in DOMAIN order : order[i] = order[j] => i = j
  BY DEF Cache!CacheInv, Cache!TypeOK, Cache!OnePlacePerKey
<1>2. order \in Bijection(1..Len(order), Cache!Cached)
  <2>1. order \in [1..Len(order) -> Cache!Cached]
    BY <1>1 DEF Cache!Range
  <2> QED BY <1>1, <2>1 DEF Bijection, Injection, Surjection, IsInjective, Cache!Range
<1>3. ExistsBijection(1..Len(order), Cache!Cached)
  BY <1>2 DEF ExistsBijection
<1>4. Len(order) \in Nat
  BY <1>1
<1>5. IsFiniteSet(Cache!Cached)
  BY <1>3, <1>4, FS_NatBijection
<1> QED BY <1>3, <1>4, <1>5, FS_CountingElements

\* A new text of the journal finds room when there is room for all of them.
LEMMA NoEviction ==
    ASSUME IInv, Cache!Cached \subseteq JournalTexts, RoomForAll,
           NEW t \in JournalTexts, t \notin Cache!Cached
    PROVE  Len(order) < CacheSize
<1>1. IsFiniteSet(JournalTexts)
  BY JournalTextsAreFinite DEF IInv, TypeOK
<1>2. IsFiniteSet(JournalTexts \ {t}) /\ Cardinality(JournalTexts \ {t}) = Cardinality(JournalTexts) - 1
  BY <1>1, FS_RemoveElement
<1>3. Cardinality(Cache!Cached) <= Cardinality(JournalTexts \ {t})
  <2>1. Cache!Cached \in SUBSET (JournalTexts \ {t})
    OBVIOUS
  <2> QED BY <1>2, <2>1, FS_Subset
<1>4. Cardinality(Cache!Cached) = Len(order) /\ Len(order) \in Nat
  BY OrderCounts DEF IInv, Cache!CacheInv, Cache!TypeOK
<1>5. Cardinality(JournalTexts) \in Nat
  BY <1>1, FS_CardinalityType
<1> QED BY <1>2, <1>3, <1>4, <1>5, CacheSizeType DEF RoomForAll

\* What a set adds to the cache, and, with room for all, that it drops nothing.
LEMMA SetCaches ==
    ASSUME IInv, phase = "gather", NEW i \in Batch, NEW v \in Verdict,
           Cache!Set(SentenceAt(i), v), Cache!Cached \subseteq JournalTexts
    PROVE  /\ Cache!Cached' \subseteq JournalTexts
           /\ RoomForAll => Cache!Cached' = Cache!Cached \cup {SentenceAt(i).text}
<1>1. /\ SentenceAt(i) \in Sentence /\ SentenceAt(i).text \in Text
      /\ SentenceAt(i).text \in JournalTexts
  BY BatchFacts, BatchIsOfJournal DEF IInv
<1>2. Cache!TypeOK /\ v # NoVerdict
  BY NoVerdictAssumption DEF IInv, Cache!CacheInv
<1>3. Cache!Cached' \subseteq Cache!Cached \cup {SentenceAt(i).text}
  BY <1>1, <1>2, SetEffect DEF Cache!Cached
<1>4. ASSUME RoomForAll PROVE store' = [store EXCEPT ![SentenceAt(i).text] = v]
  <2>1. SentenceAt(i).text \notin Cache!Cached => Len(order) < CacheSize
    BY <1>1, <1>4, NoEviction
  <2>2. ~Cache!InsertAndEvict(SentenceAt(i).text, v)
    BY <1>2, <2>1, CacheSizeType DEF Cache!InsertAndEvict, Cache!TypeOK
  <2> QED BY <2>2 DEF Cache!Set, Cache!Key, Cache!Overwrite, Cache!Insert
<1>5. RoomForAll => Cache!Cached' = Cache!Cached \cup {SentenceAt(i).text}
  BY <1>1, <1>2, <1>4 DEF Cache!Cached, Cache!TypeOK
<1> QED BY <1>1, <1>3, <1>5

LEMMA CallsInit == ASSUME Init PROVE CallsInv
BY DEF Init, CallsInv, Cache!CacheInit, Cache!Cached, NoNeedlessCall

LEMMA SameTexts ==
    ASSUME UNCHANGED journal
    PROVE  JournalTexts' = JournalTexts /\ RoomForAll' = RoomForAll
BY DEF JournalTexts, RoomForAll, Entry

\* Once answered, a text is cached and so not asked about again.
LEMMA AskedOnce ==
    ASSUME IInv, CallsInv, phase = "gather", NEW i \in Batch, Asks(i),
           UNCHANGED <<journal, current, answers>>
    PROVE  CallsInv'
<1>1. /\ JournalTexts' = JournalTexts /\ RoomForAll' = RoomForAll
      /\ Cache!Cached' = Cache!Cached
  BY SameTexts DEF Asks, Cache!Cached
<1>2. /\ asked' = asked \cup {Call(i)} /\ Call(i).entry = current
      /\ Call(i).sentence = SentenceAt(i) /\ High[SentenceAt(i).text] = <<>>
      /\ current \in Nat
  BY DEF Asks, Call, IInv, TypeOK
<1>3. RoomForAll => \A a \in answers : a.sentence.text # SentenceAt(i).text
  BY DEF CallsInv, Asks, Cache!Cached
<1>4. ASSUME NEW q \in asked'
      PROVE  /\ q.entry <= current' /\ High[q.sentence.text] = <<>>
             /\ RoomForAll => \A a \in answers' :
                   a.sentence.text = q.sentence.text => q.entry <= a.entry
  <2> HIDE DEF Call
  <2>1. CASE q \in asked
    BY <2>1 DEF CallsInv, NoNeedlessCall
  <2>2. CASE q = Call(i)
    BY <1>2, <1>3, <2>2
  <2> QED BY <1>2, <2>1, <2>2
<1> QED BY <1>1, <1>4 DEF CallsInv, NoNeedlessCall

LEMMA AnswerIsCached ==
    ASSUME IInv, CallsInv, phase = "gather", NEW i \in Batch, NEW v \in Verdict,
           Cache!Set(SentenceAt(i), v), answers' \subseteq answers \cup {Answer(i, v)},
           UNCHANGED <<journal, current, asked>>
    PROVE  CallsInv'
<1>1. JournalTexts' = JournalTexts /\ RoomForAll' = RoomForAll
  BY SameTexts
<1>2. /\ Cache!Cached' \subseteq JournalTexts
      /\ RoomForAll => Cache!Cached' = Cache!Cached \cup {SentenceAt(i).text}
  BY SetCaches DEF CallsInv
<1>3. /\ Answer(i, v).entry = current
      /\ Answer(i, v).sentence.text = SentenceAt(i).text
  BY DEF Answer
<1>4. ASSUME NEW a \in answers'
      PROVE  /\ RoomForAll => a.sentence.text \in Cache!Cached'
             /\ RoomForAll => \A q \in asked :
                   a.sentence.text = q.sentence.text => q.entry <= a.entry
  <2>1. CASE a \in answers
    BY <1>2, <2>1 DEF CallsInv, NoNeedlessCall
  <2>2. CASE a = Answer(i, v)
    BY <1>2, <1>3, <2>2 DEF CallsInv
  <2> QED BY <2>1, <2>2
<1> QED BY <1>1, <1>2, <1>4 DEF CallsInv, NoNeedlessCall

LEMMA CallsNext == ASSUME IInv, CallsInv, [Next]_vars PROVE CallsInv'
<1>1. CASE OpenEntry \/ OpenEmptyEntry \/ CloseEntry \/ Finish \/ UNCHANGED vars
  <2>1. /\ UNCHANGED <<journal, mode, store, asked, answers>>
        /\ current' \in {current, current + 1} /\ current \in Nat
    BY <1>1, LoopStep DEF OpenEntry, OpenEmptyEntry, CloseEntry, Finish, vars, IInv, TypeOK
  <2>2. \A q \in asked : q.entry \in Nat
    BY DEF IInv, TypeOK
  <2> QED BY <2>1, <2>2, SameTexts DEF CallsInv, NoNeedlessCall, Cache!Cached
<1>2. ASSUME NEW i \in DOMAIN status, StartTask(i) PROVE CallsInv'
  <2>1. phase = "gather" /\ i \in Batch /\ UNCHANGED <<journal, current, answers>>
    BY <1>2, TaskStep, TaskStarts DEF IInv
  <2>2. CASE UNCHANGED <<store, asked>>
    BY <2>1, <2>2, SameTexts DEF CallsInv, NoNeedlessCall, Cache!Cached
  <2>3. CASE AcceptHigh(i) /\ UNCHANGED asked
    <3>1. Cache!Set(SentenceAt(i), High[SentenceAt(i).text]) /\ SentenceAt(i).text \in Text
      BY <2>1, <2>3, BatchFacts DEF AcceptHigh, IInv
    <3> QED BY <2>1, <2>3, <3>1, HighIsVerdict, AnswerIsCached
  <2>4. CASE Asks(i)
    BY <2>1, <2>4, AskedOnce
  <2> QED BY <1>2, <2>2, <2>3, <2>4, TaskStarts DEF IInv
<1>3. ASSUME NEW i \in DOMAIN status, ResumeTask(i) PROVE CallsInv'
  <2>1. phase = "gather" /\ i \in Batch /\ UNCHANGED <<journal, current, asked>>
    BY <1>3, TaskStep, TaskResumes DEF IInv
  <2>2. CASE UNCHANGED <<store, answers>>
    BY <2>1, <2>2, SameTexts DEF CallsInv, NoNeedlessCall, Cache!Cached
  <2>3. ASSUME NEW p \in Payload, Cache!Set(SentenceAt(i), ParsePayload(p)),
               answers' = answers \cup {Answer(i, ParsePayload(p))}
        PROVE  CallsInv'
    BY <2>1, <2>3, OtherVerdicts, AnswerIsCached
  <2> QED BY <1>3, <2>2, <2>3, TaskResumes
<1> QED BY <1>1, <1>2, <1>3 DEF Next, Returned

(***************************************************************************)
(* No call to the LLM is wasted: never on HIGH keywords and, when the      *)
(* cache has room for every text of the journal, never on a text that was  *)
(* answered in an earlier entry.                                           *)
(***************************************************************************)
THEOREM NoCallIsNeedless == Spec => []NoNeedlessCall
<1>1. Init => CallsInv
  BY CallsInit
<1>2. IInv /\ CallsInv /\ [Next]_vars => CallsInv'
  BY CallsNext
<1>3. CallsInv => NoNeedlessCall
  BY DEF CallsInv
<1> QED BY <1>1, <1>2, <1>3, ParserInvariant, PTL DEF Spec
------------------------------------------------------------------------------
(* The counters.                                                             *)

\* A call of this entry is that of a task that has begun.
CallsOfTasks ==
    \A q \in asked : q.entry = current =>
        /\ phase = "gather"
        /\ \E i \in Batch : status[i] # "waiting" /\ SentenceAt(i) = q.sentence

CountsInv ==
    /\ IsFiniteSet(asked) /\ IsFiniteSet(Classified)
    /\ CallsOfTasks
    /\ StatsAddUp

Begun(n, i) ==
    \/ n \in 1..(current - 1) /\ i \in Places(Entry(n))
    \/ n = current /\ i \in DOMAIN status /\ status[i] # "waiting"

PairsOf(n) == {<<n, i>> : i \in Places(Entry(n))}

LEMMA ClassifiedPairs ==
    \A x : x \in Classified <=> \E n, i : x = <<n, i>> /\ Begun(n, i)
<1> SUFFICES ASSUME NEW x
             PROVE  x \in Classified <=> \E n, i : x = <<n, i>> /\ Begun(n, i)
  OBVIOUS
<1> DEFINE behind == UNION {PairsOf(n) : n \in 1..(current - 1)}
           here == {<<current, i>> : i \in {j \in DOMAIN status : status[j] # "waiting"}}
<1>1. Classified = here \cup behind
  BY DEF Classified, PairsOf
<1>2. \A n : x \in PairsOf(n) <=> \E i \in Places(Entry(n)) : x = <<n, i>>
  BY DEF PairsOf
<1>3. x \in behind <=> \E n \in 1..(current - 1) : x \in PairsOf(n)
  OBVIOUS
<1>4. x \in here <=> \E i \in DOMAIN status : status[i] # "waiting" /\ x = <<current, i>>
  OBVIOUS
<1> HIDE DEF behind, here
<1>5. (\E n, i : x = <<n, i>> /\ Begun(n, i)) <=>
        \/ \E n \in 1..(current - 1) : \E i \in Places(Entry(n)) : x = <<n, i>>
        \/ \E i \in DOMAIN status : status[i] # "waiting" /\ x = <<current, i>>
  BY DEF Begun
<1> QED BY <1>1, <1>2, <1>3, <1>4, <1>5

LEMMA ClassifiedPairsNext ==
    \A x : x \in Classified' <=> \E n, i : x = <<n, i>> /\ Begun(n, i)'
<1> SUFFICES ASSUME NEW x
             PROVE  x \in Classified' <=> \E n, i : x = <<n, i>> /\ Begun(n, i)'
  OBVIOUS
<1> DEFINE behind == UNION {PairsOf(n)' : n \in 1..(current' - 1)}
           here == {<<current', i>> : i \in {j \in DOMAIN status' : status'[j] # "waiting"}}
<1>1. Classified' = here \cup behind
  BY DEF Classified, PairsOf
<1>2. \A n : x \in PairsOf(n)' <=> \E i \in Places(Entry(n))' : x = <<n, i>>
  BY DEF PairsOf
<1>3. x \in behind <=> \E n \in 1..(current' - 1) : x \in PairsOf(n)'
  OBVIOUS
<1>4. x \in here <=> \E i \in DOMAIN status' : status'[i] # "waiting" /\ x = <<current', i>>
  OBVIOUS
<1> HIDE DEF behind, here
<1>5. (\E n, i : x = <<n, i>> /\ Begun(n, i)') <=>
        \/ \E n \in 1..(current' - 1) : \E i \in Places(Entry(n))' : x = <<n, i>>
        \/ \E i \in DOMAIN status' : status'[i] # "waiting" /\ x = <<current', i>>
  BY DEF Begun
<1> QED BY <1>1, <1>2, <1>3, <1>4, <1>5

LEMMA ClassifiedStays ==
    ASSUME \A n, i : Begun(n, i)' <=> Begun(n, i)
    PROVE  Classified' = Classified
BY ClassifiedPairs, ClassifiedPairsNext

LEMMA ClassifiedGrows ==
    ASSUME NEW k, NEW j,
           \A n, i : Begun(n, i)' <=> Begun(n, i) \/ (n = k /\ i = j)
    PROVE  Classified' = Classified \cup {<<k, j>>}
<1>1. \A n, i : <<n, i>> = <<k, j>> <=> n = k /\ i = j
  OBVIOUS
<1> QED BY <1>1, ClassifiedPairs, ClassifiedPairsNext

LEMMA LoopClassifies ==
    ASSUME TypeOK, OpenEntry \/ OpenEmptyEntry \/ CloseEntry \/ Finish \/ UNCHANGED vars
    PROVE  Classified' = Classified
<1>1. /\ current \in Nat /\ UNCHANGED journal
      /\ \A n : Places(Entry(n))' = Places(Entry(n))
  BY LoopStep DEF TypeOK, Entry
<1>2. CASE OpenEntry
  <2>1. UNCHANGED current /\ DOMAIN status = {} /\ \A i \in DOMAIN status' : status'[i] = "waiting"
    BY <1>2 DEF OpenEntry, TypeOK
  <2> QED BY <1>1, <2>1, ClassifiedStays DEF Begun
<1>3. CASE OpenEmptyEntry
  <2>1. /\ current' = current + 1 /\ UNCHANGED status /\ DOMAIN status = {}
        /\ Places(Entry(current)) = {}
    BY <1>3 DEF OpenEmptyEntry, TypeOK, Batch
  <2>2. \A n : n \in 1..(current' - 1) <=> n \in 1..(current - 1) \/ (n = current /\ current >= 1)
    BY <1>1, <2>1
  <2> QED BY <1>1, <2>1, <2>2, ClassifiedStays DEF Begun
<1>4. CASE CloseEntry
  <2>1. /\ current' = current + 1 /\ DOMAIN status' = {} /\ DOMAIN status = Batch
        /\ \A i \in Batch : status[i] # "waiting"
    BY <1>4, BatchFacts DEF CloseEntry
  <2>2. current >= 1
    BY DEF TypeOK
  <2>3. \A n : n \in 1..(current' - 1) <=> n \in 1..(current - 1) \/ n = current
    BY <1>1, <2>1, <2>2
  <2>4. \A n : n \in 1..(current - 1) => n # current
    BY <1>1
  <2> QED BY <1>1, <2>1, <2>3, <2>4, ClassifiedStays DEF Begun, Batch
<1>5. CASE Finish \/ UNCHANGED vars
  <2>1. UNCHANGED <<current, status>>
    BY <1>5 DEF Finish, vars
  <2> QED BY <1>1, <2>1, ClassifiedStays DEF Begun
<1> QED BY <1>2, <1>3, <1>4, <1>5

LEMMA TaskClassifies ==
    ASSUME TypeOK, NEW i \in DOMAIN status
    PROVE  /\ StartTask(i) => /\ Classified' = Classified \cup {<<current, i>>}
                              /\ <<current, i>> \notin Classified
           /\ ResumeTask(i) => Classified' = Classified
<1>1. ASSUME StartTask(i) \/ ResumeTask(i)
      PROVE  /\ UNCHANGED <<journal, current>> /\ current \in Nat
             /\ \A n : Places(Entry(n))' = Places(Entry(n))
  BY <1>1, TaskStep DEF TypeOK, Entry
<1>2. ASSUME StartTask(i)
      PROVE  /\ Classified' = Classified \cup {<<current, i>>}
             /\ <<current, i>> \notin Classified
  <2>1. status[i] = "waiting" /\ OnlyTaskMoves(i, {"finished", "asking"})
    BY <1>2, TaskStarts
  <2>2. \A n, j : Begun(n, j)' <=> Begun(n, j) \/ (n = current /\ j = i)
    BY <1>1, <1>2, <2>1 DEF Begun, OnlyTaskMoves
  <2>3. ~Begun(current, i)
    BY <1>1, <1>2, <2>1 DEF Begun
  <2> QED BY <2>2, <2>3, ClassifiedGrows, ClassifiedPairs
<1>3. ASSUME ResumeTask(i) PROVE Classified' = Classified
  <2>1. status[i] = "asking" /\ OnlyTaskMoves(i, {"finished"})
    BY <1>3, TaskResumes
  <2>2. \A n, j : Begun(n, j)' <=> Begun(n, j)
    BY <1>1, <1>3, <2>1 DEF Begun, OnlyTaskMoves
  <2> QED BY <2>2, ClassifiedStays
<1> QED BY <1>2, <1>3

\* With the LLM on, a task that starts is counted once.
LEMMA HybridCounts ==
    ASSUME TypeOK, mode = "hybrid", NEW i, StartTask(i)
    PROVE  /\ stats'.keyword_hits + stats'.llm_calls + stats'.cache_hits =
                stats.keyword_hits + stats.llm_calls + stats.cache_hits + 1
           /\ \/ Asks(i) /\ stats'.llm_calls = stats.llm_calls + 1
              \/ UNCHANGED asked /\ stats'.llm_calls = stats.llm_calls
<1>1. /\ stats \in [Counters -> Nat]
      /\ stats.keyword_hits \in Nat /\ stats.llm_calls \in Nat /\ stats.cache_hits \in Nat
  BY DEF TypeOK, Counters
<1>2. CASE CacheHit(i) \/ AcceptHigh(i)
  <2>1. /\ UNCHANGED asked
        /\ \/ stats' = [stats EXCEPT !["cache_hits"] = @ + 1]
           \/ stats' = [stats EXCEPT !["keyword_hits"] = @ + 1]
    BY <1>2 DEF CacheHit, AcceptHigh, Count, history
  <2> QED BY <1>1, <2>1 DEF Counters
<1>3. CASE AskLLM(i) \/ LLMFailsAtOnce(i)
  <2>1. stats' = [stats EXCEPT !["llm_calls"] = @ + 1] /\ UNCHANGED <<store, order>> /\ NeedsLLM(i)
    BY <1>3 DEF AskLLM, LLMFailsAtOnce, NeedsLLM, Count, cacheVars
  <2>2. Asks(i)
    BY <2>1 DEF Asks, Call, NeedsLLM, Missed, Cache!Lookup, Cache!Key
  <2> QED BY <1>1, <2>1, <2>2 DEF Counters
<1>4. ~ClassifyLegacy(i) /\ ~KeywordsOnly(i)
  BY DEF ClassifyLegacy, KeywordsOnly
<1> QED BY <1>2, <1>3, <1>4 DEF StartTask

LEMMA CountsInit == ASSUME Init PROVE CountsInv
<1>1. Classified = {} /\ asked = {}
  BY DEF Init, Classified
<1>2. stats.keyword_hits = 0 /\ stats.llm_calls = 0 /\ stats.cache_hits = 0
  BY DEF Init
<1> QED BY <1>1, <1>2, FS_EmptySet DEF CountsInv, CallsOfTasks, StatsAddUp

\* A task that has not begun has made no call.
LEMMA CallIsNew ==
    ASSUME TypeOK, CallsOfTasks, phase = "gather", NEW i \in Batch, status[i] = "waiting"
    PROVE  Call(i) \notin asked
<1>1. SUFFICES ASSUME Call(i) \in asked PROVE FALSE
  OBVIOUS
<1>2. Call(i).entry = current /\ Call(i).sentence = SentenceAt(i)
  BY DEF Call
<1>3. PICK j \in Batch : status[j] # "waiting" /\ SentenceAt(j) = SentenceAt(i)
  BY <1>1, <1>2 DEF CallsOfTasks
<1> QED BY <1>3, BatchDiffers

LEMMA StartCounts ==
    ASSUME TypeOK, CountsInv, NEW i \in DOMAIN status, StartTask(i)
    PROVE  CountsInv'
<1>1. /\ phase = "gather" /\ i \in Batch /\ DOMAIN status = Batch
      /\ UNCHANGED <<journal, mode, phase, current>>
  BY TaskStep, BatchFacts
<1>2. /\ status[i] = "waiting" /\ OnlyTaskMoves(i, {"finished", "asking"})
      /\ asked' = asked \/ Asks(i)
  BY TaskStarts DEF AcceptHigh
<1>3. Batch' = Batch /\ \A j : SentenceAt(j)' = SentenceAt(j)
  BY <1>1 DEF Batch, SentenceAt, Entry
<1>4. /\ IsFiniteSet(Classified') /\ Cardinality(Classified') = Cardinality(Classified) + 1
  <2>1. /\ Classified' = Classified \cup {<<current, i>>}
        /\ <<current, i>> \notin Classified /\ IsFiniteSet(Classified)
    BY TaskClassifies DEF CountsInv
  <2> QED BY <2>1, FS_AddElement
<1>5. Call(i) \notin asked
  BY <1>1, <1>2, CallIsNew DEF CountsInv
<1>6. /\ IsFiniteSet(asked')
      /\ Asks(i) => Cardinality(asked') = Cardinality(asked) + 1
  <2>1. Asks(i) => asked' = asked \cup {Call(i)}
    BY DEF Asks
  <2> QED BY <1>2, <1>5, <2>1, FS_AddElement DEF CountsInv
<1>7. CallsOfTasks'
  <2>1. ASSUME NEW q \in asked', q.entry = current
        PROVE  \E j \in Batch : status'[j] # "waiting" /\ SentenceAt(j) = q.sentence
    <3>1. CASE q \in asked
      BY <1>1, <1>2, <2>1, <3>1 DEF CountsInv, CallsOfTasks, OnlyTaskMoves
    <3>2. CASE q = Call(i)
      BY <1>1, <1>2, <3>2 DEF OnlyTaskMoves, Call
    <3> QED BY <1>2, <2>1, <3>1, <3>2 DEF Asks
  <2> QED BY <1>1, <1>3, <2>1 DEF CallsOfTasks
<1>8. StatsAddUp'
  <2>1. SUFFICES ASSUME mode = "hybrid"
                 PROVE  /\ stats'.keyword_hits + stats'.llm_calls + stats'.cache_hits =
                             Cardinality(Classified')
                        /\ stats'.llm_calls = Cardinality(asked')
    BY <1>1 DEF StatsAddUp
  <2>2. /\ stats.keyword_hits + stats.llm_calls + stats.cache_hits = Cardinality(Classified)
        /\ stats.llm_calls = Cardinality(asked)
    BY <2>1 DEF CountsInv, StatsAddUp
  <2> QED BY <1>4, <1>6, <2>1, <2>2, HybridCounts
<1> QED BY <1>4, <1>6, <1>7, <1>8 DEF CountsInv

LEMMA CountsNext == ASSUME IInv, CallsInv, CountsInv, [Next]_vars PROVE CountsInv'
<1>1. ASSUME OpenEntry \/ OpenEmptyEntry \/ CloseEntry \/ Finish \/ UNCHANGED vars
      PROVE  CountsInv'
  <2>1. Classified' = Classified /\ UNCHANGED <<journal, mode, stats, asked>>
    BY <1>1, LoopClassifies, LoopStep DEF IInv
  <2>2. CallsOfTasks'
    <3>1. /\ current \in Nat
          /\ \A q \in asked : q.entry \in Nat /\ q.entry <= current
          /\ phase # "gather" => \A q \in asked : q.entry # current
      BY DEF IInv, TypeOK, CallsInv, CountsInv, CallsOfTasks
    <3>2. CASE OpenEntry \/ Finish
      BY <2>1, <3>1, <3>2 DEF OpenEntry, Finish, CallsOfTasks
    <3>3. CASE OpenEmptyEntry \/ CloseEntry
      BY <2>1, <3>1, <3>3 DEF OpenEmptyEntry, CloseEntry, CallsOfTasks
    <3>4. CASE UNCHANGED vars
      <4>1. UNCHANGED <<journal, current, phase, status, asked>>
        BY <3>4 DEF vars, given, history
      <4> QED BY <4>1 DEF CountsInv, CallsOfTasks, Batch, SentenceAt, Entry
    <3> QED BY <1>1, <3>2, <3>3, <3>4
  <2> QED BY <2>1, <2>2 DEF CountsInv, StatsAddUp
<1>2. ASSUME NEW i \in DOMAIN status, StartTask(i) PROVE CountsInv'
  BY <1>2, StartCounts DEF IInv
<1>3. ASSUME NEW i \in DOMAIN status, ResumeTask(i) PROVE CountsInv'
  <2>1. /\ phase = "gather" /\ i \in Batch /\ DOMAIN status = Batch
        /\ UNCHANGED <<journal, mode, phase, current>>
    BY <1>3, TaskStep, BatchFacts DEF IInv
  <2>2. /\ status[i] = "asking" /\ OnlyTaskMoves(i, {"finished"}) /\ UNCHANGED <<asked, stats>>
        /\ Classified' = Classified
    BY <1>3, TaskResumes, TaskClassifies DEF IInv
  <2>3. Batch' = Batch /\ \A j : SentenceAt(j)' = SentenceAt(j)
    BY <2>1 DEF Batch, SentenceAt, Entry
  <2>4. \A j \in Batch : status[j] # "waiting" => status'[j] # "waiting"
    BY <2>1, <2>2 DEF OnlyTaskMoves
  <2> QED BY <2>1, <2>2, <2>3, <2>4 DEF CountsInv, CallsOfTasks, StatsAddUp
<1> QED BY <1>1, <1>2, <1>3 DEF Next, Returned

(***************************************************************************)
(* With the LLM on, the three counters of get_stats add up to the          *)
(* sentences whose classification has begun, each counted once, and        *)
(* llm_calls is the number of the calls that were made.                    *)
(***************************************************************************)
THEOREM CountersAddUp == Spec => []StatsAddUp
<1>1. Init => CountsInv
  BY CountsInit
<1>2. IInv /\ CallsInv /\ CountsInv /\ [Next]_vars => CountsInv'
  BY CountsNext
<1>3. CountsInv => StatsAddUp
  BY DEF CountsInv
<1>4. Spec => []CallsInv
  <2>1. Init => CallsInv
    BY CallsInit
  <2>2. IInv /\ CallsInv /\ [Next]_vars => CallsInv'
    BY CallsNext
  <2> QED BY <2>1, <2>2, ParserInvariant, PTL DEF Spec
<1> QED BY <1>1, <1>2, <1>3, <1>4, ParserInvariant, PTL DEF Spec
==============================================================================
