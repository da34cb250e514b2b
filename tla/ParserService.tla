---------------------------- MODULE ParserService ----------------------------
(***************************************************************************)
(* One call of ParserService.parse (src/modules/parser/service.py) with    *)
(* everything behind it: the HybridClassifier and its cache, the keyword   *)
(* layer, the LLMClassifier, or the legacy catalogue.                      *)
(*                                                                         *)
(* The entries are categorised one after the other.  For each of them      *)
(* asyncio.gather starts one task per distinct sentence; the tasks start   *)
(* in order, each running up to its first await, before any awaited answer *)
(* can resume one, and resume in any order after that.                     *)
(*                                                                         *)
(* A (category, subcategory) pair is a model value and a verdict a list of *)
(* them.  What a regex catalogue says of a sentence is a constant: the     *)
(* rules of keyword_patterns.py ignore case and match any white space, so  *)
(* they see the text; those of categorizer.py and the length test of       *)
(* fallback_subcategory see the spelling too.                              *)
(***************************************************************************)
EXTENDS Integers, Sequences, FiniteSets, SequencesExt

CONSTANTS
    Text, Spelling,
    Subcategory,        \* _VALID_SUBCATEGORIES
    Uncategorized,      \* ("general", "uncategorized"), one of them
    Foreign,            \* other pairs the LLM may name
    FallbackPair,       \* ("general", ""), one of those
    Malformed,          \* an element of "categories" that is no pair of strings
    High, Medium,       \* match_keywords, by confidence
    Legacy,             \* classify_sentence
    BySize,             \* fallback_subcategory
    Payload,            \* what generate_json may return or raise
    Journal,            \* the RawEntryCollections a request may bring
    Mode,               \* how the service was built
    DefaultMaxSize,     \* max_size of ClassificationCache()
    ConfiguredSize,     \* settings.classification_cache_size
    NoVerdict, NoDate, EmptyEntry

Pair == Subcategory \cup Foreign
Sentence == [text : Text, spelling : Spelling]
Fallback == <<FallbackPair>>

ASSUME PairAssumption ==
    /\ Uncategorized \in Subcategory
    /\ FallbackPair \in Foreign \ Subcategory
    /\ Malformed \notin Pair

ASSUME KeywordAssumption ==
    /\ High \in [Text -> Seq(Subcategory)]
    /\ Medium \in [Text -> Seq(Subcategory)]
    /\ Legacy \in [Sentence -> Seq(Subcategory)]
    /\ BySize \in [Sentence -> Subcategory]

RawEntry == [id : Nat, date : Int, planlar : Seq(Sentence), cue_column : Seq(Sentence),
             notes_column : Seq(Sentence), summary : Seq(Sentence)]

ASSUME JournalAssumption == \A raw \in Journal : raw.entries \in Seq(RawEntry)

\* The Converter's range is around its entries (BridgeProofs!NormalizedCovers).
ASSUME RangeAssumption ==
    \A raw \in Journal : \A n \in DOMAIN raw.entries :
        /\ raw.range_start # NoDate => raw.range_start <= raw.entries[n].date
        /\ raw.range_end # NoDate => raw.entries[n].date <= raw.range_end

ASSUME SizeAssumption ==
    /\ DefaultMaxSize \in Nat \ {0}
    /\ ConfiguredSize \in Nat \ {0}

ASSUME ModeAssumption == Mode \subseteq {"legacy", "hybrid", "keywords_only"}

VARIABLES
    journal,    \* raw: its entries, range_start and range_end
    mode,       \* no hybrid classifier, or one with llm_enabled or without
    phase,      \* "between" entries, in "gather", or "done"
    current,    \* the entry being categorised, or the next one
    status,     \* of the task of each distinct sentence of that entry
    result,     \* what each finished task returned
    store, order, \* the ClassificationCache of the classifier
    stats,      \* HybridClassifier._stats
    fields,     \* the items of the tree over all entries
    byDate,     \* the items of the tree of each day that has one
    metadata,
    asked,      \* history: the LLM calls made
    answers     \* history: the verdicts the LLM really gave

cacheVars == <<store, order>>
treeVars == <<fields, byDate>>
history == <<asked, answers>>
given == <<journal, mode>>
vars == <<given, phase, current, status, result, cacheVars, stats, treeVars,
          metadata, history>>

------------------------------------------------------------------------------
(* LLMClassifier: every failure and every useless reply is the fallback.     *)

ASSUME PayloadAssumption == \A p \in Payload : p.entries \in Seq(Pair \cup {Malformed})

\* The pairs of the list, in its order.
WellFormed(payload) ==
    FlattenSeq([n \in DOMAIN payload.entries |->
                  IF payload.entries[n] = Malformed THEN <<>> ELSE <<payload.entries[n]>>])

ParsePayload(payload) ==
    IF payload.kind = "list" /\ WellFormed(payload) # <<>>
      THEN WellFormed(payload)
      ELSE Fallback

Verdict == {ParsePayload(p) : p \in Payload} \cup {Fallback}
             \cup {High[t] : t \in Text} \cup {Medium[t] : t \in Text}
             \cup {Legacy[s] : s \in Sentence}

ASSUME NoVerdictAssumption == NoVerdict \notin Verdict

------------------------------------------------------------------------------
(* The cache.  An OrderedDict wrapper with __len__ is false while it is      *)
(* empty, so "cache or ClassificationCache()" keeps the cache it was given   *)
(* only if something is in it already.                                       *)

SizeOf(passedLen, passedSize) == IF passedLen > 0 THEN passedSize ELSE DefaultMaxSize

CacheSize == SizeOf(0, ConfiguredSize)

Cache == INSTANCE ClassificationCache WITH
           Value <- Verdict, None <- NoVerdict, MaxSize <- CacheSize

------------------------------------------------------------------------------
(* The sentences of an entry: the four columns in order, exact repetitions   *)
(* dropped.  A sentence is known by the place of its first occurrence.       *)

Entry(n) == journal.entries[n]

AllSentences(entry) ==
    entry.planlar \o entry.cue_column \o entry.notes_column \o entry.summary

\* Mutant: the normalised text instead of the sentence decides what is a repetition.
PlacesByText(entry) ==
    {i \in DOMAIN AllSentences(entry) :
        \A j \in 1..(i - 1) : AllSentences(entry)[j].text # AllSentences(entry)[i].text}

\* Mutant: repetitions are not dropped.
PlacesRepeated(entry) == DOMAIN AllSentences(entry)

Places(entry) ==
    {i \in DOMAIN AllSentences(entry) :
        \A j \in 1..(i - 1) : AllSentences(entry)[j] # AllSentences(entry)[i]}

Batch == Places(Entry(current))
SentenceAt(i) == AllSentences(Entry(current))[i]

------------------------------------------------------------------------------

Init ==
    /\ journal \in Journal
    /\ mode \in Mode
    /\ phase = "between"
    /\ current = 1
    /\ status = <<>>
    /\ result = <<>>
    /\ Cache!CacheInit
    /\ stats = [keyword_hits |-> 0, llm_calls |-> 0, cache_hits |-> 0]
    /\ fields = {}
    /\ byDate = <<>>
    /\ metadata = <<>>
    /\ asked = {}
    /\ answers = {}

\* Mutant: a pair outside the schema is filed as it is.
PlacedRaw(n, i, h, pair, text) ==
    [entry |-> n, place |-> i, hit |-> h, text |-> text, bucket |-> pair,
     date |-> Entry(n).date, source_entry_id |-> Entry(n).id]

Placed(n, i, h, pair, text) ==
    [entry |-> n, place |-> i, hit |-> h, text |-> text,
     bucket |-> IF pair \in Subcategory THEN pair ELSE Uncategorized,
     date |-> Entry(n).date, source_entry_id |-> Entry(n).id]

\* Mutant: every entry gets a new day tree (no setdefault).
DayTreeAnew(date) == {}

DayTree(date) == IF date \in DOMAIN byDate THEN byDate[date] ELSE {}

\* _append of the items to the tree over all entries and to that of the day.
AppendItems(items) ==
    LET date == Entry(current).date
    IN  /\ fields' = fields \cup items
        /\ byDate' = [d \in DOMAIN byDate \cup {date} |->
                        IF d = date THEN DayTree(d) \cup items ELSE byDate[d]]

OpenEntry ==
    /\ phase = "between"
    /\ current <= Len(journal.entries)
    /\ Batch # {}
    /\ phase' = "gather"
    /\ status' = [i \in Batch |-> "waiting"]
    /\ result' = [i \in Batch |-> NoVerdict]
    /\ AppendItems({})
    /\ UNCHANGED <<given, current, cacheVars, stats, metadata, history>>

\* Mutant: the early return of an empty entry comes back to the same entry.
OpenEmptyEntryAgain ==
    /\ phase = "between"
    /\ current <= Len(journal.entries)
    /\ Batch = {}
    /\ AppendItems({Placed(current, 0, 1, Uncategorized, EmptyEntry)})
    /\ UNCHANGED <<given, current, phase, status, result, cacheVars, stats, metadata, history>>

\* An entry without a sentence is kept as a placeholder.
OpenEmptyEntry ==
    /\ phase = "between"
    /\ current <= Len(journal.entries)
    /\ Batch = {}
    /\ AppendItems({Placed(current, 0, 1, Uncategorized, EmptyEntry)})
    /\ current' = current + 1
    /\ UNCHANGED <<given, phase, status, result, cacheVars, stats, metadata, history>>

------------------------------------------------------------------------------
(* One task: HybridClassifier.classify up to its first await.                *)

Starting(i) ==
    /\ phase = "gather"
    /\ status[i] = "waiting"
    /\ \A j \in Batch : j < i => status[j] # "waiting"

Returns(i, verdict) ==
    /\ status' = [status EXCEPT ![i] = "finished"]
    /\ result' = [result EXCEPT ![i] = verdict]
    /\ UNCHANGED <<given, phase, current, treeVars, metadata>>

Count(counter) == stats' = [stats EXCEPT ![counter] = @ + 1]

ClassifyLegacy(i) ==
    /\ Starting(i)
    /\ mode = "legacy"
    /\ Returns(i, Legacy[SentenceAt(i)])
    /\ UNCHANGED <<cacheVars, stats, history>>

CacheHit(i) ==
    /\ Starting(i)
    /\ mode # "legacy"
    /\ Cache!Lookup(SentenceAt(i)) # NoVerdict
    /\ Cache!Get(SentenceAt(i))
    /\ Count("cache_hits")
    /\ Returns(i, Cache!Lookup(SentenceAt(i)))
    /\ UNCHANGED history

Missed(i) == mode # "legacy" /\ Cache!Lookup(SentenceAt(i)) = NoVerdict

AcceptHigh(i) ==
    /\ Starting(i)
    /\ Missed(i)
    /\ High[SentenceAt(i).text] # <<>>
    /\ Cache!Set(SentenceAt(i), High[SentenceAt(i).text])
    /\ Count("keyword_hits")
    /\ Returns(i, High[SentenceAt(i).text])
    /\ UNCHANGED history

KeywordsOnly(i) ==
    /\ Starting(i)
    /\ Missed(i)
    /\ High[SentenceAt(i).text] = <<>>
    /\ mode = "keywords_only"
    /\ Returns(i, Medium[SentenceAt(i).text])
    /\ UNCHANGED <<cacheVars, stats, history>>

\* Mutant: a MEDIUM match that goes to the LLM is counted as a keyword hit too.
NeedsLLMCountedTwice(i) ==
    /\ Starting(i)
    /\ Missed(i)
    /\ High[SentenceAt(i).text] = <<>>
    /\ mode = "hybrid"
    /\ stats' = [stats EXCEPT !.llm_calls = @ + 1,
                             !.keyword_hits = IF Medium[SentenceAt(i).text] # <<>>
                                              THEN @ + 1 ELSE @]
    /\ asked' = asked \cup {[entry |-> current, sentence |-> SentenceAt(i)]}
    /\ UNCHANGED answers

\* The call to the LLM, with the keyword layer undecided or silent.
NeedsLLM(i) ==
    /\ Starting(i)
    /\ Missed(i)
    /\ High[SentenceAt(i).text] = <<>>
    /\ mode = "hybrid"
    /\ Count("llm_calls")
    /\ asked' = asked \cup {[entry |-> current, sentence |-> SentenceAt(i)]}
    /\ UNCHANGED answers

AskLLM(i) ==
    /\ NeedsLLM(i)
    /\ status' = [status EXCEPT ![i] = "asking"]
    /\ UNCHANGED <<given, phase, current, result, cacheVars, treeVars, metadata>>

\* Mutant: the fallback replaces the MEDIUM match.
AfterFailureForgetsMedium(sentence) == Fallback

\* What classify makes of the fallback: a MEDIUM match stands, nothing is cached.
AfterFailure(sentence) ==
    IF Medium[sentence.text] # <<>> THEN Medium[sentence.text] ELSE Fallback

\* The client fails before it awaits anything (no API key, no SDK).
LLMFailsAtOnce(i) ==
    /\ NeedsLLM(i)
    /\ Returns(i, AfterFailure(SentenceAt(i)))
    /\ UNCHANGED cacheVars

------------------------------------------------------------------------------
(* A task resumed by the answer of its LLM call.                             *)

Resuming(i) ==
    /\ phase = "gather"
    /\ status[i] = "asking"
    /\ \A j \in Batch : status[j] # "waiting"

\* Mutant: the verdict of a failed call is cached like any other.
LLMFailsCached(i, payload) ==
    /\ Resuming(i)
    /\ ParsePayload(payload) = Fallback
    /\ Cache!Set(SentenceAt(i), AfterFailure(SentenceAt(i)))
    /\ Returns(i, AfterFailure(SentenceAt(i)))
    /\ UNCHANGED <<stats, history>>

LLMFails(i, payload) ==
    /\ Resuming(i)
    /\ ParsePayload(payload) = Fallback
    /\ Returns(i, AfterFailure(SentenceAt(i)))
    /\ UNCHANGED <<cacheVars, stats, history>>

\* Mutant: the answer is returned and not cached.
LLMAnswersUncached(i, payload) ==
    /\ Resuming(i)
    /\ ParsePayload(payload) # Fallback
    /\ answers' = answers \cup
         {[entry |-> current, sentence |-> SentenceAt(i), verdict |-> ParsePayload(payload)]}
    /\ Returns(i, ParsePayload(payload))
    /\ UNCHANGED <<cacheVars, stats, asked>>

LLMAnswers(i, payload) ==
    /\ Resuming(i)
    /\ ParsePayload(payload) # Fallback
    /\ Cache!Set(SentenceAt(i), ParsePayload(payload))
    /\ answers' = answers \cup
         {[entry |-> current, sentence |-> SentenceAt(i), verdict |-> ParsePayload(payload)]}
    /\ Returns(i, ParsePayload(payload))
    /\ UNCHANGED <<stats, asked>>

------------------------------------------------------------------------------

Hits(i) == IF result[i] = <<>> THEN <<BySize[SentenceAt(i)]>> ELSE result[i]

\* gather returned: the results are zipped with the sentences they belong to.
CloseEntry ==
    /\ phase = "gather"
    /\ \A i \in Batch : status[i] = "finished"
    /\ AppendItems(UNION {{Placed(current, i, h, Hits(i)[h], SentenceAt(i)) :
                              h \in DOMAIN Hits(i)} : i \in Batch})
    /\ phase' = "between"
    /\ current' = current + 1
    /\ status' = <<>>
    /\ result' = <<>>
    /\ UNCHANGED <<given, cacheVars, stats, metadata, history>>

EntryDates == {Entry(n).date : n \in DOMAIN journal.entries}

\* Mutant: the last entry is taken for the latest.
LastDate == IF EntryDates = {} THEN NoDate ELSE Entry(Len(journal.entries)).date

MinDate == IF EntryDates = {} THEN NoDate
           ELSE CHOOSE d \in EntryDates : \A e \in EntryDates : d <= e
MaxDate == IF EntryDates = {} THEN NoDate
           ELSE CHOOSE d \in EntryDates : \A e \in EntryDates : d >= e

Finish ==
    /\ phase = "between"
    /\ current > Len(journal.entries)
    /\ phase' = "done"
    /\ metadata' =
         [entry_count |-> Len(journal.entries),
          start |-> IF journal.range_start # NoDate THEN journal.range_start ELSE MinDate,
          end   |-> IF journal.range_end # NoDate THEN journal.range_end ELSE MaxDate]
    /\ UNCHANGED <<given, current, status, result, cacheVars, stats, treeVars, history>>

StartTask(i) ==
    \/ ClassifyLegacy(i)
    \/ CacheHit(i)
    \/ AcceptHigh(i)
    \/ KeywordsOnly(i)
    \/ AskLLM(i)
    \/ LLMFailsAtOnce(i)

ResumeTask(i) == \E p \in Payload : LLMFails(i, p) \/ LLMAnswers(i, p)

\* parse returned.
Returned == phase = "done" /\ UNCHANGED vars

Next ==
    \/ OpenEntry
    \/ OpenEmptyEntry
    \/ \E i \in DOMAIN status : StartTask(i)
    \/ \E i \in DOMAIN status : ResumeTask(i)
    \/ CloseEntry
    \/ Finish
    \/ Returned

Spec == Init /\ [][Next]_vars

\* The event loop keeps running what is ready, and every awaited generate_json
\* ends: each attempt under its wait_for timeout, at most MAX_RETRIES + 1 of them.
FairSpec == Spec /\ WF_vars(Next)

------------------------------------------------------------------------------
(* Properties.                                                               *)

Counters == {"keyword_hits", "llm_calls", "cache_hits"}

Item == [entry : Nat, place : Nat,
         hit : {1} \cup UNION {DOMAIN v : v \in Verdict}, text : Sentence \cup {EmptyEntry},
         bucket : Subcategory, date : EntryDates,
         source_entry_id : {Entry(n).id : n \in DOMAIN journal.entries}]

TypeOK ==
    /\ journal \in Journal /\ mode \in Mode
    /\ phase \in {"between", "gather", "done"}
    /\ current \in 1..(Len(journal.entries) + 1)
    /\ phase = "gather" =>
         /\ current \in DOMAIN journal.entries
         /\ status \in [Batch -> {"waiting", "asking", "finished"}]
         /\ result \in [Batch -> Verdict \cup {NoVerdict}]
         /\ \A i \in Batch : status[i] = "finished" <=> result[i] # NoVerdict
    /\ phase # "gather" => status = <<>> /\ result = <<>>
    /\ Cache!TypeOK
    /\ stats \in [Counters -> Nat]
    /\ asked \subseteq [entry : Nat, sentence : Sentence]
    /\ answers \subseteq [entry : Nat, sentence : Sentence, verdict : Verdict \ {Fallback}]
    /\ fields \subseteq Item
    /\ DOMAIN byDate \subseteq EntryDates
    /\ \A d \in DOMAIN byDate : byDate[d] \subseteq Item

\* A verdict is cached only if it may be reused: the HIGH keywords of that text
\* or what the LLM really answered for a sentence with that text.  An outage
\* never leaves a trace (parser/README.md, hybrid_classifier.py:81, 88).
CacheHonest ==
    \A t \in Text : store[t] # NoVerdict =>
        /\ store[t] # Fallback
        /\ IF High[t] # <<>> THEN store[t] = High[t]
           ELSE \E a \in answers : a.sentence.text = t /\ a.verdict = store[t]

\* The verdicts a sentence can have earned in the mode the service runs in.
EarnedBy(s) ==
    IF mode = "legacy" THEN {Legacy[s]}
    ELSE IF High[s.text] # <<>> THEN {High[s.text]}
    ELSE {a.verdict : a \in {b \in answers : b.sentence.text = s.text}} \cup
         (IF Medium[s.text] # <<>> THEN {Medium[s.text]}
          ELSE IF mode = "hybrid" THEN {Fallback} ELSE {<<>>})

\* Every item is in a bucket its own sentence earned, whatever order the answers
\* came in and whichever of them failed: results are never zipped with another
\* sentence, HIGH keywords are never overruled, MEDIUM keywords survive an outage
\* and a pair outside the schema ends in general.uncategorized.
EveryItemEarned ==
    \A p \in fields : p.text # EmptyEntry =>
        \E hits \in EarnedBy(p.text) :
            IF hits = <<>> THEN p.bucket = BySize[p.text]
            ELSE /\ p.hit \in DOMAIN hits
                 /\ \/ p.bucket = hits[p.hit]
                    \/ hits[p.hit] \notin Subcategory /\ p.bucket = Uncategorized

\* The texts filed for a categorised entry are exactly the texts it holds, each
\* once per hit, and an entry without any is filed as the placeholder.
NothingLost ==
    /\ \A n \in 1..(current - 1) :
         {p.text : p \in {q \in fields : q.entry = n}} =
            IF AllSentences(Entry(n)) = <<>> THEN {EmptyEntry}
            ELSE Range(AllSentences(Entry(n)))
    /\ \A p, q \in fields :
         p.entry = q.entry /\ p.text = q.text /\ p.hit = q.hit => p = q

Opened == {n \in DOMAIN journal.entries :
             n < current \/ (n = current /\ phase = "gather")}

\* The tree of a day holds exactly the items of the whole tree with that date,
\* and every day of an entry seen so far has one, though the entries of a day
\* need not be neighbours in the collection.
TreesAgree ==
    /\ DOMAIN byDate = {Entry(n).date : n \in Opened}
    /\ \A p \in fields : p.date \in DOMAIN byDate
    /\ \A d \in DOMAIN byDate : byDate[d] = {p \in fields : p.date = d}

\* What the report is built on agrees with itself when parse returns: as many
\* entries are counted as are represented in the tree, and the range covers the
\* day trees.
MetadataAgrees ==
    phase = "done" =>
        /\ metadata.entry_count = Cardinality({p.entry : p \in fields})
        /\ \A d \in DOMAIN byDate : metadata.start <= d /\ d <= metadata.end

JournalTexts ==
    {s.text : s \in UNION {Range(AllSentences(Entry(n))) : n \in DOMAIN journal.entries}}

RoomForAll == Cardinality(JournalTexts) <= CacheSize

\* The LLM is never asked about HIGH keywords, and while nothing had to be
\* evicted never about a text it already answered in an earlier entry.
NoNeedlessCall ==
    \A q \in asked :
        /\ High[q.sentence.text] = <<>>
        /\ RoomForAll => \A a \in answers :
              a.sentence.text = q.sentence.text => q.entry <= a.entry

\* The sentences whose classification has begun, entry by entry.
Classified ==
    {<<current, i>> : i \in {j \in DOMAIN status : status[j] # "waiting"}} \cup
    UNION {{<<n, i>> : i \in Places(Entry(n))} : n \in 1..(current - 1)}

\* get_stats divides by the sum of its counters: with the LLM on, each sentence
\* classified so far is counted by exactly one of them.
StatsAddUp ==
    mode = "hybrid" =>
        /\ stats.keyword_hits + stats.llm_calls + stats.cache_hits = Cardinality(Classified)
        /\ stats.llm_calls = Cardinality(asked)

\* A cached verdict is replaced only by the answer to another spelling of its
\* text that was asked about in the same entry, before the first answer came.
OverwrittenBySpellingOnly ==
    [][\A t \in Text :
          store[t] # NoVerdict /\ store'[t] \notin {NoVerdict, store[t]} =>
            \E a \in answers, i \in Batch :
                /\ a.entry = current /\ a.sentence.text = t /\ a.verdict = store[t]
                /\ SentenceAt(i) # a.sentence /\ SentenceAt(i).text = t
                /\ status[i] = "asking"]_vars

\* parse returns, whatever the LLM does.
ParseReturns == <>(phase = "done")

\* The size the bridge is configured with (config.py:56, passed on at
\* dependencies.py:67) bounds the cache of the classifier.
ConfiguredSizeRespected == Len(order) <= ConfiguredSize
==============================================================================
