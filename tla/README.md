# Journal AI Reporter: the TLA+ project

The repository is a bridge: a client sends a tag, the bridge fetches journal
entries from the Cornell sidecar, sorts their sentences into a fixed tree of
categories, has Gemini write a report from a part of that tree, and returns it.
This directory models that program in TLA+, checks the models with TLC on small
instances, and proves the most important of their invariants with TLAPS for
instances of any size. Paths below are relative to the repository root.

## 1. Inventory

| Part | State | Operations | Interacts with |
| --- | --- | --- | --- |
| Classification cache `src/modules/parser/cache.py` | an OrderedDict of at most `max_size` keys | get, set, clear | owned by the hybrid classifier, shared by all sentences of a parse |
| Hybrid classifier `hybrid_classifier.py` | counters, the cache | classify | cache, keyword layer, LLM classifier (awaited) |
| LLM classifier `llm_classifier.py` | none | classify, `_parse_payload` | Gemini client (awaited) |
| Keyword layer `keyword_patterns.py`, legacy catalogue `categorizer.py` | none: tables of regular expressions | match_keywords, classify_sentence, split_sentences, fallback_subcategory | called by the classifier and the parser, on text the sidecar put together |
| Parser service `parser/service.py` | the tree over all entries and one per day, of one call | parse | one classify task per distinct sentence of an entry, in `asyncio.gather` |
| Gemini client `reporter/ai_client.py` | the SDK's model, one for each client; jobs on asyncio's thread pool | generate_json | SDK calls in threads under `wait_for` |
| Reporter `reporter/service.py`, `tag_handlers.py`, `schemas.py` | none | prepare, generate, renderers | Gemini client |
| Prompts `reporter/prompts.py` | none: templates | build_user_prompt | filled by prepare, sent by the client's backend |
| Converter `converter/service.py`, `client.py` | none | fetch, fetch_last_days, fetch_all, `_normalize` | one GET to the sidecar |
| HTTP surface `api/routes.py`, `dependencies.py`, `limiter.py`, `middleware.py`, `main.py` | slowapi's hits by address and minute | POST /report, POST /report/file, GET /tags, GET /health | all of the above, built anew for every request |
| Errors `exceptions.py` | none | a status and a code for every domain error | raised everywhere, mapped by `middleware.py` |
| Cornell sidecar `cornell_journal_api/src/` | an asyncpg pool of at most five, or None; its own hits | lifespan, GET /api/entries | PostgreSQL, which the Diary application writes |
| Mock of the sidecar `scripts/seed_mock_data.py` | fixture entries | GET /api/entries | stands in for the sidecar |
| Configuration, logging, other scripts | settings | | |

A request crosses the parts in one order: authentication, validation of the
body, rate limit, sidecar, parse, Gemini, rendering. Three of these steps await
something that may be slow, fail or answer nonsense.

### What makes each part correct, and what makes that hard

* **Cache.** The victim at the limit is the key used longest ago. Hard: overwrites
  and hits promote, one key stands for several spellings.
* **Parse.** Every sentence is filed, once per hit, under a category it earned;
  the cache holds nothing that may not be reused; the counters and the day
  trees agree with the rest. Hard: the tasks of an entry read the cache, await
  the LLM and write the cache, in any order; any of the calls may fail; the same
  text may be in flight twice in two spellings.
* **Gemini client.** A call ends, once, in an answer or a domain error; only
  texts that are not JSON are retried. Hard: a timeout does not stop the thread,
  late answers arrive, abandoned threads fill the pool.
* **Converter and HTTP surface.** A report and a 404 tell the truth about the
  diary; Gemini is paid with cause, for the sentences of a range that has some and for
  a report that has something to say; every request is answered. Hard: the
  window is computed in three places with inclusive ends and fallbacks, the tag
  is looked at after the fetch and, in hybrid mode, after Gemini has classified, an
  outage must not look like an empty diary, and errors come from six sources.
* **Catalogues.** No word of the diary is lost between the column and the rules, a
  task stays with its box, and a HIGH hit, which no LLM corrects, means what it says.
  Hard: lines, end marks, boxes and cue titles cut the text in every combination;
  denials contain the stems of their opposites; every rule is tried, in two catalogues
  that were written apart.
* **Prompt and report.** Gemini is given what was asked for and all it answers is
  shown. Hard: template, slice and renderer of a tag are picked in three places.
* **Sidecar.** Every request is answered, with the days asked for as they stood at one
  moment. Hard: start-up before the database, five connections for any number of
  requests, failures while connecting, waiting and fetching, a diary that changes.

Every hazard is listed with its line in PROJECT.json, with the properties aimed
at it or the reason why there is none yet.

## 2. Modules

```
LRUCache <--refines-- CacheHistory --extends--> ClassificationCache
                                                   ^ INSTANCE
GeminiPromise <--refines-- GeminiClient        ParserService <--catalogues-- MCParserService
                                  \  (promises used by)  /                      | INSTANCE
   Prompts <-extends- TagHandlers <-extends- Bridge              Diary -extends-> Categorizer
                           | extends
   SidecarPromise -extends-> Converter <-extends- Sidecar --refines--> SidecarPromise
```

**ClassificationCache** has the OrderedDict as `store` (the map) and `order` (its
keys, least recently used first). `Get`, `Set` (`Overwrite`, `Insert`,
`InsertAndEvict`) and `Clear` are the methods. A sentence is a normalised text and
a spelling, and `Key` forgets the spelling, as `_key` does. The sha256 prefix is
taken to be free of collisions.

**LRUCache** is what the docstring of cache.py promises, with a date on every use
in place of an order. **CacheHistory** adds those dates to the cache as history
variables, so that the cache can be shown to implement the promise.

**ParserService** is one call of `parse`. `OpenEntry` collects the distinct
sentences of the next entry and starts `gather`; each task then takes one step up
to its first await (`ClassifyLegacy`, `CacheHit`, `AcceptHigh`, `KeywordsOnly`,
`AskLLM`, or `LLMFailsAtOnce` when the client fails before it awaits) and, if it
asked the LLM, one more when the answer resumes it (`LLMFails`, `LLMAnswers`).
Between two awaits a coroutine is not interrupted, so each of these is one action
with all it does: counters, cache, result. The tasks start in order, before any
answer can resume one; they resume in any order. `CloseEntry` zips the results
with the sentences and files the items in both trees, `OpenEmptyEntry` files the
placeholder, `Finish` builds the metadata. The catalogues are
constants of the module (`High`, `Medium`, `Legacy`, `BySize`): what is proved of it
holds for any catalogue. MCParserService takes them from Categorizer, for sentences
that fire a HIGH rule, only a MEDIUM one, and none. It has the cache as `INSTANCE ClassificationCache`, with the size the
constructor of the classifier really gives it (`CacheSize`).

**GeminiClient** is several calls of `generate_json`. An attempt is a job: queued,
on a thread, or returned. `Begin` and `BadText` submit one, `StartJob` gives it a
thread, `JobEnds` returns what the SDK said, `Answered`, `BadText` and `Raised`
are the ways the coroutine resumes, `Expire` is the timer of `wait_for`, which may
fire at any moment. Cancelling takes a job out of the queue and never off a thread.
`ModelFails` is `_ensure_model` raising. A call belongs to a client (`ClientOf`) and each
client builds a model of its own (`modelReady`): a request has one client for all its
sentences and another for its report. **GeminiPromise** is what callers may rely
on: one ending for every call, an answer or one of three exceptions.

**Categorizer** has the text functions as operators and no state. A text is a
sequence of lines, a line a sequence of tokens, a token a word form and what follows
it (a space, a wider gap, a colon, the end of a sentence). The rules of the four
catalogues list the forms their patterns match; the vocabulary has a form for every
pattern and every guard that differs from the others, the denied and the misleading
ones among them: "korkmuyorum" and "başarısız", which the guards know, "korkutmadı",
"kaygılanmıyorum", "endişelenmiyorum" and "paniklemedim", which they do not, and "wonder"
for the keyword "won". Forms
are in ASCII and stand for every spelling the patterns treat alike. `split_sentences`,
`classify_sentence`, `fallback_subcategory`, `HighMatches` and `MediumMatches`
(match_keywords by confidence) and `CueLine` (row_to_entry_dict) keep the code's
structure. The splitter cuts a line at the tokens a sentence ends with (`Ends`), and the
rules that fire are taken in the order of the catalogue; both are `InOrder` of a set of
numbers, which is easier to reason about than the loop it stands for. The table was compared with the program's regular expressions over 94,005
sentences and 60,000 texts of these forms, without a difference. **Diary** writes a
column token by token and asks at every moment what the catalogues find in it; it is
an environment, not code.

**Converter** has, as functions, the window of a request (`Window`), the rows the
sidecar returns for it (`Rows`, `Derived`), all it may reply (`Replies`) and what
the client and the service make of a reply (`Fetched`). A body that is not the
sidecar's may be no JSON, no object, an object with a field of another type, or an
object without "entries" (`OtherObject`), which `_normalize` takes for an empty journal.
`Within` and `Readings` are on the side of the specification: the docs say "30 days",
and the code goes back 30 days from a date in some places, which is 31 dates, and takes
30 dates in another.

**Prompts** knows a template by the fields it asks for, a renderer by those it shows
and a slice of the journal by its days and categories. **TagHandlers** has `prepare`,
with the slice and the prompt of a tag, `Renderer`, and what becomes of an ending of
Gemini (`Reported`). **Bridge** puts them in the order of the two routes: `Refuse`
(authentication, validation), `Limited`, `Admit`, `FetchEnds`, `ParserAsks`,
`ParseEnds`, `GeminiEnds`, `UploadReport`, and `NextMinute` for slowapi's window.
`ParserAsks` is the LLM classifier: in hybrid mode the parser may call Gemini about the
sentences of any entry it was given, before anybody looks at the tag. A response is its
status and code, or the range, the entry count and the fields of the report. Two history
variables remember the calls made for a request, those of Gemini by their purpose
(`sent`), and what the sidecar replied (`reply`). A scene (`Scenes`) is a diary with the
requests that may come to it and their addresses; the first state picks one. The
bridge relies on what the other modules establish and does not repeat them: `parse`
returns a tree with an item for every day of an entry (`TreesAgree`, `NothingLost`,
`ParseReturns`), `generate_json` ends as `GeminiPromise` says, the sidecar replies as
`AnswersAsRelied` says. A diary is a set of days, with one row a day, as the sidecar's
id derived from the date supposes.

**Sidecar** is the other process: `Boot` builds the pool or leaves it None until the
next start, `Shutdown` waits for the requests that are running. `Refuse`, `Limited` and
`Admit` are a request up to its first await; then `Acquire` or `AcquireFails`, then
`FetchReturns` or `FetchFails`. A failure is a 503 if it is of the kinds the handler
catches and an unhandled 500 if not (`Failure`). The queries are all that the endpoint takes, not only
those of the Converter. `DiaryChanges` is the Diary application at work. asyncpg is
modelled by what db.py expects of it: `acquire` gives a free connection to any waiter,
connecting and fetching may raise at any time, and leaving `async with` releases.
`MockServed` is the mock endpoint. **SidecarPromise** is what a caller sees: a request
is answered, once, with exactly the days it asks for as they stood at one moment, or
with a refusal it can be blamed for. Its words for the default, "the last 30 days", may be
read as 30 dates or as the dates since 30 days ago, and an answer keeps to one reading. Sidecar refines it with the pool, the limiter and
the phases hidden.

The modules named `...Proofs`, and DataLemmas, are described in section 4.

The MC modules give the constants their values. The definitions whose comment
begins with "Mutant" are plausible bugs of the definition that follows them;
PROJECT.json says which property each of them breaks.

## 3. Runs

| Run | Instance | Shows |
| --- | --- | --- |
| cache_lru | 3 texts, 2 spellings, 2 verdicts, 2 places, 6 counted calls | HInv (types, bound, one place per key, order = recency), RefinesLRU |
| parse | 683 collections of up to three entries from 5 sentences, 3 modes, 8 payloads, 2 places in the cache | the ten properties of the parse |
| gemini_calls | 3 calls of 2 clients, 2 threads, 3 attempts, fairness | what is retried, how calls end, what they leave in the pool, KeepsPromise |
| bridge | every tag, range, fetch_all and upload over 16 diaries, and 2 overlapping requests from 1 or 2 addresses under a limit of 1; every reply and ending | TypeOK with the limit, GeminiPaidWithCause, ReportDescribesDiary, NotFoundMeansNotThere, PromptIsWhatWasAsked, ReportShowsWhatWasAsked, EveryRequestAnswered |
| sidecar | 3 requests on 2 connections under a limit of 2, 10 queries, 2 diaries | TypeOK with the limit, ConnectionsAccounted, MockStandsIn, AnswersAsRelied, ImplementsPromise |
| catalogue | every text of up to 3 tokens of 15 forms on up to 3 lines, 3 cue titles | EveryWordKept, TaskStaysWhole, CuesKeepFindings, WritingKeepsFindings |
| the six others | | one disagreement each, section 6 |

The properties in words:

* *HInv, RefinesLRU*: the front of the order is the key used longest ago, and seen
  through its replies the cache is the LRU map.
* *CacheHonest*: a cached verdict is the HIGH keywords of the text or an answer the
  LLM really gave for it; an outage leaves no trace.
* *EveryItemEarned*: whatever order answers come in and whichever fail, an item is
  in a bucket its own sentence earned.
* *NothingLost*: the texts filed for an entry are exactly its texts, once per hit.
* *TreesAgree*, *MetadataAgrees*: the day trees are the whole tree by date, the
  metadata counts and covers them.
* *NoNeedlessCall*: the LLM is not asked about HIGH keywords, nor again about a text
  an earlier entry got an answer for while the cache had room.
* *StatsAddUp*: every sentence is counted by exactly one counter.
* *OverwrittenBySpellingOnly*: a cached verdict changes only by the answer to another
  spelling asked about before the first answer came.
* *OnlyBadTextRetried*, *EndsAsLastSeen*, *OneJobPerCall*, *AbandonedOnThreadsOnly*,
  *KeepsPromise*: section 2, Gemini client.
* *GeminiPaidWithCause*: no call of Gemini, to classify or to report, for a request that
  is refused, limited, failed or without a day in its range; none for the report if the
  tag names no day or one that is not there. The parser does not know the tag, so it may
  have paid for sentences of other days by then, and the property says no less.
* *ReportDescribesDiary*: the range and the count of a report are those of the days
  asked for, by the words of the docs for the parameters: 30 dates for a request
  without a range, and for one with an end alone either reading of "30 days".
* *NotFoundMeansNotThere*: a 404 rests on what the sidecar said: it is never an outage, a
  refusal or a foreign body taken for an empty diary, nor a day lost at the edge of a
  window. An object without "entries" is the one exception, and it is named as such.
* *PromptIsWhatWasAsked*: the prompt holds the days of the window, or the day of the
  tag, with every category its template asks for and, for the tags of one axis, no other.
* *ReportShowsWhatWasAsked*: every field a template asks for is rendered, and no other.
* *ConnectionsAccounted*: however requests end, a connection is free or with a request
  that is fetching; none leaks.
* *AnswersAsRelied*: what the sidecar answers the Converter is one of the replies the
  bridge is checked with, and true of the diary at that step.
* *ImplementsPromise*: the refinement of SidecarPromise, its liveness included.
* *MockStandsIn*: for all the Converter asks, the mock answers as the sidecar does.
* *EveryWordKept*: the sentences are the text, word for word, and none is blank.
* *TaskStaysWhole*: a line with a checkbox is one sentence and a todo in that state.
* *WritingKeepsFindings*: no word written later takes a finding back.
* *CuesKeepFindings*: what is found in a text is found in the cue line made of it.

**Bounds.** Three texts and two places are the least in which a promoted key, an
overwritten key, a victim and a newcomer differ; six calls fill the cache, promote,
overwrite and evict twice. `MaxCalls` bounds only the counted calls of CacheHistory.
The texts of the parse are one per answer of the keyword layer, two of them in two
spellings so that two tasks can be in flight for one slot; three entries let a day
return after another and a third text evict. Payloads are one per way of
`_parse_payload`. Three calls on two threads let one wait in the queue behind two
abandoned ones, for good if their SDK calls never return. The
calendar of the bridge is the days 0 to 6 with today 5 and a lookback of two days:
a day of the diary may be before, inside, at either edge of or after a window, on
the date in which the two readings of "30 days" differ, and a filled-in day may fall
off the calendar, which is a 500 that liveness must reach too. `MaxItems` bounds the
items of a day's tree, of which only "at least one" matters, and is 1. The bridge keeps
no state for one request that another reads except the hits of its address, so two
requests show all their interplay: a scene has one request of any kind over any diary,
or two of a few kinds over two diaries.

Two connections are the least of which one can be lost, three requests let one wait
behind both. The ten queries have each end missing or given, an inverted pair, one
before the calendar, and the three states of the key; a diary has an entry on the first
date of the default window and of the window of an end alone. Three tokens hold the longest phrase of
a rule ("ilk kez" and a past tense), a box with two sentences behind it, and a phrase cut
at each place; colons and wider gaps come with the cue lines and with the spellings of
MCParserService. `ReflectionMinWords` stands for REFLECTION_MIN_CHARS and counts words.

**Fairness.** *parse*: `WF(Next)`, because the event loop runs what is ready and
every awaited call of the LLM ends, which is what gemini_calls shows.
*gemini_calls*: weak fairness of each call's timer and of its resumption, which is
the event loop's, and none for the pool: the SDK may never return and queued jobs
may never start. *bridge*: weak fairness of each admitted request's next
step: httpx gives up after `http_timeout_seconds`, parse and generate_json end by
the runs above. A request that never arrives and a minute that never ends are
allowed. *sidecar*: weak fairness of each running request's next step: `connect` and
`fetch` are bounded by asyncpg's timeouts (`command_timeout=10`), and a connection
that is free wakes a waiter. `acquire` itself has no timeout and may be overtaken;
that everyone is served rests on the number of requests being finite. Starting,
stopping, arriving, writing and the minute are not fair.

`CHECK_DEADLOCK` is on except for Diary: a parse that returned and a quiet client
stutter explicitly (`Returned`, `Quiet`), a text that has reached its bound is just
finished. Anything else that stops is an error.

## 4. Theorems

All proofs are in modules of their own and use only the named assumptions on the
constants: sizes are positive naturals, a miss is no verdict, the keyword layer
returns valid pairs, a fault is no text, a call has a client, days are integers, "no date" is no day, "no
query" no query and "no request" no request, a diary is a finite set of days, a title
and a text are made of tokens, a list the LLM sends has pairs and malformed elements.
One says more: `RangeAssumption`, that a collection's range is around its entries.
parse is called with what the Converter returns, and that its range is around its rows
is proved (`NormalizedCovers` in BridgeProofs).

**DataLemmas** has what several proofs need of data: least and greatest elements of a
finite set of integers, induction up to a number through the set of those reached
(`UpTo`), and what `FlattenSeq` does. It is defined by recursion; that its partial
results are the concatenations of the first elements is shown by walking up the indices
where they are (`FlattenBy`, `FlattenExists`), and from there on its definition is not
opened again.

* **ClassificationCacheProofs, CacheHistoryProofs.** `CacheInv` (types, bound, one
  place per key) is inductive by itself. The proof's substance is that removing a
  key's only place and appending it keeps places unique, that Head is cached when
  the cache is full, and that the range loses exactly the victim.
  `HistoryInvariant` adds that dates increase along the order; from it
  `CacheRefinesLRU` follows: the front has the least date, so the eviction is one
  the abstract map allows, and the number of held keys equals `Len(order)`.
* **ParserServiceProofs.** `CacheHonest` and `EveryItemEarned` are not inductive: between
  a task's return and the zip its result waits outside both. `IInv` adds `ResultsEarned`
  (every finished task holds a result its own sentence has earned, whatever the cache
  holds by now), `AskingIsUndecided` (a task awaits the LLM only with the keywords
  undecided), the types and the cache's invariant. `ParserTypes`, `CacheStaysHonest` and
  `ItemsAreEarned` follow; `TreesAgree` is inductive over the types and is proved apart
  (`DayTreesAgree`). On top of `IInv`:
  * `NothingIsLost` needs, of the entry at work, that the tasks are its distinct
    sentences in order and a finished task holds at least one hit: what is filed at the
    close is then the texts of the entry, whatever the hits are.
  * `MetadataOfTrees` adds that only the entries behind have items (`ItemsOfClosed`) and
    what `Finish` concluded (`Concluded`).
  * `OverwrittenBySpelling` is the action property. Its invariant `RaceIsOfSpellings` says
    that a verdict present while a task awaits the LLM for the same key was put there by
    another task of the entry, of another spelling.
  * `NoCallIsNeedless` counts: with a place for every text the cache never evicts,
    because its keys are among the texts seen, so an answer once cached stays (`CallsInv`).
  * `CountersAddUp` relates each counter to the set of tasks that took its way
    (`CountsInv`); the sets are disjoint and their union is all that was classified.
* **GeminiClientProofs.** The properties need three facts they do not state: a
  result is kept only for the attempt that is awaited (`ReturnedAwaited`), every
  job anywhere belongs to a call that began and is not above its attempt (`PoolInv`),
  and the history of a pending call has one entry fewer than its attempt
  (`CallsInv`). Together they are inductive; a job of the current attempt and its
  result never coexist, which is why a retry finds no other job of its call in the
  pool. `ClientKeepsPromise` is the safety half of the refinement, step by step.
* **SidecarProofs.** `ConnectionsAccounted` and `TypeOK` need each other: a released
  connection fits the pool because its holder was counted, and one is acquired only while there is a
  pool. `IInv` is both, with `Sensible`: whoever waits or fetches has a valid key and a
  window that makes sense. From it follow `SidecarKeepsPromise`, the safety half of the
  refinement, with the lemma that the window fetched is the window asked for, and
  `AnswersAreRelied` and `MockAlwaysStandsIn`, with the lemma that for a query of the
  Converter the three windows are one. Requests, queries and diaries are any sets.
* **BridgeProofs.** The first part is about the functions of the Converter, for any
  calendar and finite diary: the first and the last day of a collection exist, the range
  that is echoed or read off the rows is around them, and a reply of the sidecar is normalised to
  the days of one reading of the range, or to an error, or is the object without entries.
  The second is the invariant of the bridge,
  `Shape` (types, and the hits within the limit) and `RequestInv` of every request: what is
  behind a request in each phase. None of the properties is inductive without it, because
  each relates a response to the diary through three legs: the fetch leaves the days
  asked for with a range around them (`Parsing`), the parser asks about these only
  (`Classified`), the parse files them by day and `prepare`
  takes from that the prompt and what it will answer (`Prompted`), an answer is what
  was prepared (`Answered`), and a 404 has the sidecar's reply behind it (`NotFound`).
  `TypeCorrect`, `GeminiHasCause`, `ReportIsTrueOfDiary`,
  `NotFoundIsTheDiarys`, `PromptIsOfWhatWasAsked` and `ReportShowsItsTemplate` follow, for any
  requests, addresses, diaries, uploads and limit.
* **DiaryProofs.** The state is lines of tokens and needs no more invariant than that
  (`Shape`): the substance is in the functions, for lines of any length. The ends of a line are
  its last token and the marks before, in order (`EndsFacts`), so the pieces between
  them are adjacent and flatten to the line (`PiecesFlatten`): `EveryWordIsKept`. No phrase of
  a catalogue has the end of a sentence inside (`LegacyCatalogue`, `HighCatalogue`,
  `MediumCatalogue`), so a rule fires on a line exactly if it fires on one of its
  sentences (`FiresOnSentence`): the findings of a text do not depend on how it is split.
  A line only grows at its end and a title only stands before it, so
  `WritingTakesNothingBack` and `TitlesTakeNothingBack` are the same fact. `TasksStayWhole` is
  about the rules themselves, for any words around.

Every invariant and every action property that a passing run checks is stated by a theorem.
**Only model-checked** are the temporal properties beyond safety: `ParseReturns`,
`EveryRequestAnswered` and the fairness halves of `KeepsPromise` and
`ImplementsPromise`, because liveness under fairness and ENABLED are out of the
prover's reach; and the counterexamples of section 6, which are what TLC finds. What
the theorems cannot reach is what is a parameter in them: that the rules of Categorizer are
those of the program's regular expressions was compared (section 2), not proved.

## 5. Not modelled

* *Text.* Turkish spelling and case folding, forms outside the vocabulary, the wording
  of prompts, `sanitize_user_content` and the Markdown around a field: data on which no
  control depends, except where a renderer can fail, which is modelled.
* *Rows.* Ids and timestamps of the entries.
* *Settings and logging.* Settings are read once and are constants here; logging and
  request ids change no state. GET /tags, GET /health and CORS answer the same always.
* *Lifetime of services.* dependencies.py builds a parser and its cache for every request,
  so each parse starts with the empty cache of `ParserService!Init`; no state of
  one request is seen by the next, and there is nothing to interleave.
* *Shutdown of the bridge*, where the threads left behind by timeouts are joined by the
  interpreter, and a client that disconnects.
* *Composition of parse and the thread pool.* `parse` is checked against the promise of
  generate_json and gemini_calls checks that promise on a crowded pool; a
  single state space with both is not built.
* *Other scripts and fixtures*, which are sequential.
* *Hash collisions* of the cache key.

## 6. Disagreements with the documentation

Each of these is a run that TLC must find violated.

| Run | The code | The text |
| --- | --- | --- |
| configured_size | an empty cache is false, so `cache or ClassificationCache()` drops the configured one (hybrid_classifier.py:43) | config.py:56, dependencies.py:67 |
| gemini_rate_limit | any message with the letters "rate" is a rate limit, "generateContent" too (ai_client.py:121) | README.md:71 |
| ai_output | a field of another type ends in an unhandled 500 (tag_handlers.py:66, 110) | README.md:295 |
| negation_trap | HIGH rules fire on denials: "korkutmadı" is a fear, "kaygılanmıyorum", "endişelenmiyorum" and "paniklemedim" are anxieties (keyword_patterns.py:152, 164, 165, 170), "sonunda başaramadım" is a success besides a failure, since every rule is tried and their order decides nothing (72-75) | parser/README.md:71-73, keyword_patterns.py:202-203 |
| date_tag_window | the day of a /date tag does not choose the window (routes.py:105): a day of the diary outside of it is a 404 | README.md:225-226 |
| system_prompt | the system prompt is sent with no call (ai_client.py:67) | ai_client.py:57, 68-69 |

Others were met while modelling and have no run of their own:

* An inverted range is a 502 (converter/service.py:37), where README.md:255 lists
  400 for an invalid range.
* "30 days" is two numbers. Without a range the bridge asks for 30 dates
  (converter/service.py:44-45), as README.md:224 says; the sidecar, which says "the last
  30 days" too (main.py:6-7), goes back 30 days from today and returns 31 dates
  (db.py:69), and so does the bridge for a range with an end alone (routes.py:111),
  where routes.py:109 says "a 30-day window". The properties allow both readings where
  the text does.
* A range with a start alone has any number of days, where routes.py:109 says the same.
* A JSON object without "entries", such as another service's error with status 200,
  becomes an empty journal and a 404 (converter/service.py:73). No line says what it
  should become; NotFoundMeansNotThere names it as the exception.
* In hybrid mode the parser pays Gemini for the sentences of the range before the tag is
  looked at (routes.py:74, dependencies.py:65-69), so /date{32.13.2026}, or a day that
  is not there, costs calls and then fails. No line says that it should not.
* /date{32.13.2026} passes the validator and is refused with 400 after the fetch, where
  README.md:258 lists 422; the 422 of an invalid tag is FastAPI's own body without the
  `code` that README.md:71-73 promises.
* The cache lives for one request (dependencies.py:67), where cache.py:8-9 says
  until the process restarts.
* The sidecar's comment at main.py:56-58 calls the pool lazy; a pool that could not be
  built stays None until the next start, however soon the database is back.
* split_sentences says that checkbox markers travel with their content. After a cue's
  title ("Plan: [ ] A. B."), after a bullet ("- [ ]") and for "[]" a line is split like
  any other, and only its first sentence keeps the marker.
* The legacy catalogue files "başarısız oldum" under achievements, and its substring
  keywords fire inside "unhappy", "wonder" and "abandoned".
* The comment on ALL_RULES gives the order "HIGH success; then HIGH fears/anxieties";
  the tuple has all HIGH concerns first. Neither order has an effect.
* No rule of the keyword layer files todos, so in hybrid mode a completed or deferred
  task is one only if the LLM says so, and its prompt does not offer those two.

* An uploaded collection is reported on whatever its metadata say: `entry_count`
  (parser/schemas.py:79) has no lower bound, so a report may be on -1 entries.

## 7. Plan

Done, in this order: the cache and its promise; the parse; the Gemini client and its
promise; converter, tag handlers and bridge; sidecar, its promise and its proofs;
catalogues; prompts; proofs of the parse, the bridge and the catalogues for every
property of their runs.

Next:

1. **The links between modules as theorems**: that what the bridge takes parse to return
   is what ParserService files for the diary's rows, and that an answer of the sidecar is
   among the replies the bridge is proved for, stated over one diary.
2. **Sharper safety halves of the liveness properties**: that every state of a parse and of a
   request from which nothing can move is a final one.
3. **Composition** of a parse with GeminiClient, with the calls of one entry sharing the
   pool.
