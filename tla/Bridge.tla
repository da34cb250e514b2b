------------------------------- MODULE Bridge -------------------------------
(***************************************************************************)
(* The requests of the bridge: POST /report through authentication,        *)
(* validation, the rate limit, Converter, Parser and Reporter, and         *)
(* POST /report/file, which runs the Reporter alone.  Requests are served  *)
(* concurrently; each awaits the sidecar, its parse and Gemini in turn.    *)
(*                                                                         *)
(* The sidecar answers as Converter says, parse asks Gemini and returns    *)
(* what ParserService shows it does, and generate_json ends as             *)
(* GeminiClient promises.  slowapi counts, per address and per minute, the *)
(* requests that reach the endpoint's function.                            *)
(***************************************************************************)
EXTENDS TagHandlers, Sequences

CONSTANTS
    Request, Address,
    Report,         \* the POST /report requests: [auth, tag, fetch_all, start, end]
    Upload,         \* the POST /report/file requests: [auth, tag, parsed], where parsed
                    \* is a ParsedCollection or the error of an unusable file
    Diaries,        \* the days the diary may have
    Scenes,         \* a diary, and of every request what it is and where it comes from;
                    \* NoRequest if it never arrives
    Hybrid,         \* hybrid_classifier_enabled: the parser may ask Gemini
    RateLimit,      \* rate_limit_per_minute
    MaxItems,       \* bound on the items of a day
    NoRequest

ASSUME LimitAssumption ==
    RateLimit \in Nat \ {0} /\ MaxItems \in Nat \ {0} /\ Hybrid \in BOOLEAN

ASSUME DiariesAssumption == \A days \in Diaries : days \subseteq Int /\ IsFiniteSet(days)

\* ReportRequest and ParsedCollection have validated their fields: the tag of an
\* upload, and the sign of its entry_count, are anything.
ASSUME RequestAssumption ==
    /\ Report \subseteq [auth : {"valid", "missing", "unset"}, tag : Tag, fetch_all : BOOLEAN,
                        start : Int \cup {NoDate}, end : Int \cup {NoDate}]
    /\ \A b \in Upload : b.tag \in Tag /\ b.parsed.ok \in BOOLEAN
    /\ \A b \in Upload : b.parsed.ok => b.parsed.entry_count \in Int
    /\ \A b \in Upload : ~b.parsed.ok => b.parsed \in [ok : {FALSE}, status : 400..599, code : STRING]
    /\ Report \cap Upload = {} /\ NoRequest \notin Report \cup Upload

ASSUME SceneAssumption ==
    Scenes \subseteq [diary : Diaries, body : [Request -> Report \cup Upload \cup {NoRequest}],
                      address : [Request -> Address]]

VARIABLES
    diary,      \* the days of the diary
    route,      \* of each request: none yet, "/report" or "/report/file"
    body,       \* the request
    address,    \* and where it comes from
    phase,      \* what it awaits
    parsed,     \* its ParsedCollection, or the error of the legs so far
    handler,    \* what prepare made of it
    response,
    hits,       \* slowapi: the requests counted in this minute
    sent,       \* history: the calls made for the request, those of Gemini by
                \* what they are for: "classify" its sentences, or the "report"
    reply       \* history: what the sidecar replied

vars == <<diary, route, body, address, phase, parsed, handler, response, hits, sent, reply>>

Nothing == [ok |-> FALSE, status |-> 0, code |-> ""]
NoReply == [kind |-> "none"]

Init ==
    /\ \E scene \in Scenes :
         diary = scene.diary /\ body = scene.body /\ address = scene.address
    /\ route = [r \in Request |-> "none"]
    /\ phase = [r \in Request |-> "none"]
    /\ parsed = [r \in Request |-> Nothing]
    /\ handler = [r \in Request |-> Nothing]
    /\ response = [r \in Request |-> Nothing]
    /\ hits = [a \in Address |-> 0]
    /\ sent = [r \in Request |-> {}]
    /\ reply = [r \in Request |-> NoReply]

Respond(r, answer) ==
    /\ phase' = [phase EXCEPT ![r] = "done"]
    /\ response' = [response EXCEPT ![r] = answer]

Await(r, what) == phase' = [phase EXCEPT ![r] = what] /\ UNCHANGED response

Call(r, service) == sent' = [sent EXCEPT ![r] = @ \cup {service}]

\* prepare, then the call of Gemini or the error.
Generate(r, collection) ==
    LET prepared == prepare(collection, body[r].tag)
    IN  IF prepared.ok
          THEN /\ handler' = [handler EXCEPT ![r] = prepared]
               /\ Await(r, "gemini")
               /\ Call(r, "report")
          ELSE Respond(r, prepared) /\ UNCHANGED <<handler, sent>>

Arrive(r, on) ==
    /\ route[r] = "none"
    /\ route' = [route EXCEPT ![r] = on]
    /\ UNCHANGED <<diary, body, address, reply>>

\* verify_internal_api_key
AuthError(b) ==
    IF b.auth = "unset" THEN Error(503, "auth_misconfigured") ELSE Error(401, "unauthorized")

\* Refused before the endpoint's function runs, and not counted by slowapi.
Refuse(r) ==
    /\ body[r] \in Report
    /\ Arrive(r, "/report")
    /\ body[r].auth # "valid" \/ ~is_valid_tag(body[r].tag)
    /\ Respond(r, IF body[r].auth # "valid" THEN AuthError(body[r]) ELSE Error(422, ""))
    /\ UNCHANGED <<parsed, handler, hits, sent>>

Admissible(r) ==
    /\ body[r] \in Report
    /\ Arrive(r, "/report")
    /\ body[r].auth = "valid" /\ is_valid_tag(body[r].tag)
    /\ UNCHANGED <<parsed, handler>>

\* Mutant: off by one.
UpToLimit(r) == hits[address[r]] <= RateLimit

WithinLimit(r) == hits[address[r]] < RateLimit

Limited(r) ==
    /\ Admissible(r)
    /\ ~WithinLimit(r)
    /\ Respond(r, Error(429, "rate_limit"))
    /\ UNCHANGED <<hits, sent>>

\* The limit counts it, then _fetch_raw calls the sidecar or fails on the window.
Admit(r) ==
    /\ Admissible(r)
    /\ WithinLimit(r)
    /\ hits' = [hits EXCEPT ![address[r]] = @ + 1]
    /\ IF Underflows(body[r]) \/ Inverted(Window(body[r]))
         THEN /\ Respond(r, IF Underflows(body[r]) THEN Error(500, "")
                            ELSE Error(502, "converter_error"))
              /\ UNCHANGED sent
         ELSE Await(r, "sidecar") /\ Call(r, "sidecar")

\* Mutant: a failed fetch is repeated until it succeeds.
FetchRepeated(r, answer) ==
    LET raw == Fetched(answer, Window(body[r]))
    IN  /\ phase[r] = "sidecar"
        /\ answer \in Replies(diary, Window(body[r]))
        /\ IF raw.ok
             THEN Await(r, "parser")
             ELSE UNCHANGED <<phase, response>>
        /\ parsed' = [parsed EXCEPT ![r] = raw]
        /\ reply' = [reply EXCEPT ![r] = answer]
        /\ UNCHANGED <<diary, route, body, address, handler, hits, sent>>

\* The sidecar's answer, or none in time.
FetchEnds(r, answer) ==
    LET raw == Fetched(answer, Window(body[r]))
    IN  /\ phase[r] = "sidecar"
        /\ answer \in Replies(diary, Window(body[r]))
        /\ IF raw.ok
             THEN parsed' = [parsed EXCEPT ![r] = raw] /\ Await(r, "parser")
             ELSE Respond(r, raw) /\ UNCHANGED parsed
        /\ reply' = [reply EXCEPT ![r] = answer]
        /\ UNCHANGED <<diary, route, body, address, handler, hits, sent>>

\* parse asks Gemini about the sentences of an entry no keyword decides, whatever
\* the tag of the request.
ParserAsks(r) ==
    /\ Hybrid
    /\ phase[r] = "parser" /\ parsed[r].entries # {}
    /\ Call(r, "classify")
    /\ UNCHANGED <<diary, route, body, address, phase, parsed, handler, response, hits, reply>>

\* parse returned: a tree of at least one item for every day of an entry, and the
\* range of the collection, or of its entries where it has none.
ParseEnds(r, items) ==
    LET raw == parsed[r]
        collection == [ok |-> TRUE, entry_count |-> Cardinality(raw.entries),
                       start |-> Or(raw.start, Least(raw.entries)),
                       end |-> Or(raw.end, Greatest(raw.entries)), by_date |-> items]
    IN  /\ phase[r] = "parser"
        /\ parsed' = [parsed EXCEPT ![r] = collection]
        /\ UNCHANGED <<diary, route, body, address, hits, reply>>
        /\ IF collection.entry_count = 0
             THEN Respond(r, Error(404, "no_entries")) /\ UNCHANGED <<handler, sent>>
             ELSE Generate(r, collection)

\* generate_json ended: the answer is rendered, or the request fails.
GeminiEnds(r, ending) ==
    /\ phase[r] = "gemini"
    /\ Respond(r, Reported(ending, body[r].tag, handler[r]))
    /\ UNCHANGED <<diary, route, body, address, parsed, handler, hits, sent, reply>>

\* POST /report/file: its tag is validated by prepare only, nothing is counted.
UploadReport(r) ==
    LET upload == body[r]
    IN  /\ upload \in Upload
        /\ Arrive(r, "/report/file")
        /\ IF upload.auth # "valid" \/ ~upload.parsed.ok
             THEN /\ Respond(r, IF upload.auth # "valid" THEN AuthError(upload) ELSE upload.parsed)
                  /\ UNCHANGED <<parsed, handler, sent>>
             ELSE /\ parsed' = [parsed EXCEPT ![r] = upload.parsed]
                  /\ Generate(r, upload.parsed)
        /\ UNCHANGED hits

\* slowapi: the minute of an address is over.
NextMinute(a) ==
    /\ hits' = [hits EXCEPT ![a] = 0]
    /\ UNCHANGED <<diary, route, body, address, phase, parsed, handler, response, sent, reply>>

Receive(r) == Refuse(r) \/ Limited(r) \/ Admit(r) \/ UploadReport(r)

Serve(r) ==
    \/ /\ phase[r] = "sidecar"
       /\ \E answer \in Replies(diary, Window(body[r])) : FetchEnds(r, answer)
    \/ ParserAsks(r)
    \/ /\ phase[r] = "parser"
       /\ \E items \in [parsed[r].entries -> 1..MaxItems] : ParseEnds(r, items)
    \/ \E ending \in Endings : GeminiEnds(r, ending)

Next == (\E r \in Request : Receive(r) \/ Serve(r)) \/ (\E a \in Address : NextMinute(a))

Spec == Init /\ [][Next]_vars

\* Every await ends: httpx gives up after http_timeout_seconds, parse returns
\* (ParserService!ParseReturns) and generate_json ends (GeminiClient!KeepsPromise).
FairSpec == Spec /\ \A r \in Request : WF_vars(Serve(r))

------------------------------------------------------------------------------
(* Properties.                                                               *)

TypeOK ==
    /\ diary \in Diaries
    /\ route \in [Request -> {"none", "/report", "/report/file"}]
    /\ body \in [Request -> Report \cup Upload \cup {NoRequest}]
    /\ address \in [Request -> Address]
    /\ phase \in [Request -> {"none", "sidecar", "parser", "gemini", "done"}]
    /\ hits \in [Address -> 0..RateLimit]
    /\ sent \in [Request -> SUBSET {"sidecar", "classify", "report"}]
    /\ \A r \in Request : phase[r] = "none" <=> route[r] = "none"
    /\ \A r \in Request : phase[r] = "done" <=> response[r] # Nothing

Failed(r, code) == phase[r] = "done" /\ ~response[r].ok /\ response[r].code = code

\* Whether a day is in the range of a POST /report, by the words for its parameters:
\* "default is the last 30 days" (README.md:224), and a range with one end is filled
\* "with a 30-day window" (routes.py:109), read as n days.
InRange(b, n, d) ==
    \/ b.fetch_all
    \/ b.start = NoDate /\ b.end = NoDate /\ Within(d, Lookback, Today)
    \/ b.start # NoDate /\ b.start <= d /\ d <= Or(b.end, Today)
    \/ b.start = NoDate /\ b.end # NoDate /\ Within(d, n, b.end)

\* What it is to report on: for a day's tag, of these the day it names.
AsksFor(b, n, d) == InRange(b, n, d) /\ (b.tag.kind = "day" => d = b.tag.day)

DaysInRange(r, n) == {d \in diary : InRange(body[r], n, d)}
AskedDays(r, n) == {d \in diary : AsksFor(body[r], n, d)}

\* Gemini is paid for nothing that is refused, limited, failed or empty: neither to
\* classify a sentence nor for the report.  The parser knows the range and not the
\* tag, so what it pays for need not be reported on; the report is asked for only if
\* there is something of the tag to report (OWASP API4).
GeminiPaidWithCause ==
    \A r \in Request :
        /\ sent[r] \cap {"classify", "report"} # {} =>
             /\ body[r].auth = "valid" /\ is_valid_tag(body[r].tag)
             /\ route[r] = "/report" =>
                  "sidecar" \in sent[r] /\ \E n \in Readings : DaysInRange(r, n) # {}
        /\ "classify" \in sent[r] => route[r] = "/report"
        /\ "report" \in sent[r] =>
             /\ parsed[r].ok /\ parsed[r].entry_count # 0
             /\ body[r].tag.kind = "day" => body[r].tag.day \in DOMAIN parsed[r].by_date
             /\ route[r] = "/report" => \E n \in Readings : AskedDays(r, n) # {}

\* What a report says of itself is true of the diary: it counts the days asked
\* for and its range covers them, through the sidecar's range, the Converter's
\* fallbacks and the Parser's metadata; a day's report is of that day.
ReportDescribesDiary ==
    \A r \in Request : phase[r] = "done" /\ route[r] = "/report" /\ response[r].ok =>
        \E n \in Readings :
            LET report == response[r]
                tag == body[r].tag
            IN  /\ report.start # NoDate /\ report.end # NoDate
                /\ \A d \in AskedDays(r, n) : report.start <= d /\ d <= report.end
                /\ tag.kind = "section" => report.entry_count = Cardinality(AskedDays(r, n))
                /\ tag.kind = "day" =>
                     /\ AskedDays(r, n) = {tag.day}
                     /\ report.start = tag.day /\ report.end = tag.day
                     /\ report.entry_count > 0

\* The prompt of a report is about what was asked: the days of the window, or the day
\* of the tag, and of them the bucket of the tag ("the single-axis tags trim the prompt
\* to one bucket", README.md:275-276) with every category its template asks for.
PromptIsWhatWasAsked ==
    \A r \in Request : "report" \in sent[r] =>
        LET payload == handler[r].prompt.payload
            tag == body[r].tag
        IN  /\ route[r] = "/report" => \E n \in Readings : payload.days = AskedDays(r, n)
            /\ handler[r].prompt.asks \cap Category \subseteq payload.categories
            /\ tag.kind = "section" /\ tag.name # "/detail" =>
                 Cardinality(payload.categories) = 1

\* Every field the template had Gemini write is in the report, and none that it
\* was not asked for: template, slice and renderer are picked in three places.
ReportShowsWhatWasAsked ==
    \A r \in Request : phase[r] = "done" /\ response[r].ok =>
        response[r].shows = response[r].prompt.asks

\* A 404 tells what the sidecar said of the diary: never is an outage, a refusal or a
\* body that is no journal taken for an empty one, and no day of the range is lost on
\* the way.  One body is: a JSON object without "entries" (README, section 6).
NotFoundMeansNotThere ==
    \A r \in Request : route[r] = "/report" =>
        /\ Failed(r, "no_entries") \/ Failed(r, "date_not_in_range") =>
             reply[r] = OtherObject \/ reply[r].kind = "entries"
        /\ reply[r].kind = "entries" =>
             /\ Failed(r, "no_entries") => DaysInRange(r, Lookback) = {}
             /\ Failed(r, "date_not_in_range") => AskedDays(r, Lookback) = {}

\* Every request is answered, whatever the sidecar and Gemini do.
EveryRequestAnswered == \A r \in Request : route[r] # "none" ~> phase[r] = "done"

\* "For /date{...} tags date_range is ignored - the date inside the tag defines the
\* window" (README.md:225-226): a day of the diary is found by its tag.
DateTagDefinesWindow ==
    \A r \in Request :
        /\ route[r] = "/report" /\ reply[r].kind = "entries" /\ body[r].tag.kind = "day"
        /\ Failed(r, "no_entries") \/ Failed(r, "date_not_in_range")
        => body[r].tag.day \notin diary

\* "For per-request override we prepend it" (ai_client.py:68-69): the system prompt
\* is part of what Gemini is sent for a report.
SystemPromptSent ==
    \A r \in Request : "report" \in sent[r] =>
        SYSTEM_PROMPT \in Contents(SYSTEM_PROMPT, handler[r].prompt)

\* "AI output validated with Pydantic" (README.md:295): what Gemini answers never
\* makes the bridge fail in a way it does not handle.
AIOutputValidated ==
    \A r \in Request : phase[r] = "done" /\ "report" \in sent[r] /\ ~response[r].ok =>
        response[r].status # 500
==============================================================================
