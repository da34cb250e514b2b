----------------------------- MODULE BridgeProofs -----------------------------
(***************************************************************************)
(* Bridge for any requests and addresses, any calendar and diaries, any    *)
(* uploads and any limit.                                                  *)
(*                                                                         *)
(* What a report says of the diary is established step by step: the fetch  *)
(* leaves the days in the range of the request with a range around them    *)
(* (Parsing), the parse may have some of them classified (Classified) and  *)
(* files them by day, prepare takes from that what it sends and will       *)
(* answer (Prompted), and an answer is what was prepared (Answered).  None *)
(* of the properties is inductive without these.                           *)
(***************************************************************************)
EXTENDS Bridge, DataLemmas

------------------------------------------------------------------------------
(* The Converter: the first and last day of a collection, and the range a    *)
(* reply is normalised to.                                                   *)

Date == Int \cup {NoDate}

\* min() and max() of the days of a non-empty list.
LEMMA FirstDayIsLeast ==
    ASSUME NEW days \in SUBSET Int, IsFiniteSet(days), days # {}
    PROVE  /\ FirstDay(days) \in days
           /\ \A e \in days : FirstDay(days) <= e
BY HasLeast DEF FirstDay

LEMMA LastDayIsGreatest ==
    ASSUME NEW days \in SUBSET Int, IsFiniteSet(days), days # {}
    PROVE  /\ LastDay(days) \in days
           /\ \A e \in days : LastDay(days) >= e
BY HasGreatest DEF LastDay

------------------------------------------------------------------------------
(* The range of a reply.                                                     *)

\* No window, or one with both ends: _fetch_raw never asks for half a window.
IsWindow(w) == w = All \/ (w.start \in Int /\ w.end \in Int)

\* The range is around the days, if there are any.
Covers(c, days) ==
    days # {} => c.start \in Int /\ c.end \in Int /\ \A d \in days : c.start <= d /\ d <= c.end

LEMMA WindowHasBothEnds ==
    ASSUME NEW asked, asked.start \in Date, asked.end \in Date
    PROVE  IsWindow(Window(asked))
<1>1. Today \in Int /\ Lookback \in Int
  BY DateAssumption
<1> QED BY <1>1 DEF Window, Filled, LastDays, Or, IsWindow, Date

LEMMA RowsAreDays ==
    ASSUME NEW days \in SUBSET Int, IsFiniteSet(days), NEW w, IsWindow(w)
    PROVE  /\ Rows(days, w) \in SUBSET Int
           /\ IsFiniteSet(Rows(days, w))
           /\ w # All => \A d \in Rows(days, w) : w.start <= d /\ d <= w.end
<1>1. Rows(days, w) \in SUBSET days
  BY DEF Rows
<1> QED BY <1>1, FS_Subset DEF Rows

\* The range derive_range echoes or reads off the rows is around them.
LEMMA DerivedCovers ==
    ASSUME NEW days \in SUBSET Int, IsFiniteSet(days), NEW w, IsWindow(w)
    PROVE  Covers(Derived(Rows(days, w), w), Rows(days, w))
<1> DEFINE rows == Rows(days, w)
<1>1. rows \in SUBSET Int /\ IsFiniteSet(rows)
  BY RowsAreDays
<1>2. CASE w # All
  BY <1>2, RowsAreDays, DateAssumption DEF Derived, Covers, IsWindow
<1>3. CASE w = All
  <2>1. rows # {} => /\ FirstDay(rows) \in Int /\ LastDay(rows) \in Int
                     /\ \A d \in rows : FirstDay(rows) <= d /\ d <= LastDay(rows)
    BY <1>1, FirstDayIsLeast, LastDayIsGreatest
  <2> HIDE DEF rows
  <2> QED BY <1>3, <2>1 DEF Derived, Covers, All, rows
<1> QED BY <1>2, <1>3

\* Whatever the fallbacks of _normalize pick - the range of the reply, of the
\* request or of the entries - it is around the entries.
LEMMA NormalizedCovers ==
    ASSUME NEW days \in SUBSET Int, IsFiniteSet(days), NEW w, IsWindow(w),
           NEW answer \in Answers(days, w)
    PROVE  /\ Normalized(answer, w).ok
           /\ Normalized(answer, w).entries = Rows(days, w)
           /\ Covers(Normalized(answer, w), Rows(days, w))
<1> DEFINE rows == Rows(days, w)
<1>1. PICK range \in {All, Derived(rows, w)} :
        answer = [kind |-> "entries", entries |-> rows, range |-> range]
  BY DEF Answers
<1>2. /\ rows \in SUBSET Int /\ IsFiniteSet(rows)
      /\ w # All => \A d \in rows : w.start <= d /\ d <= w.end
  BY RowsAreDays
<1>3. Covers(Derived(rows, w), rows)
  BY DerivedCovers
<1> HIDE DEF rows
<1>4. ASSUME rows # {}
      PROVE  LET n == Normalized(answer, w)
             IN  n.start \in Int /\ n.end \in Int /\ \A d \in rows : n.start <= d /\ d <= n.end
  <2>1. /\ FirstDay(rows) \in Int /\ LastDay(rows) \in Int
        /\ \A d \in rows : FirstDay(rows) <= d /\ d <= LastDay(rows)
    BY <1>2, <1>4, FirstDayIsLeast, LastDayIsGreatest
  <2>2. /\ Normalized(answer, w).start = Or(Or(range.start, w.start), FirstDay(rows))
        /\ Normalized(answer, w).end = Or(Or(range.end, w.end), LastDay(rows))
    BY <1>1, <1>4 DEF Normalized, Least, Greatest
  <2>3. CASE range = All /\ w = All
    BY <2>1, <2>2, <2>3 DEF Or, All
  <2>4. CASE range = All /\ w # All
    BY <1>2, <2>2, <2>4, DateAssumption DEF Or, All, IsWindow
  <2>5. CASE range = Derived(rows, w)
    <3>1. /\ range.start \in Int /\ range.end \in Int
          /\ \A d \in rows : range.start <= d /\ d <= range.end
      BY <1>3, <1>4, <2>5 DEF Covers
    <3> QED BY <2>2, <3>1, DateAssumption DEF Or
  <2> QED BY <2>3, <2>4, <2>5
<1>5. Normalized(answer, w).ok /\ Normalized(answer, w).entries = rows
  BY <1>1 DEF Normalized
<1> QED BY <1>4, <1>5 DEF Covers, rows

\* An error of the bridge that is no 404.
Fails(raw) ==
    /\ raw.ok = FALSE
    /\ raw.status \in {500, 502}
    /\ raw.code \notin {"no_entries", "date_not_in_range"}

\* An outage, a refusal or a foreign body never passes for a journal, but for an
\* object without entries: what was fetched are the rows, none for such an object, or
\* an error of the bridge that is no 404.
LEMMA FetchedRowsOrError ==
    ASSUME NEW days \in SUBSET Int, IsFiniteSet(days), NEW w, IsWindow(w),
           NEW answer \in Replies(days, w)
    PROVE  LET raw == Fetched(answer, w)
           IN  \/ raw.ok = FALSE /\ Fails(raw)
               \/ /\ raw.ok = TRUE /\ answer.kind = "entries"
                  /\ raw.entries = Rows(days, w) /\ Covers(raw, Rows(days, w))
               \/ raw.ok = TRUE /\ answer = OtherObject /\ raw.entries = {}
<1>0. /\ Fails(Error(500, ""))
      /\ Fails(Error(502, "cornell_auth_error"))
      /\ Fails(Error(502, "cornell_unavailable"))
      /\ Fails(Error(502, "converter_error"))
  BY DEF Error, Fails
<1>1. ASSUME answer \in NoAnswer
      PROVE  Fails(Fetched(answer, w))
  <2>1. answer.kind \in {"timeout", "unreachable"}
    BY <1>1 DEF NoAnswer
  <2>2. Fetched(answer, w) = Error(502, "cornell_unavailable")
    BY <2>1 DEF Fetched
  <2> QED BY <1>0, <2>2
<1>2. ASSUME answer \in Refusals
      PROVE  Fails(Fetched(answer, w))
  <2>1. answer.kind = "status" /\ answer.status \in {401, 429, 500, 503}
    BY <1>2 DEF Refusals
  <2>2. Fetched(answer, w) = StatusError(answer.status)
    BY <2>1 DEF Fetched
  <2>3. StatusError(answer.status) \in {Error(502, "cornell_auth_error"),
            Error(502, "cornell_unavailable"), Error(502, "converter_error")}
    BY DEF StatusError
  <2>4. Fails(StatusError(answer.status))
    BY <1>0, <2>3, Zenon
  <2> QED BY <2>2, <2>4
<1>3. ASSUME answer \in Foreign, answer # OtherObject
      PROVE  Fails(Fetched(answer, w))
  <2>1. answer.kind = "body"
    BY <1>3 DEF Foreign
  <2>2. Fetched(answer, w) = BodyError(answer.shape)
    BY <2>1 DEF Fetched
  <2>3. BodyError(answer.shape) \in {Error(500, ""), Error(502, "converter_error")}
    BY DEF BodyError
  <2>4. Fails(BodyError(answer.shape))
    BY <1>0, <2>3, Zenon
  <2> QED BY <2>2, <2>4
<1>4. CASE answer \in Answers(days, w)
  <2>1. answer.kind = "entries"
    BY <1>4 DEF Answers
  <2>2. Fetched(answer, w) = Normalized(answer, w)
    BY <2>1 DEF Fetched
  <2>3. Normalized(answer, w).ok = TRUE
    BY DEF Normalized
  <2> QED BY <1>4, <2>1, <2>2, <2>3, NormalizedCovers
<1>5. CASE answer = OtherObject
  <2>1. answer.kind = "other_object"
    BY <1>5 DEF OtherObject
  <2>2. Fetched(answer, w) = Normalized(Empty, w)
    BY <2>1 DEF Fetched
  <2>3. Normalized(Empty, w).ok = TRUE /\ Normalized(Empty, w).entries = {}
    BY DEF Normalized, Empty
  <2> QED BY <1>5, <2>2, <2>3
<1>6. \A raw : Fails(raw) => raw.ok = FALSE
  BY DEF Fails
<1> QED BY <1>1, <1>2, <1>3, <1>4, <1>5, <1>6 DEF Replies

------------------------------------------------------------------------------
(* The inductive invariant.                                                  *)

Bodies == [Request -> Report \cup Upload \cup {NoRequest}]

Shape ==
    /\ diary \in Diaries
    /\ route \in [Request -> {"none", "/report", "/report/file"}]
    /\ body \in Bodies
    /\ address \in [Request -> Address]
    /\ phase \in [Request -> {"none", "sidecar", "parser", "gemini", "done"}]
    /\ hits \in [Address -> 0..RateLimit]
    /\ sent \in [Request -> SUBSET {"sidecar", "classify", "report"}]
    /\ DOMAIN parsed = Request /\ DOMAIN handler = Request /\ DOMAIN response = Request
    /\ DOMAIN reply = Request

\* The days in the range of a request as the code reads "30 days", and those of them
\* the sidecar's reply has.
Ranged(r) == DaysInRange(r, Lookback + 1)
Got(r) == IF reply[r].kind = "entries" THEN Ranged(r) ELSE {}

\* A reply that counts as a journal.
Journal(x) == x.kind = "entries" \/ x = OtherObject

\* What a request in each phase has behind it.
Arrived(r) ==
    /\ phase[r] = "none" <=> route[r] = "none"
    /\ phase[r] = "done" <=> response[r] # Nothing
    /\ route[r] = "/report" => body[r] \in Report
    /\ route[r] = "/report/file" => body[r] \in Upload
    /\ phase[r] = "none" => sent[r] = {} /\ reply[r] = NoReply

Fetching(r) ==
    phase[r] \in {"sidecar", "parser"} =>
        /\ route[r] = "/report"
        /\ "sidecar" \in sent[r] /\ sent[r] \subseteq {"sidecar", "classify"}
        /\ body[r].auth = "valid" /\ is_valid_tag(body[r].tag)

Parsing(r) ==
    phase[r] = "parser" =>
        /\ Journal(reply[r])
        /\ parsed[r].entries = Got(r) /\ Covers(parsed[r], Got(r))

\* The parser only asks about what is in the range.
Classified(r) ==
    "classify" \in sent[r] =>
        /\ route[r] = "/report" /\ "sidecar" \in sent[r]
        /\ body[r].auth = "valid" /\ is_valid_tag(body[r].tag)
        /\ Ranged(r) # {}

\* A collection of these days, filed by day.
Describes(c, days) ==
    /\ c.entry_count = Cardinality(days)
    /\ DOMAIN c.by_date = days
    /\ \A d \in days : c.by_date[d] > 0
    /\ Covers(c, days)

Prompted(r) ==
    "report" \in sent[r] =>
        /\ phase[r] \in {"gemini", "done"}
        /\ body[r].auth = "valid"
        /\ parsed[r].ok /\ handler[r].ok
        /\ handler[r] = prepare(parsed[r], body[r].tag)
        /\ route[r] = "/report" => "sidecar" \in sent[r] /\ Describes(parsed[r], Got(r))

Answered(r) ==
    /\ phase[r] = "gemini" => "report" \in sent[r]
    /\ phase[r] = "done" /\ response[r].ok => "report" \in sent[r] /\ response[r] = handler[r]

NotFound(r) ==
    route[r] = "/report" =>
        /\ Failed(r, "no_entries") \/ Failed(r, "date_not_in_range") => Journal(reply[r])
        /\ reply[r].kind = "entries" =>
             /\ Failed(r, "no_entries") => DaysInRange(r, Lookback) = {}
             /\ Failed(r, "date_not_in_range") => AskedDays(r, Lookback) = {}

RequestInv(r) ==
    /\ Arrived(r) /\ Fetching(r) /\ Parsing(r) /\ Classified(r)
    /\ Prompted(r) /\ Answered(r) /\ NotFound(r)

IInv == Shape /\ \A r \in Request : RequestInv(r)

------------------------------------------------------------------------------
(* Windows, responses and what prepare makes of a collection.                *)

\* The window of the request, as the sidecar applies it, is what its parameters
\* ask for: "fetch_all", a range with a missing end filled in, or the last days.
LEMMA RowsAreAsked ==
    ASSUME NEW days \in Diaries, NEW b \in Report
    PROVE  Rows(days, Window(b)) = {d \in days : InRange(b, Lookback + 1, d)}
<1>1. /\ days \subseteq Int
      /\ b.fetch_all \in BOOLEAN
      /\ b.start \in Int \cup {NoDate} /\ b.end \in Int \cup {NoDate}
      /\ Today \in Int /\ Lookback \in Nat /\ NoDate \notin Int
  BY DiariesAssumption, RequestAssumption, DateAssumption
<1>2. CASE b.fetch_all
  BY <1>2 DEF Window, Rows, InRange
<1>3. CASE ~b.fetch_all /\ b.start = NoDate /\ b.end = NoDate
  <2>1. /\ Window(b) = LastDays /\ Window(b) # All
        /\ Window(b).start = Today - (Lookback - 1) /\ Window(b).end = Today
    BY <1>1, <1>3 DEF Window, LastDays, All
  <2>2. \A d \in days : InRange(b, Lookback + 1, d) <=> Within(d, Lookback, Today)
    BY <1>3 DEF InRange
  <2>3. \A d \in days : Within(d, Lookback, Today) <=> Today - Lookback < d /\ d <= Today
    BY <1>1, DaysUpTo DEF Within
  <2>4. \A d \in Int : Today - (Lookback - 1) <= d <=> Today - Lookback < d
    BY <1>1
  <2> QED BY <1>1, <2>1, <2>2, <2>3, <2>4 DEF Rows
<1>4. CASE ~b.fetch_all /\ (b.start # NoDate \/ b.end # NoDate)
  <2>1. Window(b) = Filled(b)
    BY <1>4 DEF Window
  <2>2. /\ Filled(b).end = (IF b.end # NoDate THEN b.end ELSE Today)
        /\ Filled(b).start = (IF b.start # NoDate THEN b.start ELSE Filled(b).end - Lookback)
    BY DEF Filled, Or
  <2>3. Filled(b) # All
    <3>1. Filled(b).end # NoDate
      BY <1>1, <2>2
    <3> QED BY <3>1 DEF All
  <2>4. ASSUME NEW d \in days
        PROVE  InRange(b, Lookback + 1, d) <=> Filled(b).start <= d /\ d <= Filled(b).end
    <3>1. CASE b.start # NoDate
      BY <1>1, <1>4, <2>2, <3>1 DEF InRange, Or
    <3>2. CASE b.start = NoDate
      <4>1. InRange(b, Lookback + 1, d) <=> Within(d, Lookback + 1, b.end)
        BY <1>4, <3>2 DEF InRange
      <4>2. Within(d, Lookback + 1, b.end) <=> b.end - (Lookback + 1) < d /\ d <= b.end
        BY <1>1, <1>4, <3>2, DaysUpTo DEF Within
      <4>3. Filled(b).end = b.end /\ Filled(b).start = b.end - Lookback /\ b.end \in Int
        BY <1>1, <1>4, <2>2, <3>2
      <4> QED BY <1>1, <4>1, <4>2, <4>3
    <3> QED BY <3>1, <3>2
  <2> QED BY <2>1, <2>3, <2>4 DEF Rows
<1>5. \/ b.fetch_all
      \/ ~b.fetch_all /\ b.start = NoDate /\ b.end = NoDate
      \/ ~b.fetch_all /\ (b.start # NoDate \/ b.end # NoDate)
  BY Zenon
<1> QED BY Zenon, <1>2, <1>3, <1>4, <1>5

\* The wider reading of "30 days" has all the days of the narrower one.
LEMMA WiderHasNarrower ==
    ASSUME NEW days \in Diaries, NEW b \in Report, NEW d \in days, InRange(b, Lookback, d)
    PROVE  InRange(b, Lookback + 1, d)
<1>1. /\ d \in Int /\ Lookback \in Nat
      /\ b.end \in Int \cup {NoDate}
  BY DiariesAssumption, RequestAssumption, DateAssumption
<1>2. ASSUME b.end \in Int, Within(d, Lookback, b.end)
      PROVE  Within(d, Lookback + 1, b.end)
  <2>1. b.end - Lookback < d /\ d <= b.end
    BY <1>1, <1>2, DaysUpTo DEF Within
  <2>2. b.end - (Lookback + 1) < d
    BY <1>1, <1>2, <2>1
  <2> QED BY <1>1, <1>2, <2>1, <2>2, DaysUpTo DEF Within
<1> QED BY <1>1, <1>2 DEF InRange

\* A response tells itself from the absence of one.
IsResponse(x) == x.ok = TRUE \/ (x.ok = FALSE /\ x.status # 0)

LEMMA ResponseIsSomething ==
    ASSUME NEW x, IsResponse(x)
    PROVE  x # Nothing /\ x.ok \in BOOLEAN
<1>1. Nothing.ok = FALSE /\ Nothing.status = 0
  BY Zenon DEF Nothing
<1> QED BY <1>1 DEF IsResponse

\* A response with an error that does not say something is not in the journal.
No404(x) == IsResponse(x) /\ x.ok = FALSE /\ x.code \notin {"no_entries", "date_not_in_range"}

LEMMA ErrorIsNo404 ==
    ASSUME NEW status, NEW code, status # 0, code \notin {"no_entries", "date_not_in_range"}
    PROVE  No404(Error(status, code))
<1>1. /\ Error(status, code).ok = FALSE /\ Error(status, code).code = code
      /\ Error(status, code).status = status
  BY Zenon DEF Error
<1> QED BY Zenon, <1>1 DEF No404, IsResponse

LEMMA RefusalsAreNo404 ==
    /\ No404(Error(401, "unauthorized"))
    /\ No404(Error(503, "auth_misconfigured"))
    /\ No404(Error(422, ""))
<1>1. /\ "unauthorized" \notin {"no_entries", "date_not_in_range"}
      /\ "auth_misconfigured" \notin {"no_entries", "date_not_in_range"}
      /\ "" \notin {"no_entries", "date_not_in_range"}
  BY Zenon
<1>2. 401 # 0 /\ 503 # 0 /\ 422 # 0
  OBVIOUS
<1>3. No404(Error(401, "unauthorized"))
  BY Zenon, <1>1, <1>2, ErrorIsNo404
<1>4. No404(Error(503, "auth_misconfigured"))
  BY Zenon, <1>1, <1>2, ErrorIsNo404
<1>5. No404(Error(422, ""))
  BY Zenon, <1>1, <1>2, ErrorIsNo404
<1> QED BY <1>3, <1>4, <1>5

LEMMA FailuresAreNo404 ==
    /\ No404(Error(429, "rate_limit"))
    /\ No404(Error(502, "converter_error"))
    /\ No404(Error(500, ""))
<1>1. /\ "rate_limit" \notin {"no_entries", "date_not_in_range"}
      /\ "converter_error" \notin {"no_entries", "date_not_in_range"}
      /\ "" \notin {"no_entries", "date_not_in_range"}
  BY Zenon
<1>2. 429 # 0 /\ 502 # 0 /\ 500 # 0
  OBVIOUS
<1>3. No404(Error(429, "rate_limit"))
  BY Zenon, <1>1, <1>2, ErrorIsNo404
<1>4. No404(Error(502, "converter_error"))
  BY Zenon, <1>1, <1>2, ErrorIsNo404
<1>5. No404(Error(500, ""))
  BY Zenon, <1>1, <1>2, ErrorIsNo404
<1> QED BY <1>3, <1>4, <1>5

LEMMA GeminiFailuresAreNo404 ==
    /\ No404(Error(429, "gemini_rate_limit"))
    /\ No404(Error(503, "gemini_unavailable"))
    /\ No404(Error(502, "invalid_ai_response"))
<1>1. /\ "gemini_rate_limit" \notin {"no_entries", "date_not_in_range"}
      /\ "gemini_unavailable" \notin {"no_entries", "date_not_in_range"}
      /\ "invalid_ai_response" \notin {"no_entries", "date_not_in_range"}
  BY Zenon
<1>2. 429 # 0 /\ 503 # 0 /\ 502 # 0
  OBVIOUS
<1>3. No404(Error(429, "gemini_rate_limit"))
  BY Zenon, <1>1, <1>2, ErrorIsNo404
<1>4. No404(Error(503, "gemini_unavailable"))
  BY Zenon, <1>1, <1>2, ErrorIsNo404
<1>5. No404(Error(502, "invalid_ai_response"))
  BY Zenon, <1>1, <1>2, ErrorIsNo404
<1> QED BY <1>3, <1>4, <1>5

LEMMA PrepareOutcome ==
    ASSUME NEW c, NEW tag \in Tag
    PROVE  LET p == prepare(c, tag)
           IN  /\ IsResponse(p)
               /\ p.ok => /\ is_valid_tag(tag) /\ c.entry_count # 0
                          /\ tag.kind = "section" => p = SectionOutput(c, tag)
                          /\ tag.kind = "day" => /\ tag.day \in DOMAIN c.by_date
                                                 /\ p = DayOutput(tag, c.by_date[tag.day])
               /\ ~p.ok /\ p.code = "no_entries" => c.entry_count = 0
               /\ ~p.ok /\ p.code = "date_not_in_range" =>
                    tag.kind = "day" /\ tag.day \notin DOMAIN c.by_date
<1> DEFINE p == prepare(c, tag)
<1>1. \/ p = Error(400, "invalid_tag")
      \/ p = Error(404, "no_entries") /\ c.entry_count = 0
      \/ /\ is_valid_tag(tag) /\ tag.kind # "section"
         /\ p = Error(404, "date_not_in_range") /\ tag.day \notin DOMAIN c.by_date
      \/ /\ is_valid_tag(tag) /\ c.entry_count # 0 /\ tag.kind = "section"
         /\ p = SectionOutput(c, tag)
      \/ /\ is_valid_tag(tag) /\ c.entry_count # 0 /\ tag.kind # "section"
         /\ tag.day \in DOMAIN c.by_date /\ p = DayOutput(tag, c.by_date[tag.day])
  BY DEF prepare
<1> HIDE DEF p
<1>0. is_valid_tag(tag) /\ tag.kind # "section" => tag.kind = "day"
  BY DEF is_valid_tag, Tag, OtherTag
<1>2. CASE p = Error(400, "invalid_tag")
  BY <1>2 DEF Error, IsResponse, p
<1>3. CASE p = Error(404, "no_entries") /\ c.entry_count = 0
  BY <1>3 DEF Error, IsResponse, p
<1>4. CASE /\ is_valid_tag(tag) /\ tag.kind # "section"
           /\ p = Error(404, "date_not_in_range") /\ tag.day \notin DOMAIN c.by_date
  BY <1>0, <1>4 DEF Error, IsResponse, p
<1>5. CASE /\ is_valid_tag(tag) /\ c.entry_count # 0 /\ tag.kind = "section"
           /\ p = SectionOutput(c, tag)
  <2>1. p.ok = TRUE
    BY <1>5 DEF SectionOutput
  <2> QED BY <1>5, <2>1 DEF IsResponse, p
<1>6. CASE /\ is_valid_tag(tag) /\ c.entry_count # 0 /\ tag.kind # "section"
           /\ tag.day \in DOMAIN c.by_date /\ p = DayOutput(tag, c.by_date[tag.day])
  <2>1. p.ok = TRUE
    BY <1>6 DEF DayOutput
  <2> QED BY <1>6, <2>1 DEF IsResponse, p
<1> QED BY <1>1, <1>2, <1>3, <1>4, <1>5, <1>6

LEMMA TagsAreTags ==
    /\ \A b \in Report : b.tag \in Tag
    /\ \A b \in Upload : b.tag \in Tag
BY RequestAssumption

\* The end of generate_json is what was prepared, or an error that is no 404.
LEMMA ReportedOutcome ==
    ASSUME NEW ending, NEW tag, NEW h
    PROVE  Reported(ending, tag, h) = h \/ No404(Reported(ending, tag, h))
<1>1. \/ Reported(ending, tag, h) = h
      \/ Reported(ending, tag, h) = Error(429, "gemini_rate_limit")
      \/ Reported(ending, tag, h) = Error(503, "gemini_unavailable")
      \/ Reported(ending, tag, h) = Error(502, "invalid_ai_response")
      \/ Reported(ending, tag, h) = Error(500, "")
  BY DEF Reported
<1> DEFINE out == Reported(ending, tag, h)
<1> HIDE DEF out
<1>2. out = Error(429, "gemini_rate_limit") => No404(out)
  BY GeminiFailuresAreNo404, Zenon
<1>3. out = Error(503, "gemini_unavailable") => No404(out)
  BY GeminiFailuresAreNo404, Zenon
<1>4. out = Error(502, "invalid_ai_response") => No404(out)
  BY GeminiFailuresAreNo404, Zenon
<1>5. out = Error(500, "") => No404(out)
  BY FailuresAreNo404, Zenon
<1> QED BY <1>1, <1>2, <1>3, <1>4, <1>5, Zenon DEF out

------------------------------------------------------------------------------
(* The steps.                                                                *)

\* The scenes have the requests and addresses of the types.
LEMMA InitIInv == Init => IInv
<1> SUFFICES ASSUME Init PROVE IInv
  OBVIOUS
<1>0. diary \in Diaries /\ body \in Bodies /\ address \in [Request -> Address]
  <2>1. PICK scene \in Scenes :
          diary = scene.diary /\ body = scene.body /\ address = scene.address
    BY Zenon DEF Init
  <2> QED BY <2>1, SceneAssumption DEF Bodies
<1>1. Shape
  BY <1>0, LimitAssumption DEF Init, Shape
<1>2. ASSUME NEW r \in Request
      PROVE  RequestInv(r)
  <2>1. /\ route[r] = "none" /\ phase[r] = "none" /\ response[r] = Nothing /\ sent[r] = {}
        /\ reply[r] = NoReply
    BY Zenon DEF Init
  <2> QED
    BY <2>1 DEF RequestInv, Arrived, Fetching, Parsing, Classified, Prompted, Answered,
                NotFound, Failed
<1> QED BY <1>1, <1>2 DEF IInv

\* A request does not see the others: it shares with them the diary and the count
\* of its address only.
Same(q) ==
    /\ route'[q] = route[q] /\ body'[q] = body[q] /\ phase'[q] = phase[q]
    /\ parsed'[q] = parsed[q] /\ handler'[q] = handler[q] /\ response'[q] = response[q]
    /\ sent'[q] = sent[q] /\ reply'[q] = reply[q]

\* The diary and the requests do not change, nor do the days asked for.
LEMMA DaysStay ==
    ASSUME NEW q \in Request, diary' = diary, body'[q] = body[q]
    PROVE  /\ Ranged(q)' = Ranged(q)
           /\ DaysInRange(q, Lookback)' = DaysInRange(q, Lookback)
           /\ AskedDays(q, Lookback)' = AskedDays(q, Lookback)
           /\ reply'[q] = reply[q] => Got(q)' = Got(q)
<1>1. Ranged(q)' = Ranged(q)
  BY DEF Ranged, DaysInRange
<1>2. DaysInRange(q, Lookback)' = DaysInRange(q, Lookback)
  BY DEF DaysInRange
<1>3. AskedDays(q, Lookback)' = AskedDays(q, Lookback)
  BY DEF AskedDays
<1>4. reply'[q] = reply[q] => Got(q)' = Got(q)
  BY <1>1 DEF Got
<1> QED BY <1>1, <1>2, <1>3, <1>4

LEMMA ClassifiedStays ==
    ASSUME NEW q \in Request, Classified(q), diary' = diary, body'[q] = body[q],
           "classify" \in sent'[q] => "classify" \in sent[q] /\ route'[q] = route[q],
           "sidecar" \in sent[q] => "sidecar" \in sent'[q]
    PROVE  Classified(q)'
<1>1. Ranged(q)' = Ranged(q)
  BY DaysStay
<1> QED BY <1>1 DEF Classified

LEMMA SameKeeps ==
    ASSUME NEW q \in Request, RequestInv(q), diary' = diary, Same(q)
    PROVE  RequestInv(q)'
<1>1. /\ Ranged(q)' = Ranged(q)
      /\ DaysInRange(q, Lookback)' = DaysInRange(q, Lookback)
      /\ AskedDays(q, Lookback)' = AskedDays(q, Lookback)
      /\ Got(q)' = Got(q)
  BY DaysStay DEF Same
<1>2. Arrived(q)'
  BY DEF RequestInv, Arrived, Same
<1>3. Fetching(q)'
  BY DEF RequestInv, Fetching, Same
<1>4. Parsing(q)'
  BY <1>1 DEF RequestInv, Parsing, Same
<1>5. Classified(q)'
  BY ClassifiedStays DEF RequestInv, Same
<1>6. Prompted(q)'
  BY <1>1 DEF RequestInv, Prompted, Same
<1>7. Answered(q)'
  BY DEF RequestInv, Answered, Same
<1>8. NotFound(q)'
  BY <1>1 DEF RequestInv, NotFound, Failed, Same
<1> QED BY <1>2, <1>3, <1>4, <1>5, <1>6, <1>7, <1>8 DEF RequestInv

LEMMA OneMoves ==
    ASSUME IInv, NEW r \in Request, diary' = diary,
           \A q \in Request \ {r} : Same(q), Shape', RequestInv(r)'
    PROVE  IInv'
<1>1. ASSUME NEW q \in Request
      PROVE  RequestInv(q)'
  <2>1. CASE q = r
    BY <2>1
  <2>2. CASE q # r
    BY <2>2, SameKeeps DEF IInv
  <2> QED BY <2>1, <2>2
<1> QED BY <1>1 DEF IInv

\* A request that arrives has sent nothing and heard nothing.
LEMMA ArriveOutcome ==
    ASSUME IInv, NEW r \in Request, NEW on \in {"/report", "/report/file"}, Arrive(r, on)
    PROVE  /\ sent[r] = {} /\ reply[r] = NoReply /\ response[r] = Nothing
           /\ diary' = diary /\ body' = body /\ address' = address /\ reply' = reply
           /\ route' = [route EXCEPT ![r] = on] /\ route'[r] = on
           /\ route' \in [Request -> {"none", "/report", "/report/file"}]
           /\ \A q \in Request \ {r} : route'[q] = route[q]
<1>1. route[r] = "none" /\ route' = [route EXCEPT ![r] = on]
  BY DEF Arrive
<1>2. sent[r] = {} /\ reply[r] = NoReply /\ response[r] = Nothing
  BY <1>1 DEF IInv, RequestInv, Arrived
<1>3. route \in [Request -> {"none", "/report", "/report/file"}]
  BY DEF IInv, Shape
<1> QED BY <1>1, <1>2, <1>3 DEF Arrive

\* A request that is answered as it arrives, with an error that is no 404.
LEMMA TurnedAway ==
    ASSUME IInv, NEW r \in Request, Arrive(r, "/report"), body[r] \in Report,
           NEW e, No404(e), Respond(r, e), parsed' = parsed, handler' = handler,
           sent' = sent, hits' \in [Address -> 0..RateLimit]
    PROVE  IInv'
<1>1. /\ sent[r] = {} /\ diary' = diary /\ body' = body /\ address' = address
      /\ reply' = reply /\ route' = [route EXCEPT ![r] = "/report"] /\ route'[r] = "/report"
  BY ArriveOutcome
<1>2. Shape'
  BY <1>1 DEF IInv, Shape, Respond
<1>3. \A q \in Request \ {r} : Same(q)
  BY <1>1 DEF IInv, Shape, Same, Respond
<1>4. phase'[r] = "done" /\ response'[r] = e /\ sent'[r] = {}
  BY <1>1 DEF IInv, Shape, Respond
<1>5. e # Nothing
  BY ResponseIsSomething DEF No404
<1>6. RequestInv(r)'
  BY <1>1, <1>4, <1>5
    DEF RequestInv, Arrived, Fetching, Parsing, Classified, Prompted, Answered, NotFound,
        Failed, No404
<1> QED BY <1>1, <1>2, <1>3, <1>6, OneMoves

LEMMA RefuseKeeps ==
    ASSUME IInv, NEW r \in Request, Refuse(r)
    PROVE  IInv'
<1> DEFINE e == IF body[r].auth # "valid" THEN AuthError(body[r]) ELSE Error(422, "")
<1>1. No404(e)
  <2>1. \/ e = Error(503, "auth_misconfigured")
        \/ e = Error(401, "unauthorized")
        \/ e = Error(422, "")
    BY Zenon DEF AuthError
  <2> HIDE DEF e
  <2> QED BY Zenon, <2>1, RefusalsAreNo404
<1>2. /\ body[r] \in Report /\ Arrive(r, "/report") /\ Respond(r, e)
      /\ parsed' = parsed /\ handler' = handler /\ hits' = hits /\ sent' = sent
  BY Zenon DEF Refuse
<1>3. hits' \in [Address -> 0..RateLimit]
  BY <1>2 DEF IInv, Shape
<1> HIDE DEF e
<1> QED BY <1>1, <1>2, <1>3, TurnedAway

LEMMA LimitedKeeps ==
    ASSUME IInv, NEW r \in Request, Limited(r)
    PROVE  IInv'
<1> DEFINE e == Error(429, "rate_limit")
<1>1. No404(e)
  BY FailuresAreNo404
<1>2. /\ body[r] \in Report /\ Arrive(r, "/report") /\ Respond(r, e)
      /\ parsed' = parsed /\ handler' = handler /\ hits' = hits /\ sent' = sent
  BY Zenon DEF Limited, Admissible
<1>3. hits' \in [Address -> 0..RateLimit]
  BY <1>2 DEF IInv, Shape
<1> HIDE DEF e
<1> QED BY <1>1, <1>2, <1>3, TurnedAway

\* The request is within the limit of its address: the count stays within it.
LEMMA AdmitKeeps ==
    ASSUME IInv, NEW r \in Request, Admit(r)
    PROVE  IInv'
<1> DEFINE b == body[r]
<1>1. /\ b \in Report /\ Arrive(r, "/report") /\ parsed' = parsed /\ handler' = handler
      /\ b.auth = "valid" /\ is_valid_tag(b.tag)
  BY Zenon DEF Admit, Admissible
<1>2. /\ sent[r] = {} /\ reply[r] = NoReply /\ response[r] = Nothing
      /\ diary' = diary /\ body' = body /\ address' = address /\ reply' = reply
      /\ route' = [route EXCEPT ![r] = "/report"] /\ route'[r] = "/report"
  BY <1>1, ArriveOutcome
<1>3. hits' \in [Address -> 0..RateLimit]
  <2>1. address[r] \in Address /\ hits[address[r]] \in 0..RateLimit
    BY DEF IInv, Shape
  <2>2. hits[address[r]] < RateLimit
    BY Zenon DEF Admit, WithinLimit
  <2>3. hits[address[r]] + 1 \in 0..RateLimit
    BY <2>1, <2>2, LimitAssumption
  <2>4. /\ hits' = [hits EXCEPT ![address[r]] = @ + 1]
        /\ hits \in [Address -> 0..RateLimit]
    BY Zenon DEF Admit, IInv, Shape
  <2> QED BY <2>1, <2>3, <2>4
<1>4. CASE Underflows(b) \/ Inverted(Window(b))
  <2> DEFINE e == IF Underflows(b) THEN Error(500, "") ELSE Error(502, "converter_error")
  <2>1. Respond(r, e) /\ sent' = sent
    BY Zenon, <1>4 DEF Admit
  <2>2. No404(e)
    <3>1. e = Error(500, "") \/ e = Error(502, "converter_error")
      BY Zenon
    <3> HIDE DEF e
    <3> QED BY Zenon, <3>1, FailuresAreNo404
  <2> HIDE DEF e, b
  <2> QED BY <1>1, <1>3, <2>1, <2>2, TurnedAway DEF b
<1>5. CASE ~(Underflows(b) \/ Inverted(Window(b)))
  <2>1. Await(r, "sidecar") /\ Call(r, "sidecar")
    BY Zenon, <1>5 DEF Admit
  <2> HIDE DEF b
  <2>2. Shape'
    BY <1>1, <1>2, <1>3, <2>1 DEF IInv, Shape, Await, Call
  <2>3. \A q \in Request \ {r} : Same(q)
    BY <1>1, <1>2, <2>1 DEF IInv, Shape, Same, Await, Call
  <2>4. phase'[r] = "sidecar" /\ sent'[r] = {"sidecar"} /\ response'[r] = Nothing
    BY <1>2, <2>1 DEF IInv, Shape, Await, Call
  <2>5. /\ body'[r] \in Report /\ body'[r].auth = "valid" /\ is_valid_tag(body'[r].tag)
    BY <1>1, <1>2 DEF b
  <2>6. RequestInv(r)'
    BY <1>2, <2>4, <2>5
      DEF RequestInv, Arrived, Fetching, Parsing, Classified, Prompted, Answered, NotFound, Failed
  <2> QED BY <1>2, <2>2, <2>3, <2>6, OneMoves
<1> QED BY <1>4, <1>5

\* A fetch leaves the days in the range of the request, and a range around them.
LEMMA FetchEndsKeeps ==
    ASSUME IInv, NEW r \in Request, NEW answer, FetchEnds(r, answer)
    PROVE  IInv'
<1> DEFINE w == Window(body[r])
           raw == Fetched(answer, w)
<1>1. /\ phase[r] = "sidecar" /\ route[r] = "/report" /\ body[r] \in Report
      /\ "sidecar" \in sent[r] /\ sent[r] \subseteq {"sidecar", "classify"}
      /\ body[r].auth = "valid" /\ is_valid_tag(body[r].tag)
      /\ response[r] = Nothing /\ Classified(r)
  BY DEF IInv, RequestInv, Arrived, Fetching, FetchEnds
<1>2. /\ diary \in Diaries /\ diary \in SUBSET Int /\ IsFiniteSet(diary)
  BY DiariesAssumption DEF IInv, Shape
<1>3. IsWindow(w)
  BY <1>1, WindowHasBothEnds, RequestAssumption DEF Date
<1>4. Rows(diary, w) = Ranged(r)
  BY <1>1, <1>2, RowsAreAsked DEF Ranged, DaysInRange
<1>5. answer \in Replies(diary, w)
  BY DEF FetchEnds
<1>6. /\ diary' = diary /\ route' = route /\ body' = body /\ address' = address
      /\ handler' = handler /\ hits' = hits /\ sent' = sent
      /\ reply' = [reply EXCEPT ![r] = answer]
  BY DEF FetchEnds
<1>7. /\ reply'[r] = answer /\ DOMAIN reply' = Request
      /\ \A q \in Request \ {r} : reply'[q] = reply[q]
  BY <1>6 DEF IInv, Shape
<1>8. Got(r)' = IF answer.kind = "entries" THEN Ranged(r) ELSE {}
  <2>1. Ranged(r)' = Ranged(r)
    BY <1>6, DaysStay
  <2> QED BY <1>7, <2>1 DEF Got
<1>9. /\ raw.ok \in BOOLEAN
      /\ raw.ok => Journal(answer) /\ raw.entries = Got(r)' /\ Covers(raw, Got(r)')
      /\ ~raw.ok => Fails(raw)
  <2>1. \/ raw.ok = FALSE /\ Fails(raw)
        \/ /\ raw.ok = TRUE /\ answer.kind = "entries"
           /\ raw.entries = Ranged(r) /\ Covers(raw, Ranged(r))
        \/ raw.ok = TRUE /\ answer = OtherObject /\ raw.entries = {}
    BY <1>2, <1>3, <1>4, <1>5, FetchedRowsOrError
  <2> HIDE DEF raw
  <2>2. answer = OtherObject => Got(r)' = {}
    BY <1>8 DEF OtherObject
  <2> QED BY <1>8, <2>1, <2>2 DEF Covers, Journal
<1>10. Classified(r)'
  BY <1>1, <1>6, ClassifiedStays
<1>11. CASE raw.ok
  <2>1. parsed' = [parsed EXCEPT ![r] = raw] /\ Await(r, "parser")
    BY <1>11 DEF FetchEnds
  <2> HIDE DEF w, raw
  <2>2. Shape'
    BY <1>6, <1>7, <2>1 DEF IInv, Shape, Await
  <2>3. \A q \in Request \ {r} : Same(q)
    BY <1>6, <1>7, <2>1 DEF IInv, Shape, Same, Await
  <2>4. phase'[r] = "parser" /\ response'[r] = Nothing /\ parsed'[r] = raw
    BY <1>1, <2>1 DEF IInv, Shape, Await
  <2>5. Parsing(r)'
    BY <1>7, <1>9, <1>11, <2>4 DEF Parsing
  <2>6. RequestInv(r)'
    BY <1>1, <1>6, <1>10, <2>4, <2>5
      DEF RequestInv, Arrived, Fetching, Prompted, Answered, NotFound, Failed
  <2> QED BY <1>6, <2>2, <2>3, <2>6, OneMoves
<1>12. CASE ~raw.ok
  <2>1. Respond(r, raw) /\ UNCHANGED parsed
    BY <1>12 DEF FetchEnds
  <2> HIDE DEF w, raw
  <2>2. Shape'
    BY <1>6, <1>7, <2>1 DEF IInv, Shape, Respond
  <2>3. \A q \in Request \ {r} : Same(q)
    BY <1>6, <1>7, <2>1 DEF IInv, Shape, Same, Respond
  <2>4. phase'[r] = "done" /\ response'[r] = raw
    BY <2>1 DEF IInv, Shape, Respond
  <2>5. No404(raw)
    BY <1>9, <1>12 DEF Fails, No404, IsResponse
  <2>6. raw # Nothing
    BY <2>5, ResponseIsSomething DEF No404
  <2>7. RequestInv(r)'
    BY <1>1, <1>6, <1>10, <2>4, <2>5, <2>6
      DEF RequestInv, Arrived, Fetching, Parsing, Prompted, Answered, NotFound, Failed, No404
  <2> QED BY <1>6, <2>2, <2>3, <2>7, OneMoves
<1> QED BY <1>9, <1>11, <1>12

\* The parser asks about the sentences of days that are in the range.
LEMMA ParserAsksKeeps ==
    ASSUME IInv, NEW r \in Request, ParserAsks(r)
    PROVE  IInv'
<1>1. /\ phase[r] = "parser" /\ parsed[r].entries # {} /\ Call(r, "classify")
      /\ diary' = diary /\ route' = route /\ body' = body /\ address' = address
      /\ phase' = phase /\ parsed' = parsed /\ handler' = handler /\ response' = response
      /\ hits' = hits /\ reply' = reply
  BY DEF ParserAsks
<1>2. /\ Arrived(r) /\ Parsing(r) /\ Prompted(r) /\ Answered(r) /\ NotFound(r)
      /\ route[r] = "/report"
      /\ "sidecar" \in sent[r] /\ sent[r] \subseteq {"sidecar", "classify"}
      /\ body[r].auth = "valid" /\ is_valid_tag(body[r].tag)
  BY <1>1 DEF IInv, RequestInv, Fetching
<1>3. Ranged(r) # {} /\ Ranged(r)' = Ranged(r) /\ Got(r)' = Got(r)
  <2>1. Got(r) # {}
    BY <1>1, <1>2 DEF Parsing
  <2> QED BY <1>1, <2>1, DaysStay DEF Got
<1>4. /\ Shape' /\ sent'[r] = sent[r] \cup {"classify"}
      /\ \A q \in Request \ {r} : Same(q)
  BY <1>1 DEF IInv, Shape, Same, Call
<1>5. Arrived(r)'
  BY <1>1, <1>2 DEF Arrived
<1>6. Fetching(r)'
  BY <1>1, <1>2, <1>4 DEF Fetching
<1>7. Parsing(r)'
  BY <1>1, <1>2, <1>3 DEF Parsing
<1>8. Classified(r)'
  BY <1>1, <1>2, <1>3, <1>4 DEF Classified
<1>9. Prompted(r)' /\ Answered(r)' /\ NotFound(r)'
  BY <1>1, <1>2, <1>4 DEF Prompted, Answered, NotFound, Failed, Arrived
<1>10. RequestInv(r)'
  BY <1>5, <1>6, <1>7, <1>8, <1>9 DEF RequestInv
<1> QED BY <1>1, <1>4, <1>10, OneMoves

\* The reply had the days in the range by the wider reading, so by the narrower one
\* none is lost either.
LEMMA NoneLost ==
    ASSUME IInv, NEW r \in Request, body[r] \in Report, reply[r].kind = "entries"
    PROVE  /\ Got(r) = Ranged(r)
           /\ DaysInRange(r, Lookback) \subseteq Got(r)
           /\ body[r].tag.kind = "day" /\ body[r].tag.day \notin Got(r) =>
                AskedDays(r, Lookback) = {}
<1>1. Got(r) = Ranged(r) /\ diary \in Diaries
  BY DEF Got, IInv, Shape
<1>2. \A d \in diary : InRange(body[r], Lookback, d) => InRange(body[r], Lookback + 1, d)
  BY <1>1, WiderHasNarrower
<1>3. DaysInRange(r, Lookback) \subseteq Got(r)
  BY <1>1, <1>2 DEF DaysInRange, Ranged
<1>4. body[r].tag.kind = "day" =>
        AskedDays(r, Lookback) \subseteq DaysInRange(r, Lookback) \cap {body[r].tag.day}
  BY DEF AskedDays, DaysInRange, AsksFor
<1> QED BY <1>1, <1>3, <1>4

LEMMA GotIsFinite ==
    ASSUME IInv, NEW r \in Request
    PROVE  Got(r) \in SUBSET Int /\ IsFiniteSet(Got(r))
<1>1. diary \in SUBSET Int /\ IsFiniteSet(diary)
  BY DiariesAssumption DEF IInv, Shape
<1>2. Got(r) \subseteq diary
  BY DEF Got, Ranged, DaysInRange
<1> QED BY <1>1, <1>2, FS_Subset

\* Of a collection that describes what was got, either a prompt is sent or there is
\* nothing there to report on.
LEMMA GenerateKeeps ==
    ASSUME IInv, NEW r \in Request, NEW c, c.ok = TRUE, Generate(r, c),
           diary' = diary, route' \in [Request -> {"none", "/report", "/report/file"}],
           body' = body, address' = address, hits' = hits, reply' = reply,
           parsed' = [parsed EXCEPT ![r] = c],
           \A q \in Request \ {r} : route'[q] = route[q],
           \/ route'[r] = "/report" /\ body[r] \in Report
           \/ route'[r] = "/report/file" /\ body[r] \in Upload,
           body[r].auth = "valid", sent[r] \subseteq {"sidecar", "classify"},
           sent[r] = {} \/ route'[r] = route[r], response[r] = Nothing,
           route'[r] = "/report" => /\ "sidecar" \in sent[r] /\ Journal(reply[r])
                                    /\ Describes(c, Got(r))
    PROVE  IInv'
<1> DEFINE p == prepare(c, body[r].tag)
<1>1. body[r].tag \in Tag
  BY TagsAreTags
<1>2. /\ IsResponse(p)
      /\ ~p.ok /\ p.code = "no_entries" => c.entry_count = 0
      /\ ~p.ok /\ p.code = "date_not_in_range" =>
           body[r].tag.kind = "day" /\ body[r].tag.day \notin DOMAIN c.by_date
  BY <1>1, PrepareOutcome
<1>3. p # Nothing /\ p.ok \in BOOLEAN
  BY <1>2, ResponseIsSomething
<1>4. Got(r)' = Got(r) /\ Classified(r)
  BY DaysStay DEF IInv, RequestInv
<1>5. CASE p.ok
  <2>1. handler' = [handler EXCEPT ![r] = p] /\ Await(r, "gemini") /\ Call(r, "report")
    BY <1>5 DEF Generate
  <2> HIDE DEF p
  <2>2. Shape'
    BY <2>1 DEF IInv, Shape, Await, Call
  <2>3. \A q \in Request \ {r} : Same(q)
    BY <2>1 DEF IInv, Shape, Same, Await, Call
  <2>4. /\ phase'[r] = "gemini" /\ response'[r] = Nothing /\ parsed'[r] = c
        /\ handler'[r] = p /\ sent'[r] = sent[r] \cup {"report"}
    BY <2>1 DEF IInv, Shape, Await, Call
  <2>5. Prompted(r)'
    BY <1>4, <1>5, <2>4 DEF Prompted, p
  <2>6. Classified(r)'
    BY <1>4, <2>4, ClassifiedStays
  <2>7. RequestInv(r)'
    BY <2>4, <2>5, <2>6 DEF RequestInv, Arrived, Fetching, Parsing, Answered, NotFound, Failed
  <2> QED BY <2>2, <2>3, <2>7, OneMoves
<1>6. CASE ~p.ok
  <2>1. Respond(r, p) /\ UNCHANGED <<handler, sent>>
    BY <1>6 DEF Generate
  <2> HIDE DEF p
  <2>2. Shape'
    BY <2>1 DEF IInv, Shape, Respond
  <2>3. \A q \in Request \ {r} : Same(q)
    BY <2>1 DEF IInv, Shape, Same, Respond
  <2>4. phase'[r] = "done" /\ response'[r] = p /\ sent'[r] = sent[r] /\ reply'[r] = reply[r]
    BY <2>1 DEF IInv, Shape, Respond
  <2>5. Classified(r)'
    BY <1>4, <2>4, ClassifiedStays
  <2>6. NotFound(r)'
    <3>1. ASSUME route'[r] = "/report", reply[r].kind = "entries"
          PROVE  /\ p.code = "no_entries" => DaysInRange(r, Lookback) = {}
                 /\ p.code = "date_not_in_range" => AskedDays(r, Lookback) = {}
      <4>0. body[r] \in Report
        BY <3>1
      <4>1. /\ DaysInRange(r, Lookback) \subseteq Got(r)
            /\ body[r].tag.kind = "day" /\ body[r].tag.day \notin Got(r) =>
                 AskedDays(r, Lookback) = {}
        BY <3>1, <4>0, NoneLost
      <4>2. c.entry_count = Cardinality(Got(r)) /\ DOMAIN c.by_date = Got(r)
        BY <3>1 DEF Describes
      <4>3. c.entry_count = 0 => Got(r) = {}
        BY <4>2, GotIsFinite, FS_EmptySet
      <4> QED BY <1>2, <1>6, <4>1, <4>2, <4>3
    <3>2. /\ DaysInRange(r, Lookback)' = DaysInRange(r, Lookback)
          /\ AskedDays(r, Lookback)' = AskedDays(r, Lookback)
      BY DaysStay
    <3> QED BY <2>4, <3>1, <3>2 DEF NotFound, Failed
  <2>7. RequestInv(r)'
    BY <1>3, <1>6, <2>4, <2>5, <2>6 DEF RequestInv, Arrived, Fetching, Parsing, Prompted, Answered
  <2> QED BY <2>2, <2>3, <2>7, OneMoves
<1> QED BY <1>3, <1>5, <1>6

\* The parser's own fallbacks leave a range that is around the days as it is.
LEMMA ParseEndsKeeps ==
    ASSUME IInv, NEW r \in Request, NEW items \in [parsed[r].entries -> 1..MaxItems],
           ParseEnds(r, items)
    PROVE  IInv'
<1> DEFINE raw == parsed[r]
           first == Or(raw.start, Least(raw.entries))
           last == Or(raw.end, Greatest(raw.entries))
           c == [ok |-> TRUE, entry_count |-> Cardinality(raw.entries),
                 start |-> first, end |-> last, by_date |-> items]
<1>1. /\ phase[r] = "parser" /\ route[r] = "/report" /\ body[r] \in Report
      /\ "sidecar" \in sent[r] /\ sent[r] \subseteq {"sidecar", "classify"}
      /\ body[r].auth = "valid" /\ is_valid_tag(body[r].tag)
      /\ response[r] = Nothing /\ Journal(reply[r]) /\ Classified(r)
      /\ raw.entries = Got(r) /\ Covers(raw, Got(r))
  BY DEF IInv, RequestInv, Arrived, Fetching, Parsing, ParseEnds
<1>2. /\ diary' = diary /\ route' = route /\ body' = body /\ address' = address
      /\ hits' = hits /\ reply' = reply
      /\ parsed' = [parsed EXCEPT ![r] = c]
  BY DEF ParseEnds
<1> HIDE DEF first, last
<1>3. /\ c.ok = TRUE /\ c.entry_count = Cardinality(Got(r))
      /\ c.start = first /\ c.end = last /\ c.by_date = items
  BY <1>1
<1>4. Describes(c, Got(r))
  <2>1. DOMAIN items = Got(r) /\ \A d \in Got(r) : items[d] \in 1..MaxItems
    BY <1>1
  <2>2. Got(r) # {} => first = raw.start /\ last = raw.end
    BY <1>1, DateAssumption DEF first, last, Or, Covers
  <2>3. Covers(c, Got(r))
    <3> HIDE DEF c
    <3> QED BY <1>1, <1>3, <2>2 DEF Covers
  <2> HIDE DEF c
  <2> QED BY <1>3, <2>1, <2>3, LimitAssumption DEF Describes
<1>5. CASE c.entry_count = 0
  <2>1. Respond(r, Error(404, "no_entries")) /\ UNCHANGED <<handler, sent>>
    BY <1>5 DEF ParseEnds
  <2>2. Got(r) = {}
    BY <1>3, <1>5, GotIsFinite, FS_EmptySet
  <2> HIDE DEF raw, c
  <2>3. Shape'
    BY <1>2, <2>1 DEF IInv, Shape, Respond
  <2>4. \A q \in Request \ {r} : Same(q)
    BY <1>2, <2>1 DEF IInv, Shape, Same, Respond
  <2>5. phase'[r] = "done" /\ response'[r] = Error(404, "no_entries") /\ sent'[r] = sent[r]
    BY <2>1 DEF IInv, Shape, Respond
  <2>6. /\ response'[r].ok = FALSE /\ response'[r].status = 404
        /\ response'[r].code = "no_entries"
    BY <2>5 DEF Error
  <2>7. response'[r] # Nothing
    <3>1. IsResponse(response'[r])
      BY <2>6 DEF IsResponse
    <3> QED BY <3>1, ResponseIsSomething
  <2>8. Classified(r)'
    BY <1>1, <1>2, <2>5, ClassifiedStays
  <2>9. NotFound(r)'
    <3>1. reply[r].kind = "entries" => DaysInRange(r, Lookback) = {}
      BY <1>1, <2>2, NoneLost
    <3>2. DaysInRange(r, Lookback)' = DaysInRange(r, Lookback)
      BY <1>2, DaysStay
    <3> QED BY <1>1, <1>2, <2>6, <3>1, <3>2 DEF NotFound, Failed
  <2>10. RequestInv(r)'
    BY <1>1, <1>2, <2>5, <2>6, <2>7, <2>8, <2>9
      DEF RequestInv, Arrived, Fetching, Parsing, Prompted, Answered
  <2> QED BY <1>2, <2>3, <2>4, <2>10, OneMoves
<1>6. CASE c.entry_count # 0
  <2>1. Generate(r, c)
    BY <1>6 DEF ParseEnds, first, last
  <2> HIDE DEF raw, c
  <2>2. route' \in [Request -> {"none", "/report", "/report/file"}]
    BY <1>2 DEF IInv, Shape
  <2> QED BY <1>1, <1>2, <1>3, <1>4, <2>1, <2>2, GenerateKeeps
<1> QED BY <1>5, <1>6

LEMMA GeminiEndsKeeps ==
    ASSUME IInv, NEW r \in Request, NEW ending, GeminiEnds(r, ending)
    PROVE  IInv'
<1> DEFINE x == Reported(ending, body[r].tag, handler[r])
<1>1. phase[r] = "gemini" /\ "report" \in sent[r] /\ handler[r].ok
  BY DEF IInv, RequestInv, Answered, Prompted, GeminiEnds
<1>2. /\ diary' = diary /\ route' = route /\ body' = body /\ parsed' = parsed
      /\ handler' = handler /\ sent' = sent /\ reply' = reply
      /\ Respond(r, x)
  BY DEF GeminiEnds
<1>3. x = handler[r] \/ No404(x)
  BY ReportedOutcome
<1>4. /\ IsResponse(handler[r]) /\ handler[r].ok = TRUE
  <2>1. body[r].tag \in Tag
    BY <1>1, TagsAreTags DEF IInv, RequestInv, Arrived, Prompted, Shape
  <2>2. handler[r] = prepare(parsed[r], body[r].tag)
    BY <1>1 DEF IInv, RequestInv, Prompted
  <2>3. IsResponse(handler[r])
    BY <2>1, <2>2, PrepareOutcome
  <2> QED BY <1>1, <2>3 DEF IsResponse
<1> HIDE DEF x
<1>5. x # Nothing
  BY <1>3, <1>4, ResponseIsSomething DEF No404
<1>6. Shape'
  BY <1>2 DEF IInv, Shape, GeminiEnds, Respond
<1>7. \A q \in Request \ {r} : Same(q)
  BY <1>2 DEF IInv, Shape, Same, GeminiEnds, Respond
<1>8. phase'[r] = "done" /\ response'[r] = x
  BY <1>2 DEF IInv, Shape, Respond
<1>9. Got(r)' = Got(r) /\ Classified(r)'
  BY <1>2, DaysStay, ClassifiedStays DEF IInv, RequestInv
<1>10. Prompted(r)'
  BY <1>1, <1>2, <1>8, <1>9 DEF IInv, RequestInv, Prompted
<1>11. RequestInv(r)'
  BY <1>1, <1>2, <1>3, <1>4, <1>5, <1>8, <1>9, <1>10
    DEF IInv, RequestInv, Arrived, Fetching, Parsing, Answered, NotFound, Failed, No404
<1> QED BY <1>2, <1>6, <1>7, <1>11, OneMoves

LEMMA UploadReportKeeps ==
    ASSUME IInv, NEW r \in Request, UploadReport(r)
    PROVE  IInv'
<1> DEFINE b == body[r]
<1>0. b \in Upload /\ Arrive(r, "/report/file") /\ hits' = hits
  BY Zenon DEF UploadReport
<1>1. /\ sent[r] = {} /\ response[r] = Nothing
      /\ diary' = diary /\ body' = body /\ address' = address /\ reply' = reply
      /\ route' = [route EXCEPT ![r] = "/report/file"] /\ route'[r] = "/report/file"
      /\ route' \in [Request -> {"none", "/report", "/report/file"}]
      /\ \A q \in Request \ {r} : route'[q] = route[q]
  BY <1>0, ArriveOutcome
<1>2. CASE b.auth # "valid" \/ ~b.parsed.ok
  <2> DEFINE e == IF b.auth # "valid" THEN AuthError(b) ELSE b.parsed
  <2>1. Respond(r, e) /\ parsed' = parsed /\ handler' = handler /\ sent' = sent
    BY Zenon, <1>2 DEF UploadReport
  <2>2. IsResponse(e) /\ e.ok = FALSE
    <3>1. CASE b.auth # "valid"
      BY <3>1, RefusalsAreNo404 DEF AuthError, No404
    <3>2. CASE b.auth = "valid"
      <4>1. b.parsed \in [ok : {FALSE}, status : 400..599, code : STRING]
        BY <1>0, <1>2, <3>2, RequestAssumption
      <4>2. b.parsed.ok = FALSE /\ b.parsed.status \in 400..599
        BY <4>1
      <4> QED BY <3>2, <4>2 DEF IsResponse
    <3> QED BY <3>1, <3>2
  <2> HIDE DEF e, b
  <2>3. Shape'
    BY <1>0, <1>1, <2>1 DEF IInv, Shape, Respond
  <2>4. \A q \in Request \ {r} : Same(q)
    BY <1>1, <2>1 DEF IInv, Shape, Same, Respond
  <2>5. phase'[r] = "done" /\ sent'[r] = {} /\ response'[r] = e
    BY <1>1, <2>1 DEF IInv, Shape, Respond
  <2>6. e # Nothing
    BY Zenon, <2>2, ResponseIsSomething
  <2>7. RequestInv(r)'
    BY <1>0, <1>1, <2>2, <2>5, <2>6
      DEF RequestInv, Arrived, Fetching, Parsing, Classified, Prompted, Answered, NotFound, b
  <2> QED BY <1>1, <2>3, <2>4, <2>7, OneMoves
<1>3. CASE b.auth = "valid" /\ b.parsed.ok
  <2>1. parsed' = [parsed EXCEPT ![r] = b.parsed] /\ Generate(r, b.parsed)
    BY Zenon, <1>3 DEF UploadReport
  <2>2. b.parsed.ok = TRUE
    BY <1>0, <1>3, RequestAssumption
  <2> QED BY <1>0, <1>1, <1>3, <2>1, <2>2, GenerateKeeps
<1> QED BY <1>2, <1>3

LEMMA NextMinuteKeeps ==
    ASSUME IInv, NEW a \in Address, NextMinute(a)
    PROVE  IInv'
<1>1. Shape'
  BY LimitAssumption DEF IInv, Shape, NextMinute
<1>2. \A q \in Request : Same(q) /\ diary' = diary
  BY DEF NextMinute, Same
<1> QED BY <1>1, <1>2, SameKeeps DEF IInv

LEMMA StepIInv == IInv /\ [Next]_vars => IInv'
<1> SUFFICES ASSUME IInv, [Next]_vars PROVE IInv'
  OBVIOUS
<1>1. ASSUME NEW r \in Request, Receive(r)
      PROVE  IInv'
  BY <1>1, RefuseKeeps, LimitedKeeps, AdmitKeeps, UploadReportKeeps DEF Receive
<1>2. ASSUME NEW r \in Request, Serve(r)
      PROVE  IInv'
  BY <1>2, FetchEndsKeeps, ParserAsksKeeps, ParseEndsKeeps, GeminiEndsKeeps DEF Serve
<1>3. ASSUME NEW a \in Address, NextMinute(a)
      PROVE  IInv'
  BY <1>3, NextMinuteKeeps
<1>4. CASE UNCHANGED vars
  <2>1. Shape'
    BY <1>4 DEF IInv, Shape, vars
  <2>2. \A q \in Request : Same(q) /\ diary' = diary
    BY <1>4 DEF vars, Same
  <2> QED BY <2>1, <2>2, SameKeeps DEF IInv
<1> QED BY <1>1, <1>2, <1>3, <1>4 DEF Next

THEOREM BridgeInvariant == Spec => []IInv
<1>1. Init => IInv
  BY InitIInv
<1>2. IInv /\ [Next]_vars => IInv'
  BY StepIInv
<1> QED BY <1>1, <1>2, PTL DEF Spec

------------------------------------------------------------------------------
(* What follows for the requests.                                            *)

\* Every request is in one of its phases, and is answered once it is done; no
\* address is ever counted beyond the limit.
THEOREM TypeCorrect == Spec => []TypeOK
<1>1. IInv => TypeOK
  BY DEF IInv, Shape, Bodies, RequestInv, Arrived, TypeOK
<1> QED BY <1>1, BridgeInvariant, PTL

\* The code reads "30 days" as one of the two numbers of days.
Wide == Lookback + 1

LEMMA WideIsAReading == Wide \in Readings
BY DEF Wide, Readings

\* What is behind a prompt, told by the kind of its tag.
LEMMA BehindAPrompt ==
    ASSUME IInv, NEW r \in Request, "report" \in sent[r]
    PROVE  /\ body[r].auth = "valid" /\ parsed[r].ok /\ parsed[r].entry_count # 0
           /\ body[r].tag \in Tag /\ is_valid_tag(body[r].tag)
           /\ \/ /\ body[r].tag.kind = "section" /\ body[r].tag.name \in TAG_WHITELIST
                 /\ handler[r] = SectionOutput(parsed[r], body[r].tag)
              \/ /\ body[r].tag.kind = "day"
                 /\ body[r].tag.day \in DOMAIN parsed[r].by_date
                 /\ handler[r] = DayOutput(body[r].tag, parsed[r].by_date[body[r].tag.day])
           /\ route[r] = "/report" => /\ "sidecar" \in sent[r]
                                      /\ Describes(parsed[r], Ranged(r))
                                      /\ Ranged(r) \in SUBSET Int /\ Ranged(r) # {}
                                      /\ AskedDays(r, Wide) =
                                           IF body[r].tag.kind = "day" THEN {body[r].tag.day}
                                                                       ELSE Ranged(r)
<1>1. /\ body[r].auth = "valid" /\ parsed[r].ok
      /\ handler[r].ok /\ handler[r] = prepare(parsed[r], body[r].tag)
      /\ route[r] = "/report" => "sidecar" \in sent[r] /\ Describes(parsed[r], Got(r))
      /\ phase[r] \in {"gemini", "done"}
  BY DEF IInv, RequestInv, Prompted
<1>2. body[r].tag \in Tag
  BY <1>1, TagsAreTags DEF IInv, RequestInv, Arrived, Shape
<1>3. /\ is_valid_tag(body[r].tag) /\ parsed[r].entry_count # 0
      /\ body[r].tag.kind = "section" => handler[r] = SectionOutput(parsed[r], body[r].tag)
      /\ body[r].tag.kind = "day" =>
           /\ body[r].tag.day \in DOMAIN parsed[r].by_date
           /\ handler[r] = DayOutput(body[r].tag, parsed[r].by_date[body[r].tag.day])
  BY <1>1, <1>2, PrepareOutcome
<1>4. \/ body[r].tag.kind = "section" /\ body[r].tag.name \in TAG_WHITELIST
      \/ body[r].tag.kind = "day"
  BY <1>2, <1>3 DEF Tag, OtherTag, is_valid_tag
<1>5. ASSUME route[r] = "/report"
      PROVE  /\ Describes(parsed[r], Ranged(r))
             /\ Ranged(r) \in SUBSET Int /\ Ranged(r) # {}
             /\ AskedDays(r, Wide) =
                  IF body[r].tag.kind = "day" THEN {body[r].tag.day} ELSE Ranged(r)
  <2>1. Got(r) # {}
    BY <1>1, <1>3, <1>5, FS_EmptySet DEF Describes
  <2>2. Got(r) = Ranged(r) /\ Ranged(r) # {}
    BY <2>1 DEF Got
  <2>3. Ranged(r) \in SUBSET Int /\ Describes(parsed[r], Ranged(r))
    BY <1>1, <1>5, <2>2, GotIsFinite
  <2>4. DOMAIN parsed[r].by_date = Ranged(r)
    BY <2>3 DEF Describes
  <2>5. AskedDays(r, Wide) =
          {d \in Ranged(r) : body[r].tag.kind = "day" => d = body[r].tag.day}
    BY DEF AskedDays, AsksFor, Ranged, DaysInRange, Wide
  <2> QED BY <1>3, <2>2, <2>3, <2>4, <2>5
<1> QED BY <1>1, <1>2, <1>3, <1>4, <1>5

\* Gemini is called for an authenticated request with a valid tag whose range has a
\* day of the diary; for a report, only when there is something of the tag to report.
THEOREM GeminiHasCause == Spec => []GeminiPaidWithCause
<1>1. ASSUME IInv, NEW r \in Request, "classify" \in sent[r]
      PROVE  /\ route[r] = "/report" /\ "sidecar" \in sent[r]
             /\ body[r].auth = "valid" /\ is_valid_tag(body[r].tag)
             /\ DaysInRange(r, Wide) # {}
  BY <1>1 DEF IInv, RequestInv, Classified, Ranged, Wide
<1>2. ASSUME IInv, NEW r \in Request, "report" \in sent[r]
      PROVE  /\ body[r].auth = "valid" /\ is_valid_tag(body[r].tag)
             /\ parsed[r].ok /\ parsed[r].entry_count # 0
             /\ body[r].tag.kind = "day" => body[r].tag.day \in DOMAIN parsed[r].by_date
             /\ route[r] = "/report" =>
                  /\ "sidecar" \in sent[r]
                  /\ DaysInRange(r, Wide) # {} /\ AskedDays(r, Wide) # {}
  BY <1>2, BehindAPrompt DEF Ranged, Wide
<1>3. IInv => GeminiPaidWithCause
  BY <1>1, <1>2, WideIsAReading DEF GeminiPaidWithCause
<1> QED BY <1>3, BridgeInvariant, PTL

\* The answer to a POST /report counts the days it was asked for and gives a range
\* around them; for a day, it is of that day, which the diary has.
THEOREM ReportIsTrueOfDiary == Spec => []ReportDescribesDiary
<1>1. ASSUME IInv, NEW r \in Request, phase[r] = "done", route[r] = "/report", response[r].ok
      PROVE  LET report == response[r]
                 tag == body[r].tag
             IN  /\ report.start # NoDate /\ report.end # NoDate
                 /\ \A d \in AskedDays(r, Wide) : report.start <= d /\ d <= report.end
                 /\ tag.kind = "section" =>
                      report.entry_count = Cardinality(AskedDays(r, Wide))
                 /\ tag.kind = "day" =>
                      /\ AskedDays(r, Wide) = {tag.day}
                      /\ report.start = tag.day /\ report.end = tag.day
                      /\ report.entry_count > 0
  <2>1. "report" \in sent[r] /\ response[r] = handler[r]
    BY <1>1 DEF IInv, RequestInv, Answered
  <2>2. /\ Describes(parsed[r], Ranged(r))
        /\ Ranged(r) \in SUBSET Int /\ Ranged(r) # {}
        /\ AskedDays(r, Wide) = IF body[r].tag.kind = "day" THEN {body[r].tag.day} ELSE Ranged(r)
    BY <1>1, <2>1, BehindAPrompt
  <2>3. CASE /\ body[r].tag.kind = "section"
             /\ handler[r] = SectionOutput(parsed[r], body[r].tag)
    <3>1. /\ response[r].start = parsed[r].start /\ response[r].end = parsed[r].end
          /\ response[r].entry_count = parsed[r].entry_count
      BY <2>1, <2>3 DEF SectionOutput
    <3>2. /\ parsed[r].start \in Int /\ parsed[r].end \in Int
          /\ \A d \in Ranged(r) : parsed[r].start <= d /\ d <= parsed[r].end
          /\ parsed[r].entry_count = Cardinality(Ranged(r))
      BY <2>2 DEF Describes, Covers
    <3>3. AskedDays(r, Wide) = Ranged(r)
      BY <2>2, <2>3
    <3> QED BY <2>3, <3>1, <3>2, <3>3, DateAssumption
  <2>4. CASE /\ body[r].tag.kind = "day"
             /\ body[r].tag.day \in DOMAIN parsed[r].by_date
             /\ handler[r] = DayOutput(body[r].tag, parsed[r].by_date[body[r].tag.day])
    <3>1. /\ response[r].start = body[r].tag.day /\ response[r].end = body[r].tag.day
          /\ response[r].entry_count = parsed[r].by_date[body[r].tag.day]
      BY <2>1, <2>4 DEF DayOutput
    <3>2. /\ body[r].tag.day \in Ranged(r) /\ parsed[r].by_date[body[r].tag.day] > 0
      BY <2>2, <2>4 DEF Describes
    <3>3. AskedDays(r, Wide) = {body[r].tag.day} /\ body[r].tag.day \in Int
      BY <2>2, <2>4, <3>2
    <3> QED BY <2>4, <3>1, <3>2, <3>3, DateAssumption
  <2> QED BY <1>1, <2>1, <2>3, <2>4, BehindAPrompt
<1>2. IInv => ReportDescribesDiary
  BY <1>1, WideIsAReading DEF ReportDescribesDiary
<1> QED BY <1>2, BridgeInvariant, PTL

\* A POST /report that is told there are no entries, or no such day, has the sidecar's
\* word for it, and the diary has none in its range; but for an object that is not the
\* sidecar's and has no entries.
THEOREM NotFoundIsTheDiarys == Spec => []NotFoundMeansNotThere
<1>1. IInv => NotFoundMeansNotThere
  BY DEF IInv, RequestInv, NotFound, NotFoundMeansNotThere, Journal
<1> QED BY <1>1, BridgeInvariant, PTL

\* The categories a template asks for are those of the slice for its tag.
LEMMA SliceHasWhatIsAsked ==
    ASSUME NEW c, NEW tag \in Tag, tag.kind = "section", tag.name \in TAG_WHITELIST
    PROVE  /\ TEMPLATES[tag.name] \cap Category \subseteq _slice_for_tag(c, tag).categories
           /\ tag.name # "/detail" => Cardinality(_slice_for_tag(c, tag).categories) = 1
<1> DEFINE cats == _slice_for_tag(c, tag).categories
<1>1. CASE tag.name = "/detail"
  <2>1. cats = Category
    BY <1>1 DEF _slice_for_tag
  <2> QED BY <1>1, <2>1
<1>2. CASE tag.name = "/todo"
  <2>1. cats = {"todos"}
    BY <1>2 DEF _slice_for_tag
  <2>2. TEMPLATES["/todo"] = {"open", "completed", "deferred", "analysis"}
    BY DEF TEMPLATES, TAG_WHITELIST
  <2>3. TEMPLATES["/todo"] \cap Category = {}
    BY <2>2 DEF Category
  <2> HIDE DEF cats
  <2> QED BY <1>2, <2>1, <2>3, FS_Singleton DEF cats
<1>3. CASE tag.name = "/concern"
  <2>1. cats = {"concerns"}
    BY <1>3 DEF _slice_for_tag
  <2>2. TEMPLATES["/concern"] = {"anxieties", "fears", "failures", "empathic_summary"}
    BY DEF TEMPLATES, TAG_WHITELIST
  <2>3. TEMPLATES["/concern"] \cap Category = {}
    BY <2>2 DEF Category
  <2> HIDE DEF cats
  <2> QED BY <1>3, <2>1, <2>3, FS_Singleton DEF cats
<1>4. CASE tag.name = "/success"
  <2>1. cats = {"successes"}
    BY <1>4 DEF _slice_for_tag
  <2>2. TEMPLATES["/success"] =
          {"achievements", "milestones", "positive_moments", "celebratory_summary"}
    BY DEF TEMPLATES, TAG_WHITELIST
  <2>3. TEMPLATES["/success"] \cap Category = {}
    BY <2>2 DEF Category
  <2> HIDE DEF cats
  <2> QED BY <1>4, <2>1, <2>3, FS_Singleton DEF cats
<1> QED BY <1>1, <1>2, <1>3, <1>4 DEF TAG_WHITELIST

\* For a report, Gemini is sent the days asked for, or the day of the tag, and of
\* these one bucket for a single-axis tag, with every category its template asks for.
THEOREM PromptIsOfWhatWasAsked == Spec => []PromptIsWhatWasAsked
<1>1. ASSUME IInv, NEW r \in Request, "report" \in sent[r]
      PROVE  LET payload == handler[r].prompt.payload
                 tag == body[r].tag
             IN  /\ route[r] = "/report" =>
                      payload.days = AskedDays(r, Wide)
                 /\ handler[r].prompt.asks \cap Category \subseteq payload.categories
                 /\ tag.kind = "section" /\ tag.name # "/detail" =>
                      Cardinality(payload.categories) = 1
  <2> DEFINE tag == body[r].tag
             payload == handler[r].prompt.payload
  <2>1. /\ tag \in Tag
        /\ route[r] = "/report" =>
             /\ Describes(parsed[r], Ranged(r))
             /\ AskedDays(r, Wide) = IF tag.kind = "day" THEN {tag.day} ELSE Ranged(r)
    BY <1>1, BehindAPrompt
  <2>2. CASE /\ tag.kind = "section" /\ tag.name \in TAG_WHITELIST
             /\ handler[r] = SectionOutput(parsed[r], tag)
    <3>1. /\ payload = _slice_for_tag(parsed[r], tag)
          /\ handler[r].prompt.asks = TEMPLATES[tag.name]
      BY <2>2 DEF SectionOutput, build_user_prompt
    <3>2. payload.days = DOMAIN parsed[r].by_date
      BY <3>1 DEF _slice_for_tag
    <3>3. route[r] = "/report" => payload.days = AskedDays(r, Wide)
      BY <2>1, <2>2, <3>2 DEF Describes
    <3>4. /\ TEMPLATES[tag.name] \cap Category \subseteq payload.categories
          /\ tag.name # "/detail" => Cardinality(payload.categories) = 1
      BY <2>1, <2>2, <3>1, SliceHasWhatIsAsked
    <3> QED BY <2>2, <3>1, <3>3, <3>4
  <2>3. CASE /\ tag.kind = "day"
             /\ handler[r] = DayOutput(tag, parsed[r].by_date[tag.day])
    <3>1. payload.days = {tag.day} /\ payload.categories = Category
      BY <2>3 DEF DayOutput, build_user_prompt
    <3> QED BY <2>1, <2>3, <3>1
  <2> QED BY <1>1, <2>2, <2>3, BehindAPrompt
<1>2. IInv => PromptIsWhatWasAsked
  BY <1>1, WideIsAReading DEF PromptIsWhatWasAsked
<1> QED BY <1>2, BridgeInvariant, PTL

\* A template is shown by the renderer that takes all of its fields.
LEMMA RendererIsForTemplate ==
    /\ \A name \in TAG_WHITELIST, tag \in Tag :
         tag.kind = "section" /\ tag.name = name => Renderer(tag) = TEMPLATES[name]
    /\ \A tag \in Tag : tag.kind = "day" => Renderer(tag) = TEMPLATES["/date"]
<1>1. /\ TEMPLATES["/detail"] = _render_detail /\ TEMPLATES["/todo"] = _render_todo
      /\ TEMPLATES["/concern"] = _render_concern /\ TEMPLATES["/success"] = _render_success
      /\ TEMPLATES["/date"] = _render_date
  <2>1. TEMPLATES["/detail"] = _render_detail /\ TEMPLATES["/date"] = _render_date
    BY DEF TEMPLATES, TAG_WHITELIST, _render_detail, _render_date
  <2>2. TEMPLATES["/todo"] = _render_todo /\ TEMPLATES["/concern"] = _render_concern
    BY DEF TEMPLATES, TAG_WHITELIST, _render_todo, _render_concern
  <2>3. TEMPLATES["/success"] = _render_success
    BY DEF TEMPLATES, TAG_WHITELIST, _render_success
  <2> QED BY <2>1, <2>2, <2>3
<1>2. ASSUME NEW tag \in Tag, tag.kind = "section"
      PROVE  tag.name \in TAG_WHITELIST /\ tag = Section(tag.name)
  BY <1>2 DEF Tag, Section, OtherTag
<1>3. \A n, m : Section(n) = Section(m) => n = m
  BY DEF Section
<1>4. ASSUME NEW name \in TAG_WHITELIST, NEW tag \in Tag, tag.kind = "section", tag.name = name
      PROVE  Renderer(tag) = TEMPLATES[name]
  <2>1. tag = Section(name)
    BY <1>2, <1>4
  <2>2. /\ tag = Section("/detail") <=> name = "/detail"
        /\ tag = Section("/todo") <=> name = "/todo"
        /\ tag = Section("/concern") <=> name = "/concern"
        /\ tag = Section("/success") <=> name = "/success"
    BY <1>3, <2>1
  <2>3. Renderer(tag) = CASE name = "/detail"  -> _render_detail
                          [] name = "/todo"    -> _render_todo
                          [] name = "/concern" -> _render_concern
                          [] name = "/success" -> _render_success
                          [] OTHER -> _render_date
    BY <2>2 DEF Renderer
  <2> QED BY <1>1, <2>3 DEF TAG_WHITELIST
<1>5. ASSUME NEW tag \in Tag, tag.kind = "day"
      PROVE  Renderer(tag) = TEMPLATES["/date"]
  <2>1. \A n : tag # Section(n)
    BY <1>5 DEF Section
  <2> QED BY <1>1, <2>1 DEF Renderer
<1> QED BY <1>4, <1>5

\* A report shows the fields its template had Gemini write, all and no others.
THEOREM ReportShowsItsTemplate == Spec => []ReportShowsWhatWasAsked
<1>1. ASSUME IInv, NEW r \in Request, phase[r] = "done", response[r].ok
      PROVE  response[r].shows = response[r].prompt.asks
  <2> DEFINE tag == body[r].tag
  <2>1. "report" \in sent[r] /\ response[r] = handler[r]
    BY <1>1 DEF IInv, RequestInv, Answered
  <2>2. tag \in Tag
    BY <1>1, <2>1, BehindAPrompt
  <2>3. CASE /\ tag.kind = "section" /\ tag.name \in TAG_WHITELIST
             /\ handler[r] = SectionOutput(parsed[r], tag)
    <3>1. /\ response[r].shows = Renderer(tag)
          /\ response[r].prompt.asks = TEMPLATES[tag.name]
      BY <2>1, <2>3 DEF SectionOutput, build_user_prompt
    <3> QED BY <2>2, <2>3, <3>1, RendererIsForTemplate
  <2>4. CASE /\ tag.kind = "day"
             /\ handler[r] = DayOutput(tag, parsed[r].by_date[tag.day])
    <3>1. /\ response[r].shows = Renderer(tag)
          /\ response[r].prompt.asks = TEMPLATES["/date"]
      BY <2>1, <2>4 DEF DayOutput, build_user_prompt
    <3> QED BY <2>2, <2>4, <3>1, RendererIsForTemplate
  <2> QED BY <1>1, <2>1, <2>3, <2>4, BehindAPrompt
<1>2. IInv => ReportShowsWhatWasAsked
  BY <1>1 DEF ReportShowsWhatWasAsked
<1> QED BY <1>2, BridgeInvariant, PTL
==============================================================================
