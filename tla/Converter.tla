------------------------------ MODULE Converter ------------------------------
(***************************************************************************)
(* The window of a request, what the Cornell sidecar answers for it, and   *)
(* what the ConverterService makes of that answer: the Converter leg of    *)
(* the bridge as functions.  A day is an integer; the diary has one row    *)
(* for each of its days, and a row is known by its day.                    *)
(***************************************************************************)
EXTENDS Integers, FiniteSets

CONSTANTS
    Today,          \* date.today()
    MinDay,         \* date.min
    Lookback,       \* DEFAULT_LOOKBACK_DAYS, and the 30 of _fetch_raw
    NoDate          \* None

ASSUME DateAssumption == MinDay \in Int /\ Today \in Int /\ Lookback \in Nat \ {0} /\ NoDate \notin Int

Error(status, code) == [ok |-> FALSE, status |-> status, code |-> code]

FirstDay(days) == CHOOSE d \in days : \A e \in days : d <= e
LastDay(days) == CHOOSE d \in days : \A e \in days : d >= e

\* min() and max() of the dates of the entries, by default None.
Least(days) == IF days = {} THEN NoDate ELSE FirstDay(days)
Greatest(days) == IF days = {} THEN NoDate ELSE LastDay(days)

\* "a or b"
Or(a, b) == IF a = NoDate THEN b ELSE a

------------------------------------------------------------------------------
(* What documentation says of a window, in numbers of days.                  *)

\* d is one of the n days of which the last one is last.
Within(d, n, last) == d <= last /\ Cardinality(d..last) <= n

\* "30 days" where a range is not given in full: that many days, or the days since
\* the date that many days before, which is one day more.
Readings == {Lookback, Lookback + 1}

------------------------------------------------------------------------------
(* routes.py: the range semantics of a request body.                         *)

All == [start |-> NoDate, end |-> NoDate]

Filled(range) ==
    LET end == Or(range.end, Today)
    IN  [start |-> Or(range.start, end - Lookback), end |-> end]

\* Mutant: off by one.
LastDaysOneMore == [start |-> Today - Lookback, end |-> Today]

LastDays == [start |-> Today - (Lookback - 1), end |-> Today]

\* What _fetch_raw asks the Converter for; "date_range" may be absent, or empty.
Window(body) ==
    IF body.fetch_all THEN All
    ELSE IF body.start # NoDate \/ body.end # NoDate THEN Filled(body)
    ELSE LastDays

\* The day it fills in is before the calendar: OverflowError, which nothing handles.
Underflows(body) ==
    /\ ~body.fetch_all
    /\ body.start = NoDate /\ body.end # NoDate
    /\ body.end - Lookback < MinDay

\* ConverterService.fetch refuses such a window.
Inverted(window) == window # All /\ window.start > window.end

------------------------------------------------------------------------------
(* The sidecar: GET /api/entries.                                            *)

Rows(diary, window) ==
    IF window = All THEN diary ELSE {d \in diary : window.start <= d /\ d <= window.end}

\* derive_range
Derived(rows, window) ==
    IF window.start # NoDate /\ window.end # NoDate THEN window
    ELSE IF rows # {} THEN [start |-> FirstDay(rows), end |-> LastDay(rows)]
    ELSE [start |-> Today, end |-> Today]

NoAnswer == {[kind |-> k] : k \in {"timeout", "unreachable"}}

\* The status of a refusal: a wrong key, its rate limit, no database, or an
\* exception it does not handle.
Refusals == {[kind |-> "status", status |-> s] : s \in {401, 429, 500, 503}}

\* A JSON object without "entries", such as another service's error.
OtherObject == [kind |-> "other_object"]

\* A body that is not the sidecar's: a proxy's page, another service's JSON.
Foreign == {[kind |-> "body", shape |-> s] :
              s \in {"not_json", "not_object", "entries_not_list", "bad_entry", "range_not_object"}}
           \cup {OtherObject}

\* Its answer, with the range left out as older endpoints do, or with it.
Answers(diary, window) ==
    LET rows == Rows(diary, window)
    IN  {[kind |-> "entries", entries |-> rows, range |-> r] : r \in {All, Derived(rows, window)}}

Replies(diary, window) == NoAnswer \cup Refusals \cup Foreign \cup Answers(diary, window)

------------------------------------------------------------------------------
(* CornellClient.fetch_entries and ConverterService._normalize.              *)

StatusError(status) ==
    IF status \in {401, 403} THEN Error(502, "cornell_auth_error")
    ELSE IF status >= 500 THEN Error(502, "cornell_unavailable")
    ELSE Error(502, "converter_error")

\* A range that is no object raises AttributeError, which nothing handles.
BodyError(shape) ==
    IF shape = "range_not_object" THEN Error(500, "") ELSE Error(502, "converter_error")

Normalized(reply, window) ==
    [ok |-> TRUE, entries |-> reply.entries,
     start |-> Or(Or(reply.range.start, window.start), Least(reply.entries)),
     end   |-> Or(Or(reply.range.end, window.end), Greatest(reply.entries))]

\* payload.get("entries", []): an object without the key has no entries.
Empty == [entries |-> {}, range |-> All]

\* Mutant: an endpoint that does not answer is an empty journal.
FetchedOrEmpty(reply, window) ==
    CASE reply.kind \in {"timeout", "unreachable"} ->
           [ok |-> TRUE, entries |-> {}, start |-> window.start, end |-> window.end]
      [] reply.kind = "status" -> StatusError(reply.status)
      [] reply.kind = "body" -> BodyError(reply.shape)
      [] reply.kind = "other_object" -> Normalized(Empty, window)
      [] reply.kind = "entries" -> Normalized(reply, window)

Fetched(reply, window) ==
    CASE reply.kind \in {"timeout", "unreachable"} -> Error(502, "cornell_unavailable")
      [] reply.kind = "status" -> StatusError(reply.status)
      [] reply.kind = "body" -> BodyError(reply.shape)
      [] reply.kind = "other_object" -> Normalized(Empty, window)
      [] reply.kind = "entries" -> Normalized(reply, window)
==============================================================================
