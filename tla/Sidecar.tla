------------------------------- MODULE Sidecar -------------------------------
(***************************************************************************)
(* The Cornell sidecar (cornell_journal_api/src): one process with one     *)
(* asyncpg pool, built when the application starts or never, and the       *)
(* requests for GET /api/entries that share it.  The Diary application     *)
(* writes to the same database while they run.                             *)
(*                                                                         *)
(* A request awaits twice: a connection, for as long as it takes, and its  *)
(* rows, for at most command_timeout.  Connecting and fetching may fail    *)
(* whenever they like; the handler runs on when its client has gone.       *)
(***************************************************************************)
EXTENDS Converter

CONSTANTS
    Request,
    Query,          \* [auth, start, end, fetch_all]
    Diaries,        \* the days the diary may have
    PoolSize,       \* max_size of create_pool
    RateLimit,      \* rate_limit_per_minute
    None

ASSUME PoolAssumption == PoolSize \in Nat \ {0} /\ RateLimit \in Nat \ {0}

ASSUME QueryAssumption ==
    /\ None \notin Query
    /\ Query \subseteq [auth : {"valid", "missing", "unset"}, start : Int \cup {NoDate},
                       end : Int \cup {NoDate}, fetch_all : BOOLEAN]

ASSUME DiariesAssumption == Diaries \subseteq SUBSET Int

VARIABLES
    diary,      \* the days of diary_entries
    pool,       \* app.state.pg_pool: "unbuilt", "none" or "open"
    free,       \* connections of the pool nobody has acquired
    query,      \* of each request
    phase,      \* what it awaits
    reply,      \* what it was answered, None before
    hits        \* slowapi: the requests counted in this minute

vars == <<diary, pool, free, query, phase, reply, hits>>
requests == <<query, phase, reply>>

Status(s) == [kind |-> "status", status |-> s]

Init ==
    /\ diary \in Diaries
    /\ pool = "unbuilt"
    /\ free = 0
    /\ query = [r \in Request |-> None]
    /\ phase = [r \in Request |-> "none"]
    /\ reply = [r \in Request |-> None]
    /\ hits = 0

\* The lifespan's start: create_pool, or no pool until the next start.
Boot ==
    /\ pool = "unbuilt"
    /\ \/ pool' = "open" /\ free' = PoolSize
       \/ pool' = "none" /\ free' = 0
    /\ UNCHANGED <<diary, requests, hits>>

\* Its end: the server has let the requests finish, pool.close() finds every
\* connection released, and the limiter's memory is gone.
Shutdown ==
    /\ pool # "unbuilt"
    /\ \A r \in Request : phase[r] \in {"none", "done"}
    /\ pool = "open" => free = PoolSize
    /\ pool' = "unbuilt"
    /\ free' = 0
    /\ hits' = 0
    /\ UNCHANGED <<diary, requests>>

\* The Diary application saves a day, or removes one.
DiaryChanges(days) ==
    /\ diary' = days
    /\ UNCHANGED <<pool, free, requests, hits>>

NextMinute ==
    /\ hits' = 0
    /\ UNCHANGED <<diary, pool, free, requests>>

------------------------------------------------------------------------------

Arrive(r, q) ==
    /\ pool # "unbuilt"
    /\ query[r] = None
    /\ query' = [query EXCEPT ![r] = q]
    /\ UNCHANGED <<diary, pool, free>>

Respond(r, a) ==
    /\ phase' = [phase EXCEPT ![r] = "done"]
    /\ reply' = [reply EXCEPT ![r] = a]

Await(r, what) == phase' = [phase EXCEPT ![r] = what] /\ UNCHANGED reply

\* _verify_api_key, a dependency: it runs before the limiter counts.
Refuse(r, q) ==
    /\ Arrive(r, q)
    /\ q.auth # "valid"
    /\ Respond(r, Status(IF q.auth = "unset" THEN 503 ELSE 401))
    /\ UNCHANGED hits

\* Mutant: off by one.
UpToLimit == hits <= RateLimit

WithinLimit == hits < RateLimit

Limited(r, q) ==
    /\ Arrive(r, q)
    /\ q.auth = "valid"
    /\ ~WithinLimit
    /\ Respond(r, Status(429))
    /\ UNCHANGED hits

InvertedQuery(q) == q.start # NoDate /\ q.end # NoDate /\ q.start > q.end

\* get_entries up to its first await; a start filled in before the calendar is
\* an OverflowError, which nothing handles.
Admit(r, q) ==
    /\ Arrive(r, q)
    /\ q.auth = "valid"
    /\ WithinLimit
    /\ hits' = hits + 1
    /\ IF InvertedQuery(q) THEN Respond(r, Status(400))
       ELSE IF pool = "none" THEN Respond(r, Status(503))
       ELSE IF Underflows(q) THEN Respond(r, Status(500))
       ELSE Await(r, "connection")

\* pool.acquire(): any waiter may get a connection that is free.
Acquire(r) ==
    /\ phase[r] = "connection" /\ free > 0
    /\ free' = free - 1
    /\ Await(r, "rows")
    /\ UNCHANGED <<diary, pool, query, hits>>

\* PostgresError and OSError are the database's fault; another exception of asyncpg,
\* such as InterfaceError, is not handled.
Failure == {Status(503), Status(500)}

\* The connection has to be opened again, and the database does not let it.
AcquireFails(r) ==
    /\ phase[r] = "connection" /\ free > 0
    /\ \E failure \in Failure : Respond(r, failure)
    /\ UNCHANGED <<diary, pool, free, query, hits>>

\* Mutant: a range with one end loses the other.
FetchWindowEndless(q) == IF q.fetch_all \/ q.start = NoDate \/ q.end = NoDate THEN All ELSE Filled(q)

FetchWindow(q) == IF q.fetch_all THEN All ELSE Filled(q)

\* Mutant: the range of the rows even where both ends were requested.
ServedWithRowRange(q) ==
    LET rows == Rows(diary, FetchWindow(q))
    IN  [kind |-> "entries", entries |-> rows, range |-> Derived(rows, All)]

\* The rows as the database has them at the SELECT; the range is derived from
\* the parameters of the request, not from the window they were filled in to.
Served(q) ==
    LET rows == Rows(diary, FetchWindow(q))
    IN  [kind |-> "entries", entries |-> rows,
         range |-> Derived(rows, [start |-> q.start, end |-> q.end])]

FetchReturns(r) ==
    /\ phase[r] = "rows"
    /\ free' = free + 1
    /\ Respond(r, Served(query[r]))
    /\ UNCHANGED <<diary, pool, query, hits>>

\* Mutant: the connection of a failed query is not released.
FetchFailsAndLeaks(r) ==
    /\ phase[r] = "rows"
    /\ \E failure \in Failure : Respond(r, failure)
    /\ UNCHANGED <<diary, pool, free, query, hits>>

\* An error of the database, a lost connection or command_timeout; "async with"
\* releases.
FetchFails(r) ==
    /\ phase[r] = "rows"
    /\ free' = free + 1
    /\ \E failure \in Failure : Respond(r, failure)
    /\ UNCHANGED <<diary, pool, query, hits>>

Receive(r) == \E q \in Query : Refuse(r, q) \/ Limited(r, q) \/ Admit(r, q)

Serve(r) == Acquire(r) \/ AcquireFails(r) \/ FetchReturns(r) \/ FetchFails(r)

Next ==
    \/ Boot \/ Shutdown \/ NextMinute
    \/ \E days \in Diaries : DiaryChanges(days)
    \/ \E r \in Request : Receive(r) \/ Serve(r)

Spec == Init /\ [][Next]_vars

\* A connection that is free wakes who waits for one, opening it and fetching
\* from it are bounded by asyncpg's timeouts.
FairSpec == Spec /\ \A r \in Request : WF_vars(Serve(r))

------------------------------------------------------------------------------
(* The mock endpoint (scripts/seed_mock_data.py) that stands in for it.      *)

\* Mutant: its last day is exclusive.
MockWindowShort(q) ==
    IF q.fetch_all THEN All
    ELSE IF q.start = NoDate \/ q.end = NoDate THEN [start |-> Today - Lookback, end |-> Today - 1]
    ELSE [start |-> q.start, end |-> q.end - 1]

\* Both ends are filled in where one is missing.
MockWindow(q) ==
    IF q.fetch_all THEN All
    ELSE IF q.start = NoDate \/ q.end = NoDate THEN [start |-> Today - Lookback, end |-> Today]
    ELSE [start |-> q.start, end |-> q.end]

MockServed(q) ==
    LET rows == Rows(diary, MockWindow(q))
    IN  [kind |-> "entries", entries |-> rows, range |-> Derived(rows, MockWindow(q))]

------------------------------------------------------------------------------
(* Properties.                                                               *)

TypeOK ==
    /\ diary \in Diaries
    /\ pool \in {"unbuilt", "none", "open"}
    /\ free \in 0..PoolSize
    /\ query \in [Request -> Query \cup {None}]
    /\ phase \in [Request -> {"none", "connection", "rows", "done"}]
    /\ DOMAIN reply = Request
    /\ hits \in 0..RateLimit
    /\ \A r \in Request : phase[r] = "none" <=> query[r] = None
    /\ \A r \in Request : reply[r] # None => phase[r] = "done"

Holding == {r \in Request : phase[r] = "rows"}

\* However requests end - answered, failed, timed out, or their client gone -
\* every connection of the pool is free or with a request that is fetching:
\* none leaks, and at most five are in use (db.py:50-51).
ConnectionsAccounted ==
    /\ pool = "open" => free + Cardinality(Holding) = PoolSize
    /\ pool # "open" => Holding = {} /\ free = 0

\* What a caller sees of the replies: the range is the Converter's concern.
Shown(a) ==
    IF a # None /\ a.kind = "entries" THEN [kind |-> "entries", entries |-> a.entries] ELSE a

answer == [r \in Request |-> Shown(reply[r])]

Promise == INSTANCE SidecarPromise WITH answer <- answer

\* The sidecar implements its promise: whatever runs beside it, a request is
\* answered with the days it asks for as they stood at one moment, or refused
\* for a reason it is to blame for - and it is answered, even if it has to wait
\* for one of five connections.
ImplementsPromise == Promise!Spec

\* What ConverterService.fetch asks: everything, or a window it has checked.
ConverterWindow(q) == IF q.fetch_all THEN All ELSE [start |-> q.start, end |-> q.end]

FromConverter(q) ==
    LET window == ConverterWindow(q)
    IN  /\ q.auth = "valid"
        /\ IF q.fetch_all THEN q.start = NoDate /\ q.end = NoDate
           ELSE q.start # NoDate /\ q.end # NoDate /\ ~Inverted(window)

\* The bridge relies on the answers Converter!Replies lists: what the sidecar
\* answers the Converter is one of them, and true of the diary as it then is.
AnswersAsRelied ==
    [][\A r \in Request :
         reply[r] = None /\ reply'[r] # None /\ FromConverter(query'[r]) =>
           reply'[r] \in Replies(diary, ConverterWindow(query'[r]))]_vars

\* Tests run against the mock instead: it answers the Converter as the sidecar
\* would, although it reads a range with one end missing differently.
MockStandsIn ==
    \A q \in Query : FromConverter(q) =>
        /\ MockServed(q).entries = Served(q).entries
        /\ MockServed(q) \in Answers(diary, ConverterWindow(q))
==============================================================================
