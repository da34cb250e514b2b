---------------------------- MODULE SidecarPromise ----------------------------
(***************************************************************************)
(* What GET /api/entries promises its callers: a request, once made, is    *)
(* answered, once, with exactly the days it asks for as the diary holds    *)
(* them at one moment, or with a refusal that says whose fault it is.  How *)
(* connections are shared is not visible here.  The docs count days and    *)
(* the code goes back from a date: both readings of "30 days" are allowed, *)
(* for the whole of an answer.                                             *)
(***************************************************************************)
EXTENDS Converter

CONSTANTS Request, Query, Diaries, None

VARIABLES diary, query, answer

vars == <<diary, query, answer>>

\* "Defaults to the last 30 days when no range is given" (main.py:6-7), read as n
\* days; a range with an end and no start is filled in alike.
Asks(q, n, d) ==
    LET last == Or(q.end, Today)
    IN  \/ q.fetch_all
        \/ q.start # NoDate /\ q.start <= d /\ d <= last
        \/ q.start = NoDate /\ Within(d, n, last)

Backwards(q) == q.start # NoDate /\ q.end # NoDate /\ q.start > q.end

Status(s) == [kind |-> "status", status |-> s]

\* The database and the key of the server may be at fault for any request; for one
\* that is let in, also its limit and what it does not handle.
Blame(q) ==
    {Status(503)} \cup {Status(s) : s \in IF q.auth = "valid" THEN {429, 500} ELSE {401}}
                  \cup (IF Backwards(q) THEN {Status(400)} ELSE {})

\* Nothing is shown without the key, nor for a range that makes no sense.
Days(q) ==
    IF q.auth = "valid" /\ ~Backwards(q) /\ ~Underflows(q)
      THEN {[kind |-> "entries", entries |-> {d \in diary : Asks(q, n, d)}] : n \in Readings}
      ELSE {}

Init ==
    /\ diary \in Diaries
    /\ query = [r \in Request |-> None]
    /\ answer = [r \in Request |-> None]

Write == diary' \in Diaries /\ UNCHANGED <<query, answer>>

Ask(r) ==
    /\ query[r] = None
    /\ \E q \in Query :
         /\ query' = [query EXCEPT ![r] = q]
         /\ \/ UNCHANGED answer
            \/ \E a \in Blame(q) : answer' = [answer EXCEPT ![r] = a]
    /\ UNCHANGED diary

Answer(r) ==
    /\ query[r] # None /\ answer[r] = None
    /\ \E a \in Blame(query[r]) \cup Days(query[r]) : answer' = [answer EXCEPT ![r] = a]
    /\ UNCHANGED <<diary, query>>

Next == Write \/ \E r \in Request : Ask(r) \/ Answer(r)

SafeSpec == Init /\ [][Next]_vars

Spec == SafeSpec /\ \A r \in Request : WF_vars(Answer(r))
==============================================================================
