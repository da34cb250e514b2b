----------------------------- MODULE GeminiClient -----------------------------
(***************************************************************************)
(* GeminiClient.generate_json and its default backend                      *)
(* (src/modules/reporter/ai_client.py), several calls at once.             *)
(*                                                                         *)
(* An attempt is a job for the thread pool of the event loop, awaited      *)
(* under a timeout.  Giving up on it takes the job from the pool's queue,  *)
(* but never off a thread: the SDK call runs on, for as long as it likes,  *)
(* and what it returns is dropped.  The pool is asyncio's.                 *)
(*                                                                         *)
(* A timer may fire at any moment of its attempt, so no clock is kept.     *)
(* What an exception says is the set of the substrings generate_json looks *)
(* for; a text is JSON, once its fences are stripped, or it is not.        *)
(***************************************************************************)
EXTENDS Integers, Sequences, FiniteSets, SequencesExt

CONSTANTS
    Call,           \* the calls of generate_json of the process
    Client,         \* the GeminiClients, each with a backend of its own
    ClientOf,       \* the client of each call
    Workers,        \* threads of the default executor
    MaxRetries,     \* MAX_RETRIES
    Text,           \* what response.text may be: [json : BOOLEAN]
    LocalFault,     \* what loading the SDK may raise: [cause, words]
    Fault,          \* what its call may raise: [cause, words]
    TimedOut        \* asyncio.TimeoutError

Words == {"rate", "quota", "429", "auth", "api key", "401", "403"}

ASSUME ClientAssumption == ClientOf \in [Call -> Client]

ASSUME PoolAssumption == Workers \in Nat \ {0} /\ MaxRetries \in Nat

ASSUME ReplyAssumption ==
    /\ \A t \in Text : t.json \in BOOLEAN
    /\ \A f \in Fault \cup LocalFault : f.words \subseteq Words
    /\ Text \cap (Fault \cup LocalFault) = {}
    /\ TimedOut \notin Text \cup Fault \cup LocalFault

VARIABLES
    modelReady, \* of each client: its backend's _model is not None
    queue,      \* jobs no thread has taken yet
    running,    \* jobs on a thread
    returned,   \* jobs whose result the loop has not yet seen, with that result
    attempt,    \* the attempt of each call, 0 before the call
    outcome,    \* how the call ended, "none" before
    seen        \* history: what each attempt came to

vars == <<modelReady, queue, running, returned, attempt, outcome, seen>>
pool == <<queue, running, returned>>

Attempts == MaxRetries + 1
Job == [call : Call, attempt : 1..Attempts]
Reply == Text \cup Fault

Current(c) == [call |-> c, attempt |-> attempt[c]]
Pending(c) == attempt[c] > 0 /\ outcome[c] = "none"
Awaits(j) == Pending(j.call) /\ j = Current(j.call)

Init ==
    /\ modelReady = [k \in Client |-> FALSE]
    /\ queue = <<>>
    /\ running = {}
    /\ returned = {}
    /\ attempt = [c \in Call |-> 0]
    /\ outcome = [c \in Call |-> "none"]
    /\ seen = [c \in Call |-> <<>>]

------------------------------------------------------------------------------

\* The except clauses of generate_json, in their order.
Classified(f) ==
    IF f.words \cap {"rate", "quota", "429"} # {} THEN "rate_limit"
    ELSE IF f.words \cap {"auth", "api key", "401", "403"} # {} THEN "auth_error"
    ELSE "call_failed"

Saw(c, reply) == seen' = [seen EXCEPT ![c] = Append(@, reply)]
End(c, how) == outcome' = [outcome EXCEPT ![c] = how]

Submit(c, n) ==
    /\ attempt' = [attempt EXCEPT ![c] = n]
    /\ queue' = Append(queue, [call |-> c, attempt |-> n])

\* The first attempt; the model is built on the first one of its client.
Begin(c) ==
    /\ attempt[c] = 0 /\ outcome[c] = "none"
    /\ modelReady' = [modelReady EXCEPT ![ClientOf[c]] = TRUE]
    /\ Submit(c, 1)
    /\ UNCHANGED <<running, returned, outcome, seen>>

\* _ensure_model raises, for a client that has no model yet: the SDK is missing
\* or will not be configured.
ModelFails(c, f) ==
    /\ attempt[c] = 0 /\ outcome[c] = "none"
    /\ ~modelReady[ClientOf[c]]
    /\ attempt' = [attempt EXCEPT ![c] = 1]
    /\ End(c, Classified(f))
    /\ Saw(c, f)
    /\ UNCHANGED <<modelReady, pool>>

\* A free thread takes the oldest job.
StartJob ==
    /\ queue # <<>>
    /\ Cardinality(running) < Workers
    /\ running' = running \cup {Head(queue)}
    /\ queue' = Tail(queue)
    /\ UNCHANGED <<modelReady, returned, attempt, outcome, seen>>

\* The SDK call returns or raises; a result nobody awaits any more is dropped.
JobEnds(j, reply) ==
    /\ j \in running
    /\ running' = running \ {j}
    /\ returned' = IF Awaits(j)
                     THEN returned \cup {[job |-> j, reply |-> reply]}
                     ELSE returned
    /\ UNCHANGED <<modelReady, queue, attempt, outcome, seen>>

Awaited(c) == {r \in returned : r.job = Current(c)}
Taken(c) == returned' = returned \ Awaited(c)

\* The loop resumes generate_json with a text it can parse.
Answered(c, r) ==
    /\ Pending(c) /\ r \in Awaited(c)
    /\ r.reply \in Text /\ r.reply.json
    /\ End(c, "answer")
    /\ Saw(c, r.reply)
    /\ Taken(c)
    /\ UNCHANGED <<modelReady, queue, running, attempt>>

\* Mutant: range(MAX_RETRIES).
BadTextOnceLess(c, r) ==
    /\ Pending(c) /\ r \in Awaited(c)
    /\ r.reply \in Text /\ ~r.reply.json
    /\ Saw(c, r.reply)
    /\ Taken(c)
    /\ \/ attempt[c] < MaxRetries /\ Submit(c, attempt[c] + 1) /\ UNCHANGED outcome
       \/ attempt[c] >= MaxRetries /\ End(c, "invalid") /\ UNCHANGED <<attempt, queue>>
    /\ UNCHANGED <<modelReady, running>>

\* Mutant: range(attempts + 1).
BadTextOnceMore(c, r) ==
    /\ Pending(c) /\ r \in Awaited(c)
    /\ r.reply \in Text /\ ~r.reply.json
    /\ Saw(c, r.reply)
    /\ Taken(c)
    /\ \/ attempt[c] <= Attempts /\ Submit(c, attempt[c] + 1) /\ UNCHANGED outcome
       \/ attempt[c] > Attempts /\ End(c, "invalid") /\ UNCHANGED <<attempt, queue>>
    /\ UNCHANGED <<modelReady, running>>

\* A text that is not JSON: the next attempt at once, or the end after the last.
BadText(c, r) ==
    /\ Pending(c) /\ r \in Awaited(c)
    /\ r.reply \in Text /\ ~r.reply.json
    /\ Saw(c, r.reply)
    /\ Taken(c)
    /\ \/ attempt[c] < Attempts /\ Submit(c, attempt[c] + 1) /\ UNCHANGED outcome
       \/ attempt[c] = Attempts /\ End(c, "invalid") /\ UNCHANGED <<attempt, queue>>
    /\ UNCHANGED <<modelReady, running>>

\* Mutant: an SDK error is retried like a text that is not JSON.
RaisedRetried(c, r) ==
    /\ Pending(c) /\ r \in Awaited(c)
    /\ r.reply \in Fault
    /\ Saw(c, r.reply)
    /\ Taken(c)
    /\ \/ attempt[c] < Attempts /\ Submit(c, attempt[c] + 1) /\ UNCHANGED outcome
       \/ attempt[c] = Attempts /\ End(c, Classified(r.reply)) /\ UNCHANGED <<attempt, queue>>
    /\ UNCHANGED <<modelReady, running>>

\* The SDK raised: no retry.
Raised(c, r) ==
    /\ Pending(c) /\ r \in Awaited(c)
    /\ r.reply \in Fault
    /\ End(c, Classified(r.reply))
    /\ Saw(c, r.reply)
    /\ Taken(c)
    /\ UNCHANGED <<modelReady, queue, running, attempt>>

\* The pool's queue without the job of that attempt, if it is still there.
Withdrawn(c) ==
    LET at == {i \in DOMAIN queue : queue[i] = Current(c)}
    IN  IF at = {} THEN queue ELSE RemoveAt(queue, CHOOSE i \in at : TRUE)

\* Mutant: the queued job of an abandoned attempt stays in the queue.
ExpireKeepsJob(c) ==
    /\ Pending(c)
    /\ End(c, "timed_out")
    /\ Saw(c, TimedOut)
    /\ Taken(c)
    /\ UNCHANGED <<modelReady, queue, running, attempt>>

\* Mutant: a timeout is retried, up to the same budget.
ExpireRetried(c) ==
    /\ Pending(c)
    /\ Saw(c, TimedOut)
    /\ Taken(c)
    /\ \/ /\ attempt[c] < Attempts
          /\ attempt' = [attempt EXCEPT ![c] = @ + 1]
          /\ queue' = Append(Withdrawn(c), [call |-> c, attempt |-> attempt[c] + 1])
          /\ UNCHANGED outcome
       \/ /\ attempt[c] = Attempts
          /\ End(c, "timed_out")
          /\ queue' = Withdrawn(c)
          /\ UNCHANGED attempt
    /\ UNCHANGED <<modelReady, running>>

\* Mutant: a timeout leads to another wait for the same attempt.
ExpireForever(c) ==
    /\ Pending(c)
    /\ Taken(c)
    /\ queue' = Append(Withdrawn(c), Current(c))
    /\ UNCHANGED <<modelReady, running, attempt, outcome, seen>>

\* The timer of wait_for fires, the result of the job seen or not: a job still
\* queued is cancelled, one on a thread is left alone.
Expire(c) ==
    /\ Pending(c)
    /\ End(c, "timed_out")
    /\ Saw(c, TimedOut)
    /\ Taken(c)
    /\ queue' = Withdrawn(c)
    /\ UNCHANGED <<modelReady, running, attempt>>

Resume(c) == \E r \in returned : Answered(c, r) \/ BadText(c, r) \/ Raised(c, r)

\* Every call has ended and no thread is busy.
Quiet ==
    /\ \A c \in Call : outcome[c] # "none"
    /\ running = {}
    /\ UNCHANGED vars

Next ==
    \/ \E c \in Call : Begin(c) \/ (\E f \in LocalFault : ModelFails(c, f)) \/ Resume(c) \/ Expire(c)
    \/ StartJob
    \/ \E j \in running, reply \in Reply : JobEnds(j, reply)
    \/ Quiet

Spec == Init /\ [][Next]_vars

\* The event loop runs its timers and what is ready.  Nothing is asked of the
\* threads: the SDK may never return.
FairSpec == Spec /\ \A c \in Call : WF_vars(Expire(c)) /\ WF_vars(Resume(c))

------------------------------------------------------------------------------
(* Properties.                                                               *)

Outcome == {"answer", "rate_limit", "auth_error", "call_failed", "timed_out", "invalid"}

TypeOK ==
    /\ modelReady \in [Client -> BOOLEAN]
    /\ queue \in Seq(Job)
    /\ running \subseteq Job /\ Cardinality(running) <= Workers
    /\ returned \subseteq [job : Job, reply : Reply]
    /\ attempt \in [Call -> 0..Attempts]
    /\ outcome \in [Call -> Outcome \cup {"none"}]
    /\ seen \in [Call -> Seq(Reply \cup LocalFault \cup {TimedOut})]

BadTexts == {t \in Text : ~t.json}

\* What is retried is a text that is not JSON and nothing else, at most
\* MAX_RETRIES times (ai_client.py:6; OWASP_CHECKLIST.md API4, retry budget = 2):
\* no error and no timeout is ever followed by another attempt.
OnlyBadTextRetried ==
    \A c \in Call :
        /\ \A n \in DOMAIN seen[c] : n < Len(seen[c]) \/ Pending(c) => seen[c][n] \in BadTexts
        /\ attempt[c] = Len(seen[c]) + (IF Pending(c) THEN 1 ELSE 0)

\* A call ends the way its last attempt says: in an answer only if that text was
\* JSON, as an invalid response only when the budget is spent on bad texts.
EndsAsLastSeen ==
    \A c \in Call : outcome[c] # "none" =>
        LET last == seen[c][Len(seen[c])]
        IN  /\ seen[c] # <<>>
            /\ outcome[c] = "answer" <=> last \in Text /\ last.json
            /\ outcome[c] = "invalid" <=> last \in BadTexts
            /\ outcome[c] = "invalid" => Len(seen[c]) = Attempts
            /\ outcome[c] = "timed_out" <=> last = TimedOut
            /\ last \in Fault \cup LocalFault => outcome[c] = Classified(last)

Held == Range(queue) \cup running

\* However it is retried and however it ends, a call holds at most one place in
\* the pool, so the calls of the process never crowd it with their own retries.
OneJobPerCall ==
    /\ \A i, k \in DOMAIN queue : queue[i].call = queue[k].call => i = k
    /\ \A j \in Range(queue), k \in running : j.call # k.call
    /\ \A j, k \in running : j.call = k.call => j = k

\* The pool never starts a job nobody waits for, and a thread is left behind by
\* a timeout only.
AbandonedOnThreadsOnly ==
    /\ \A j \in Range(queue) : Awaits(j)
    /\ \A j \in running : Awaits(j) \/ outcome[j.call] = "timed_out"

Safety == OnlyBadTextRetried /\ EndsAsLastSeen /\ OneJobPerCall /\ AbandonedOnThreadsOnly

Exception(how) ==
    CASE how = "answer" -> "answer"
      [] how = "rate_limit" -> "GeminiRateLimitError"
      [] how = "invalid" -> "InvalidAIResponseError"
      [] how \in {"auth_error", "call_failed", "timed_out"} -> "GeminiUnavailableError"

Promise == INSTANCE GeminiPromise WITH
             progress <- [c \in Call |->
                            IF outcome[c] # "none" THEN Exception(outcome[c])
                            ELSE IF attempt[c] = 0 THEN "not called" ELSE "pending"]

\* Every call ends once and for good, even if the SDK never returns and every
\* thread of the pool is stuck in an abandoned job.
KeepsPromise == Promise!Spec

\* A rate limit is reported only if Gemini said so (README.md:71).
RateLimitMeansRateLimit ==
    \A c \in Call : outcome[c] = "rate_limit" => seen[c][Len(seen[c])].cause = "rate limit"
==============================================================================
