---------------------------- MODULE SidecarProofs ----------------------------
(***************************************************************************)
(* Sidecar for any requests, queries and diaries, a pool of any size and   *)
(* any limit.                                                              *)
(*                                                                         *)
(* TypeOK is not inductive alone: that "free" stays within the pool needs  *)
(* ConnectionsAccounted, and that a connection is only waited for while    *)
(* there is a pool follows from it.  The refinement needs to know in       *)
(* addition that whoever is past Admit asked for something (Sensible).     *)
(***************************************************************************)
EXTENDS Sidecar, DataLemmas

Sensible ==
    \A r \in Request : phase[r] \in {"connection", "rows"} =>
        /\ query[r].auth = "valid"
        /\ ~InvertedQuery(query[r])
        /\ ~Underflows(query[r])

PoolInv == ConnectionsAccounted /\ IsFiniteSet(Holding)

IInv == TypeOK /\ PoolInv /\ Sensible

------------------------------------------------------------------------------
(* One request moves.                                                        *)

\* A request that waited for a connection holds one more.
LEMMA HoldsOneMore ==
    ASSUME NEW r \in Request, phase \in [Request -> {"none", "connection", "rows", "done"}],
           phase[r] # "rows", phase' = [phase EXCEPT ![r] = "rows"], IsFiniteSet(Holding)
    PROVE  /\ IsFiniteSet(Holding')
           /\ Cardinality(Holding') = Cardinality(Holding) + 1
<1>1. Holding' = Holding \cup {r} /\ r \notin Holding
  BY DEF Holding
<1> QED BY <1>1, FS_AddElement

\* A request that held a connection holds one less.
LEMMA HoldsOneLess ==
    ASSUME NEW r \in Request, phase \in [Request -> {"none", "connection", "rows", "done"}],
           phase[r] = "rows", phase' = [phase EXCEPT ![r] = "done"], IsFiniteSet(Holding)
    PROVE  /\ IsFiniteSet(Holding')
           /\ Cardinality(Holding) \in Nat \ {0}
           /\ Cardinality(Holding') = Cardinality(Holding) - 1
<1>1. Holding' = Holding \ {r} /\ r \in Holding
  BY DEF Holding
<1>2. /\ IsFiniteSet(Holding')
      /\ Cardinality(Holding') = Cardinality(Holding) - 1
  BY <1>1, FS_RemoveElement
<1>3. Cardinality(Holding) \in Nat /\ Cardinality(Holding') \in Nat
  BY <1>2, FS_CardinalityType
<1> QED BY <1>2, <1>3

\* A request that neither held one nor takes one changes nothing.
LEMMA HoldsTheSame ==
    ASSUME NEW r \in Request, phase \in [Request -> {"none", "connection", "rows", "done"}],
           phase[r] # "rows", NEW what \in {"connection", "done"},
           phase' = [phase EXCEPT ![r] = what]
    PROVE  Holding' = Holding
BY DEF Holding

------------------------------------------------------------------------------
(* The invariant, step by step.                                              *)

LEMMA InitIInv == Init => IInv
<1> SUFFICES ASSUME Init PROVE IInv
  OBVIOUS
<1>1. Holding = {}
  BY DEF Init, Holding
<1>2. IsFiniteSet(Holding) /\ ConnectionsAccounted
  BY <1>1, FS_EmptySet DEF Init, ConnectionsAccounted
<1>3. TypeOK
  BY PoolAssumption, QueryAssumption DEF Init, TypeOK
<1> QED BY <1>2, <1>3 DEF Init, IInv, PoolInv, Sensible

\* A request arrives, and is answered at once or waits for a connection.
LEMMA ArriveStep ==
    ASSUME IInv, NEW r \in Request, NEW q \in Query, Arrive(r, q), hits' \in 0..RateLimit,
           \/ \E a : Respond(r, a)
           \/ /\ Await(r, "connection")
              /\ q.auth = "valid" /\ ~InvertedQuery(q) /\ ~Underflows(q)
    PROVE  IInv'
<1>1. PICK what \in {"connection", "done"} :
        /\ phase' = [phase EXCEPT ![r] = what]
        /\ what = "connection" =>
             reply' = reply /\ q.auth = "valid" /\ ~InvertedQuery(q) /\ ~Underflows(q)
        /\ \A s \in Request : s # r => reply'[s] = reply[s]
        /\ DOMAIN reply' = Request
  BY DEF Respond, Await, IInv, TypeOK
<1>2. /\ query[r] = None /\ query' = [query EXCEPT ![r] = q] /\ q # None
      /\ pool # "unbuilt" /\ UNCHANGED <<diary, pool, free>>
  BY QueryAssumption DEF Arrive
<1>3. phase[r] = "none" /\ reply[r] = None
  BY <1>2 DEF IInv, TypeOK
<1>4. Holding' = Holding
  BY <1>1, <1>3, HoldsTheSame DEF IInv, TypeOK
<1>5. PoolInv'
  BY <1>2, <1>4 DEF IInv, PoolInv, ConnectionsAccounted
<1>6. TypeOK'
  <2>1. /\ diary' \in Diaries /\ pool' \in {"unbuilt", "none", "open"} /\ free' \in 0..PoolSize
        /\ query' \in [Request -> Query \cup {None}]
        /\ phase' \in [Request -> {"none", "connection", "rows", "done"}]
    BY <1>1, <1>2 DEF IInv, TypeOK
  <2>2. \A s \in Request : phase'[s] = "none" <=> query'[s] = None
    BY <1>1, <1>2 DEF IInv, TypeOK
  <2>3. \A s \in Request : reply'[s] # None => phase'[s] = "done"
    BY <1>1, <1>3 DEF IInv, TypeOK
  <2> QED BY <1>1, <2>1, <2>2, <2>3 DEF TypeOK
<1>7. Sensible'
  <2> SUFFICES ASSUME NEW s \in Request, phase'[s] \in {"connection", "rows"}
               PROVE  query'[s].auth = "valid" /\ ~InvertedQuery(query'[s]) /\ ~Underflows(query'[s])
    BY DEF Sensible
  <2>1. CASE s = r
    BY <1>1, <1>2, <2>1 DEF IInv, TypeOK
  <2>2. CASE s # r
    <3>1. phase'[s] = phase[s] /\ query'[s] = query[s]
      BY <1>1, <1>2, <2>2 DEF IInv, TypeOK
    <3> QED BY <3>1 DEF IInv, Sensible
  <2> QED BY <2>1, <2>2
<1> QED BY <1>5, <1>6, <1>7 DEF IInv

\* A request that is being served moves on, with the connections accounted for.
LEMMA ServeStep ==
    ASSUME IInv, NEW r \in Request, phase[r] \in {"connection", "rows"},
           UNCHANGED <<diary, pool, query, hits>>, free' \in 0..PoolSize, PoolInv',
           Await(r, "rows") \/ \E a : Respond(r, a)
    PROVE  IInv'
<1>1. PICK what \in {"rows", "done"} :
        /\ phase' = [phase EXCEPT ![r] = what]
        /\ what = "rows" => reply' = reply
        /\ \A s \in Request : s # r => reply'[s] = reply[s]
        /\ DOMAIN reply' = Request
  BY DEF Respond, Await, IInv, TypeOK
<1>2. query[r] # None /\ reply[r] = None
  BY DEF IInv, TypeOK
<1>3. TypeOK'
  <2>1. /\ diary' \in Diaries /\ pool' \in {"unbuilt", "none", "open"}
        /\ query' \in [Request -> Query \cup {None}] /\ hits' \in 0..RateLimit
        /\ phase' \in [Request -> {"none", "connection", "rows", "done"}]
    BY <1>1 DEF IInv, TypeOK
  <2>2. \A s \in Request : phase'[s] = "none" <=> query'[s] = None
    BY <1>1, <1>2 DEF IInv, TypeOK
  <2>3. \A s \in Request : reply'[s] # None => phase'[s] = "done"
    BY <1>1, <1>2 DEF IInv, TypeOK
  <2> QED BY <1>1, <2>1, <2>2, <2>3 DEF TypeOK
<1>4. Sensible'
  <2> SUFFICES ASSUME NEW s \in Request, phase'[s] \in {"connection", "rows"}
               PROVE  query'[s].auth = "valid" /\ ~InvertedQuery(query'[s]) /\ ~Underflows(query'[s])
    BY DEF Sensible
  <2>1. phase[s] \in {"connection", "rows"} /\ query'[s] = query[s]
    BY <1>1 DEF IInv, TypeOK
  <2> QED BY <2>1 DEF IInv, Sensible
<1> QED BY <1>3, <1>4 DEF IInv

\* Whoever waits for a connection, or has one, knows that there is a pool.
LEMMA PoolIsOpen ==
    ASSUME IInv, NEW r \in Request, phase[r] = "rows" \/ free > 0
    PROVE  pool = "open"
<1>1. pool # "open" => Holding = {} /\ free = 0
  BY DEF IInv, PoolInv, ConnectionsAccounted
<1> QED BY <1>1 DEF Holding

LEMMA NextIInv == IInv /\ [Next]_vars => IInv'
<1> SUFFICES ASSUME IInv, [Next]_vars PROVE IInv'
  OBVIOUS
<1>0. /\ phase \in [Request -> {"none", "connection", "rows", "done"}]
      /\ free \in 0..PoolSize /\ hits \in 0..RateLimit /\ IsFiniteSet(Holding)
      /\ PoolSize \in Nat \ {0} /\ RateLimit \in Nat \ {0}
  BY PoolAssumption DEF IInv, TypeOK, PoolInv
<1>1. CASE Boot
  <2>1. Holding = {} /\ Holding' = Holding
    BY <1>1 DEF Boot, IInv, PoolInv, ConnectionsAccounted, Holding, requests
  <2>2. PoolInv'
    BY <1>0, <1>1, <2>1, FS_EmptySet DEF Boot, PoolInv, ConnectionsAccounted
  <2>3. TypeOK' /\ Sensible'
    BY <1>0, <1>1 DEF Boot, IInv, TypeOK, Sensible, requests
  <2> QED BY <2>2, <2>3 DEF IInv
<1>2. CASE Shutdown
  <2>1. Holding = {} /\ Holding' = Holding
    BY <1>2 DEF Shutdown, Holding, requests
  <2>2. PoolInv'
    BY <1>0, <1>2, <2>1 DEF Shutdown, PoolInv, ConnectionsAccounted
  <2>3. TypeOK' /\ Sensible'
    BY <1>0, <1>2 DEF Shutdown, IInv, TypeOK, Sensible, requests
  <2> QED BY <2>2, <2>3 DEF IInv
<1>3. CASE NextMinute
  BY <1>0, <1>3 DEF NextMinute, IInv, PoolInv, ConnectionsAccounted, Holding, TypeOK, Sensible,
                    requests
<1>4. ASSUME NEW days \in Diaries, DiaryChanges(days)
      PROVE  IInv'
  BY <1>4 DEF DiaryChanges, IInv, PoolInv, ConnectionsAccounted, Holding, TypeOK, Sensible, requests
<1>5. ASSUME NEW r \in Request, NEW q \in Query, Refuse(r, q)
      PROVE  IInv'
  BY <1>0, <1>5, ArriveStep DEF Refuse
<1>6. ASSUME NEW r \in Request, NEW q \in Query, Limited(r, q)
      PROVE  IInv'
  BY <1>0, <1>6, ArriveStep DEF Limited
<1>7. ASSUME NEW r \in Request, NEW q \in Query, Admit(r, q)
      PROVE  IInv'
  <2>1. hits' \in 0..RateLimit
    BY <1>0, <1>7 DEF Admit, WithinLimit
  <2> QED BY <1>7, <2>1, ArriveStep DEF Admit
<1>8. ASSUME NEW r \in Request, Acquire(r)
      PROVE  IInv'
  <2>1. /\ phase[r] = "connection" /\ free > 0 /\ free' = free - 1
        /\ phase' = [phase EXCEPT ![r] = "rows"] /\ pool' = pool
    BY <1>8 DEF Acquire, Await
  <2>2. pool = "open" /\ free + Cardinality(Holding) = PoolSize
    BY <2>1, PoolIsOpen DEF IInv, PoolInv, ConnectionsAccounted
  <2>3. IsFiniteSet(Holding') /\ Cardinality(Holding') = Cardinality(Holding) + 1
    BY <1>0, <2>1, HoldsOneMore
  <2>4. Cardinality(Holding) \in Nat
    BY <1>0, FS_CardinalityType
  <2>5. free' \in 0..PoolSize /\ free' + Cardinality(Holding') = PoolSize
    BY <1>0, <2>1, <2>2, <2>3, <2>4
  <2>6. PoolInv'
    BY <2>1, <2>2, <2>3, <2>5 DEF PoolInv, ConnectionsAccounted
  <2> QED BY <1>8, <2>1, <2>5, <2>6, ServeStep DEF Acquire
<1>9. ASSUME NEW r \in Request, AcquireFails(r)
      PROVE  IInv'
  <2>1. Holding' = Holding
    BY <1>0, <1>9, HoldsTheSame DEF AcquireFails, Respond
  <2>2. PoolInv'
    BY <1>9, <2>1 DEF AcquireFails, IInv, PoolInv, ConnectionsAccounted
  <2> QED BY <1>0, <1>9, <2>2, ServeStep DEF AcquireFails
<1>10. ASSUME NEW r \in Request, FetchReturns(r) \/ FetchFails(r)
       PROVE  IInv'
  <2>1. /\ phase[r] = "rows" /\ free' = free + 1 /\ phase' = [phase EXCEPT ![r] = "done"]
        /\ UNCHANGED <<diary, pool, query, hits>> /\ \E a : Respond(r, a)
    BY <1>10 DEF FetchReturns, FetchFails, Respond
  <2>2. pool = "open" /\ free + Cardinality(Holding) = PoolSize
    BY <2>1, PoolIsOpen DEF IInv, PoolInv, ConnectionsAccounted
  <2>3. /\ IsFiniteSet(Holding') /\ Cardinality(Holding) \in Nat \ {0}
        /\ Cardinality(Holding') = Cardinality(Holding) - 1
    BY <1>0, <2>1, HoldsOneLess
  <2>4. free' \in 0..PoolSize /\ free' + Cardinality(Holding') = PoolSize
    BY <1>0, <2>1, <2>2, <2>3
  <2>5. PoolInv'
    BY <2>1, <2>2, <2>3, <2>4 DEF PoolInv, ConnectionsAccounted
  <2> QED BY <2>1, <2>4, <2>5, ServeStep
<1>11. CASE UNCHANGED vars
  BY <1>11 DEF vars, IInv, PoolInv, ConnectionsAccounted, Holding, TypeOK, Sensible
<1> QED BY <1>1, <1>2, <1>3, <1>4, <1>5, <1>6, <1>7, <1>8, <1>9, <1>10, <1>11
        DEF Next, Receive, Serve

THEOREM SidecarInvariant == Spec => []IInv
BY InitIInv, NextIInv, PTL DEF Spec

(***************************************************************************)
(* Types, and that no more requests than the limit count in a minute.      *)
(***************************************************************************)
THEOREM SidecarTypes == Spec => []TypeOK
<1>1. IInv => TypeOK
  BY DEF IInv
<1> QED BY <1>1, SidecarInvariant, PTL

(***************************************************************************)
(* No failure, timeout or interleaving leaks a connection of the pool, and *)
(* never are more in use than it has.                                      *)
(***************************************************************************)
THEOREM NoConnectionLeaks == Spec => []ConnectionsAccounted
<1>1. IInv => ConnectionsAccounted
  BY DEF IInv, PoolInv
<1> QED BY <1>1, SidecarInvariant, PTL

------------------------------------------------------------------------------
(* What the Converter gets.                                                  *)

\* The Converter asks for everything, or gives both ends in order.
LEMMA ConverterQuery ==
    ASSUME NEW q \in Query, FromConverter(q)
    PROVE  /\ q.auth = "valid" /\ ~InvertedQuery(q) /\ ~Underflows(q)
           /\ FetchWindow(q) = ConverterWindow(q) /\ MockWindow(q) = ConverterWindow(q)
           /\ Served(q) \in Answers(diary, ConverterWindow(q))
<1>1. /\ q.start \in Int \cup {NoDate} /\ q.end \in Int \cup {NoDate} /\ NoDate \notin Int
      /\ q.fetch_all \in BOOLEAN
  BY QueryAssumption, DateAssumption
<1>2. CASE q.fetch_all
  <2>1. q.start = NoDate /\ q.end = NoDate
    BY <1>2 DEF FromConverter
  <2> QED BY <1>2, <2>1 DEF FromConverter, ConverterWindow, InvertedQuery, Underflows, FetchWindow,
                           MockWindow, Served, Answers, All
<1>3. CASE ~q.fetch_all
  <2>1. /\ q.start \in Int /\ q.end \in Int
        /\ ConverterWindow(q) = [start |-> q.start, end |-> q.end]
        /\ ConverterWindow(q) # All
    BY <1>1, <1>3 DEF FromConverter, ConverterWindow, All
  <2>2. ~(q.start > q.end)
    BY <1>3, <2>1 DEF FromConverter, Inverted
  <2>3. FetchWindow(q) = ConverterWindow(q) /\ MockWindow(q) = ConverterWindow(q)
    BY <1>1, <1>3, <2>1 DEF FetchWindow, MockWindow, Filled, Or
  <2>4. Served(q) \in Answers(diary, ConverterWindow(q))
    BY <2>1, <2>3 DEF Served, Answers
  <2> QED BY <1>1, <2>1, <2>2, <2>3, <2>4 DEF FromConverter, InvertedQuery, Underflows
<1> QED BY <1>2, <1>3

(***************************************************************************)
(* Whatever the Converter is answered is one of the replies the bridge is  *)
(* checked with, and what the diary holds at that step.                    *)
(***************************************************************************)
THEOREM AnswersAreRelied == Spec => AnswersAsRelied
<1> DEFINE relied == \A r \in Request :
              reply[r] = None /\ reply'[r] # None /\ FromConverter(query'[r]) =>
                reply'[r] \in Replies(diary, ConverterWindow(query'[r]))
<1>1. ASSUME IInv, [Next]_vars
      PROVE  [relied]_vars
  <2> SUFFICES ASSUME NEW r \in Request, reply[r] = None, reply'[r] # None,
                      FromConverter(query'[r])
               PROVE  reply'[r] \in Replies(diary, ConverterWindow(query'[r]))
    OBVIOUS
  <2>1. DOMAIN reply = Request /\ query \in [Request -> Query \cup {None}]
    BY <1>1 DEF IInv, TypeOK
  <2>2. \A s \in {401, 429, 500, 503} : Status(s) \in Replies(diary, ConverterWindow(query'[r]))
    BY DEF Status, Replies, Refusals
  <2>3. ASSUME NEW s \in Request, NEW a, Respond(s, a)
        PROVE  s = r /\ reply'[r] = a
    BY <2>1, <2>3 DEF Respond
  <2>4. ASSUME NEW s \in Request, NEW q \in Query, Refuse(s, q) \/ Limited(s, q) \/ Admit(s, q)
        PROVE  reply'[r] \in Replies(diary, ConverterWindow(query'[r]))
    <3>1. reply' # reply
      OBVIOUS
    <3>2. PICK a : Respond(s, a)
      BY <2>4, <3>1 DEF Refuse, Limited, Admit, Await
    <3>3. s = r /\ query'[r] = q
      BY <2>1, <2>3, <2>4, <3>2 DEF Refuse, Limited, Admit, Arrive
    <3>4. q.auth = "valid" /\ ~InvertedQuery(q) /\ ~Underflows(q)
      BY <3>3, ConverterQuery
    <3>5. Respond(s, Status(429)) \/ Respond(s, Status(503))
      BY <2>4, <3>1, <3>4 DEF Refuse, Limited, Admit, Await
    <3> QED BY <2>2, <2>3, <3>5
  <2>5. ASSUME NEW s \in Request, AcquireFails(s) \/ FetchFails(s)
        PROVE  reply'[r] \in Replies(diary, ConverterWindow(query'[r]))
    <3>1. PICK failure \in Failure : Respond(s, failure)
      BY <2>5 DEF AcquireFails, FetchFails
    <3> QED BY <2>2, <2>3, <3>1 DEF Failure
  <2>6. ASSUME NEW s \in Request, FetchReturns(s)
        PROVE  reply'[r] \in Replies(diary, ConverterWindow(query'[r]))
    <3>1. s = r /\ reply'[r] = Served(query[r]) /\ query' = query /\ query[r] # None
      BY <1>1, <2>3, <2>6 DEF FetchReturns, IInv, TypeOK
    <3>2. Served(query[r]) \in Answers(diary, ConverterWindow(query[r]))
      BY <2>1, <3>1, ConverterQuery
    <3> QED BY <3>1, <3>2 DEF Replies
  <2>7. CASE \/ Boot \/ Shutdown \/ NextMinute \/ UNCHANGED vars
             \/ \E days \in Diaries : DiaryChanges(days)
             \/ \E s \in Request : Acquire(s)
    BY <2>7 DEF Boot, Shutdown, NextMinute, vars, DiaryChanges, Acquire, Await, requests
  <2> QED BY <1>1, <2>4, <2>5, <2>6, <2>7 DEF Next, Receive, Serve
<1> QED BY <1>1, SidecarInvariant, PTL DEF Spec, AnswersAsRelied

(***************************************************************************)
(* For every query of the Converter and every diary the mock endpoint      *)
(* answers what the sidecar does.                                          *)
(***************************************************************************)
THEOREM MockAlwaysStandsIn == Spec => []MockStandsIn
<1>1. MockStandsIn
  <2> SUFFICES ASSUME NEW q \in Query, FromConverter(q)
               PROVE  /\ MockServed(q).entries = Served(q).entries
                      /\ MockServed(q) \in Answers(diary, ConverterWindow(q))
    BY DEF MockStandsIn
  <2>1. FetchWindow(q) = ConverterWindow(q) /\ MockWindow(q) = ConverterWindow(q)
    BY ConverterQuery
  <2> QED BY <2>1 DEF MockServed, Served, Answers
<1> QED BY <1>1, PTL

------------------------------------------------------------------------------
(* The refinement.                                                           *)

\* The window the rows are fetched for is the one the query asks for; where its start
\* is filled in, the days since the date Lookback days before its end.
LEMMA WindowIsAsked ==
    ASSUME NEW q \in Query, NEW days \in Diaries
    PROVE  Rows(days, FetchWindow(q)) = {d \in days : Promise!Asks(q, Lookback + 1, d)}
<1>1. /\ q.start \in Int \cup {NoDate} /\ q.end \in Int \cup {NoDate}
      /\ days \subseteq Int /\ Today \in Int /\ Lookback \in Nat /\ NoDate \notin Int
  BY QueryAssumption, DiariesAssumption, DateAssumption
<1>2. CASE q.fetch_all
  BY <1>2 DEF Rows, FetchWindow, Promise!Asks
<1>3. CASE ~q.fetch_all
  <2> DEFINE last == IF q.end = NoDate THEN Today ELSE q.end
             first == IF q.start = NoDate THEN last - Lookback ELSE q.start
  <2>1. last \in Int /\ first \in Int
    BY <1>1
  <2>2. FetchWindow(q) = [start |-> first, end |-> last]
    BY <1>3 DEF FetchWindow, Filled, Or
  <2>3. FetchWindow(q) # All
    BY <1>1, <2>1, <2>2 DEF All
  <2>4. Rows(days, FetchWindow(q)) = {d \in days : first <= d /\ d <= last}
    BY <2>2, <2>3 DEF Rows
  <2>5. ASSUME NEW d \in days
        PROVE  Promise!Asks(q, Lookback + 1, d) <=> first <= d /\ d <= last
    <3>1. Promise!Or(q.end, Today) = last
      BY DEF Promise!Or
    <3>2. Promise!Within(d, Lookback + 1, last) <=> last - (Lookback + 1) < d /\ d <= last
      <4>1. Promise!Cardinality(d..last) = Cardinality(d..last)
        BY DEF Promise!Cardinality, Cardinality
      <4> HIDE DEF last
      <4> QED BY <1>1, <2>1, <4>1, DaysUpTo DEF Promise!Within
    <3> HIDE DEF last
    <3>3. CASE q.start = NoDate
      <4>1. Promise!Asks(q, Lookback + 1, d) <=> last - (Lookback + 1) < d /\ d <= last
        BY <1>3, <3>1, <3>2, <3>3 DEF Promise!Asks
      <4> QED BY <1>1, <2>1, <3>3, <4>1
    <3>4. CASE q.start # NoDate
      BY <1>3, <3>1, <3>4 DEF Promise!Asks
    <3> QED BY <3>3, <3>4
  <2> QED BY <2>4, <2>5
<1> QED BY <1>2, <1>3

\* The sidecar implements the safety half of its promise: every step is a step of
\* SidecarPromise, or one its callers cannot see.
THEOREM SidecarKeepsPromise == Spec => Promise!SafeSpec
<1>1. Init => Promise!Init
  BY DEF Init, Promise!Init, answer, Shown
<1>2. ASSUME IInv, [Next]_vars
      PROVE  [Promise!Next]_(Promise!vars)
  <2>1. /\ DOMAIN reply = Request /\ query \in [Request -> Query \cup {None}]
        /\ diary \in Diaries
    BY <1>2 DEF IInv, TypeOK
  <2>2. ASSUME NEW r \in Request, NEW a, Respond(r, a)
        PROVE  answer' = [answer EXCEPT ![r] = Shown(a)]
    BY <2>1, <2>2 DEF Respond, answer
  <2>3. ASSUME NEW s \in {400, 401, 429, 500, 503}
        PROVE  Shown(Status(s)) = Promise!Status(s)
    BY DEF Shown, Status, Promise!Status
  <2>4. ASSUME NEW r \in Request, NEW q \in Query, Arrive(r, q),
               \/ UNCHANGED reply
               \/ \E s \in {400, 401, 429, 500, 503} :
                    Respond(r, Status(s)) /\ Promise!Status(s) \in Promise!Blame(q)
        PROVE  Promise!Next
    <3>1. /\ query[r] = None /\ query' = [query EXCEPT ![r] = q] /\ diary' = diary
      BY <2>4 DEF Arrive
    <3>2. \/ answer' = answer
          \/ \E a \in Promise!Blame(q) : answer' = [answer EXCEPT ![r] = a]
      BY <2>2, <2>3, <2>4 DEF answer
    <3>3. Promise!Ask(r)
      BY <3>1, <3>2 DEF Promise!Ask
    <3> QED BY <3>3 DEF Promise!Next
  <2>5. ASSUME NEW r \in Request, NEW a, phase[r] \in {"connection", "rows"}, Respond(r, a),
               Shown(a) \in Promise!Blame(query[r]) \cup Promise!Days(query[r]),
               UNCHANGED <<diary, query>>
        PROVE  Promise!Next
    <3>1. query[r] # None /\ reply[r] = None
      BY <1>2, <2>5 DEF IInv, TypeOK
    <3>2. answer[r] = None /\ answer' = [answer EXCEPT ![r] = Shown(a)]
      BY <2>2, <2>5, <3>1 DEF answer, Shown
    <3>3. Promise!Answer(r)
      BY <2>5, <3>1, <3>2 DEF Promise!Answer
    <3> QED BY <3>3 DEF Promise!Next
  <2>6. CASE Boot \/ Shutdown \/ NextMinute \/ UNCHANGED vars
    BY <2>6 DEF Boot, Shutdown, NextMinute, vars, requests, answer, Promise!vars
  <2>7. ASSUME NEW days \in Diaries, DiaryChanges(days)
        PROVE  Promise!Next
    BY <2>7 DEF DiaryChanges, requests, answer, Promise!Next, Promise!Write
  <2>8. ASSUME NEW r \in Request, NEW q \in Query, Refuse(r, q) \/ Limited(r, q)
        PROVE  Promise!Next
    <3>1. CASE Refuse(r, q)
      BY <2>4, <3>1 DEF Refuse, Promise!Blame
    <3>2. CASE Limited(r, q)
      BY <2>4, <3>2 DEF Limited, Promise!Blame
    <3> QED BY <2>8, <3>1, <3>2
  <2>9. ASSUME NEW r \in Request, NEW q \in Query, Admit(r, q)
        PROVE  Promise!Next
    <3>1. CASE InvertedQuery(q)
      BY <2>4, <2>9, <3>1 DEF Admit, Promise!Blame, InvertedQuery, Promise!Backwards
    <3>2. CASE ~InvertedQuery(q) /\ pool = "none"
      BY <2>4, <2>9, <3>2 DEF Admit, Promise!Blame
    <3>3. CASE ~InvertedQuery(q) /\ pool # "none" /\ Underflows(q)
      <4>1. Status(500) = Promise!Status(500) /\ Promise!Status(500) \in Promise!Blame(q)
        BY <2>9 DEF Admit, Status, Promise!Status, Promise!Blame
      <4> QED BY <2>4, <2>9, <3>3, <4>1 DEF Admit
    <3>4. CASE ~InvertedQuery(q) /\ pool # "none" /\ ~Underflows(q)
      BY <2>4, <2>9, <3>4 DEF Admit, Await
    <3> QED BY <3>1, <3>2, <3>3, <3>4
  <2>10. ASSUME NEW r \in Request, Acquire(r)
         PROVE  UNCHANGED <<diary, query, answer>>
    BY <2>10 DEF Acquire, Await, answer
  <2>11. ASSUME NEW r \in Request, AcquireFails(r) \/ FetchFails(r)
         PROVE  Promise!Next
    <3>1. /\ phase[r] \in {"connection", "rows"} /\ query[r].auth = "valid"
          /\ UNCHANGED <<diary, query>>
      BY <1>2, <2>11 DEF AcquireFails, FetchFails, IInv, Sensible
    <3>2. PICK failure \in Failure : Respond(r, failure)
      BY <2>11 DEF AcquireFails, FetchFails
    <3>3. Shown(failure) \in Promise!Blame(query[r])
      BY <2>3, <3>1, <3>2 DEF Failure, Promise!Blame
    <3> QED BY <2>5, <3>1, <3>2, <3>3
  <2>12. ASSUME NEW r \in Request, FetchReturns(r)
         PROVE  Promise!Next \/ UNCHANGED <<diary, query, answer>>
    <3>1. /\ phase[r] = "rows" /\ Respond(r, Served(query[r])) /\ UNCHANGED <<diary, query>>
          /\ query[r] \in Query /\ reply[r] = None
      BY <1>2, <2>1, <2>12 DEF FetchReturns, IInv, TypeOK
    <3>2. CASE Served(query[r]) = None
      <4>1. \A s \in Request : reply'[s] = reply[s]
        BY <2>1, <3>1, <3>2 DEF Respond
      <4> QED BY <3>1, <4>1 DEF answer
    <3>3. CASE Served(query[r]) # None
      <4>1. Shown(Served(query[r])) =
              [kind |-> "entries", entries |-> Rows(diary, FetchWindow(query[r]))]
        BY <3>3 DEF Served, Shown
      <4>2. Shown(Served(query[r])) \in Promise!Days(query[r])
        <5>1. Lookback + 1 \in Promise!Readings
          BY DEF Promise!Readings
        <5>2. Shown(Served(query[r])) =
                [kind |-> "entries",
                 entries |-> {d \in diary : Promise!Asks(query[r], Lookback + 1, d)}]
          BY <2>1, <3>1, <4>1, WindowIsAsked
        <5>3. query[r].auth = "valid" /\ ~Promise!Backwards(query[r]) /\ ~Promise!Underflows(query[r])
          BY <1>2, <3>1 DEF Promise!Backwards, Promise!Underflows, IInv, Sensible,
                            InvertedQuery, Underflows
        <5> QED BY <5>1, <5>2, <5>3 DEF Promise!Days
      <4> QED BY <2>5, <3>1, <4>2
    <3> QED BY <3>2, <3>3
  <2> QED BY <1>2, <2>6, <2>7, <2>8, <2>9, <2>10, <2>11, <2>12
         DEF Next, Receive, Serve, Promise!vars
<1> QED BY <1>1, <1>2, SidecarInvariant, PTL DEF Spec, Promise!SafeSpec
========================================================================================================================================================
