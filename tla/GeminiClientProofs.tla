-------------------------- MODULE GeminiClientProofs --------------------------
(***************************************************************************)
(* GeminiClient for any number of calls, threads and retries, any texts    *)
(* and any exceptions.                                                     *)
(*                                                                         *)
(* The four safety properties are not inductive: a retry stays alone in    *)
(* the pool only because the job whose text is retried has left it.        *)
(* ReturnedAwaited adds that, and IInv is inductive.  Its part on the      *)
(* calls (CallsInv) and its part on the pool (PoolInv) are proved apart,   *)
(* action by action.                                                       *)
(***************************************************************************)
EXTENDS GeminiClient, TLAPS, SequenceTheorems, FiniteSetTheorems

ReturnedAwaited ==
    \A r \in returned :
        /\ Awaits(r.job)
        /\ \A j \in Range(queue) : j.call # r.job.call
        /\ \A j \in running : j.call # r.job.call

CallsInv == OnlyBadTextRetried /\ EndsAsLastSeen

PoolInv ==
    /\ OneJobPerCall
    /\ AbandonedOnThreadsOnly
    /\ ReturnedAwaited
    /\ IsFiniteSet(running)

IInv == TypeOK /\ CallsInv /\ PoolInv

(***************************************************************************)
(* Sequences of jobs.                                                      *)
(***************************************************************************)
LEMMA RemoveAtFacts ==
    ASSUME NEW S, NEW s \in Seq(S), NEW p \in 1..Len(s)
    PROVE  /\ RemoveAt(s, p) \in Seq(S)
           /\ Len(RemoveAt(s, p)) = Len(s) - 1
           /\ \A i \in 1..(Len(s) - 1) :
                RemoveAt(s, p)[i] = IF i < p THEN s[i] ELSE s[i + 1]
<1> DEFINE a == SubSeq(s, 1, p - 1)
           b == SubSeq(s, p + 1, Len(s))
<1>1. /\ a \in Seq(S) /\ Len(a) = p - 1
      /\ \A i \in 1..(p - 1) : a[i] = s[i]
  BY SubSeqProperties
<1>2. /\ b \in Seq(S) /\ Len(b) = Len(s) - p
      /\ \A i \in 1..(Len(s) - p) : b[i] = s[p + i]
  BY SubSeqProperties
<1> HIDE DEF a, b
<1>3. /\ a \o b \in Seq(S)
      /\ Len(a \o b) = Len(s) - 1
      /\ \A i \in 1..(Len(s) - 1) :
           (a \o b)[i] = IF i <= Len(a) THEN a[i] ELSE b[i - Len(a)]
  BY <1>1, <1>2, ConcatProperties
<1>4. ASSUME NEW i \in 1..(Len(s) - 1)
      PROVE  (a \o b)[i] = IF i < p THEN s[i] ELSE s[i + 1]
  <2>. Len(s) \in Nat /\ i \in Int /\ p \in Int
    BY LenProperties
  <2>1. CASE i < p
    BY <1>1, <1>3, <2>1
  <2>2. CASE i >= p
    <3>1. i - (p - 1) \in 1..(Len(s) - p) /\ p + (i - (p - 1)) = i + 1
      BY <2>2
    <3> QED BY <1>1, <1>2, <1>3, <2>2, <3>1
  <2>3. i < p \/ i >= p
    OBVIOUS
  <2> QED BY <2>1, <2>2, <2>3, Zenon
<1> QED BY <1>3, <1>4 DEF RemoveAt, a, b

Alone(s) == \A i, k \in DOMAIN s : s[i].call = s[k].call => i = k

(***************************************************************************)
(* The queue after a job was put at its end.                               *)
(***************************************************************************)
LEMMA AppendFacts ==
    ASSUME NEW s \in Seq(Job), NEW j \in Job
    PROVE  /\ Append(s, j) \in Seq(Job)
           /\ Range(Append(s, j)) = Range(s) \cup {j}
           /\ Alone(s) /\ (\A k \in Range(s) : k.call # j.call) => Alone(Append(s, j))
<1>1. /\ Append(s, j) \in Seq(Job)
      /\ DOMAIN Append(s, j) = 1..(Len(s) + 1)
      /\ \A i \in 1..Len(s) : Append(s, j)[i] = s[i]
      /\ Append(s, j)[Len(s) + 1] = j
      /\ DOMAIN s = 1..Len(s) /\ Len(s) \in Nat
  BY AppendProperties, LenProperties
<1>2. Range(Append(s, j)) = Range(s) \cup {j}
  BY <1>1 DEF Range
<1>3. ASSUME Alone(s), \A k \in Range(s) : k.call # j.call,
             NEW i \in 1..(Len(s) + 1), NEW k \in 1..(Len(s) + 1),
             Append(s, j)[i].call = Append(s, j)[k].call
      PROVE  i = k
  <2>1. \A n \in 1..Len(s) : s[n].call # j.call
    BY <1>1, <1>3 DEF Range
  <2>2. /\ i \in 1..Len(s) \/ i = Len(s) + 1
        /\ k \in 1..Len(s) \/ k = Len(s) + 1
    BY <1>1
  <2> QED BY <1>1, <1>3, <2>1, <2>2 DEF Alone
<1> QED BY <1>1, <1>2, <1>3 DEF Alone

(***************************************************************************)
(* The queue after a thread took its head.                                 *)
(***************************************************************************)
LEMMA TailFacts ==
    ASSUME NEW s \in Seq(Job), s # <<>>, Alone(s)
    PROVE  /\ Tail(s) \in Seq(Job) /\ Head(s) \in Job
           /\ Head(s) \in Range(s) /\ Range(Tail(s)) \subseteq Range(s)
           /\ \A k \in Range(Tail(s)) : k.call # Head(s).call
           /\ Alone(Tail(s))
<1>1. /\ Tail(s) \in Seq(Job) /\ Head(s) = s[1] /\ Head(s) \in Job
      /\ Len(s) \in Nat /\ Len(s) > 0
      /\ DOMAIN s = 1..Len(s)
      /\ DOMAIN Tail(s) = 1..(Len(s) - 1)
      /\ \A i \in 1..(Len(s) - 1) : Tail(s)[i] = s[i + 1]
  BY HeadTailProperties, EmptySeq, LenProperties
<1>2. Head(s) \in Range(s) /\ Range(Tail(s)) \subseteq Range(s)
  <2>1. \A i \in 1..(Len(s) - 1) : i + 1 \in 1..Len(s)
    BY <1>1
  <2>2. 1 \in 1..Len(s)
    BY <1>1
  <2> QED BY <1>1, <2>1, <2>2 DEF Range
<1>3. \A k \in Range(Tail(s)) : k.call # Head(s).call
  <2> SUFFICES ASSUME NEW i \in 1..(Len(s) - 1), Tail(s)[i].call = Head(s).call
               PROVE  FALSE
    BY <1>1 DEF Range
  <2>1. s[i + 1].call = s[1].call /\ i + 1 \in 1..Len(s) /\ 1 \in 1..Len(s)
    BY <1>1
  <2>2. i + 1 = 1
    BY <1>1, <2>1 DEF Alone
  <2> QED BY <2>2
<1>4. Alone(Tail(s))
  <2> SUFFICES ASSUME NEW i \in 1..(Len(s) - 1), NEW k \in 1..(Len(s) - 1),
                      Tail(s)[i].call = Tail(s)[k].call
               PROVE  i = k
    BY <1>1 DEF Alone
  <2>1. s[i + 1].call = s[k + 1].call /\ i + 1 \in 1..Len(s) /\ k + 1 \in 1..Len(s)
    BY <1>1
  <2>2. i + 1 = k + 1
    BY <1>1, <2>1 DEF Alone
  <2> QED BY <2>2
<1> QED BY <1>1, <1>2, <1>3, <1>4

(***************************************************************************)
(* The queue after a call gave up on its job: no job of it is left.        *)
(***************************************************************************)
LEMMA WithdrawnFacts ==
    ASSUME queue \in Seq(Job), Alone(queue), NEW c \in Call,
           \A j \in Range(queue) : j.call = c => j = Current(c)
    PROVE  /\ Withdrawn(c) \in Seq(Job)
           /\ Range(Withdrawn(c)) \subseteq Range(queue)
           /\ \A j \in Range(Withdrawn(c)) : j.call # c
           /\ Alone(Withdrawn(c))
<1> DEFINE at == {i \in DOMAIN queue : queue[i] = Current(c)}
           p == CHOOSE i \in at : TRUE
<1>0. DOMAIN queue = 1..Len(queue) /\ Len(queue) \in Nat
  BY LenProperties
<1>1. CASE at = {}
  <2>1. Withdrawn(c) = queue
    BY <1>1 DEF Withdrawn
  <2>2. \A j \in Range(queue) : j.call # c
    BY <1>1 DEF Range
  <2> QED BY <2>1, <2>2
<1>2. CASE at # {}
  <2>1. p \in 1..Len(queue) /\ queue[p] = Current(c)
    BY <1>0, <1>2
  <2>2. Withdrawn(c) = RemoveAt(queue, p)
    BY <1>2 DEF Withdrawn
  <2> HIDE DEF p, at
  <2> DEFINE w == RemoveAt(queue, p)
             old(i) == IF i < p THEN i ELSE i + 1
  <2>3. /\ w \in Seq(Job) /\ DOMAIN w = 1..(Len(queue) - 1)
        /\ \A i \in 1..(Len(queue) - 1) : w[i] = queue[old(i)]
    BY <2>1, RemoveAtFacts, LenProperties, Zenon
  <2> HIDE DEF w
  <2>4. \A i \in 1..(Len(queue) - 1) : old(i) \in 1..Len(queue) /\ old(i) # p
    BY <1>0, <2>1
  <2>5. \A i, k \in 1..(Len(queue) - 1) : old(i) = old(k) => i = k
    BY <1>0, <2>1
  <2> HIDE DEF old
  <2>6. Range(w) \subseteq Range(queue)
    BY <1>0, <2>3, <2>4 DEF Range
  <2>7. \A i \in 1..(Len(queue) - 1) : w[i].call # c
    <3> SUFFICES ASSUME NEW i \in 1..(Len(queue) - 1), w[i].call = c
                 PROVE  FALSE
      OBVIOUS
    <3>1. queue[p].call = c
      BY <2>1 DEF Current
    <3>2. queue[old(i)].call = queue[p].call
      BY <2>3, <3>1
    <3>3. old(i) = p
      BY <1>0, <2>1, <2>4, <3>2 DEF Alone
    <3> QED BY <2>4, <3>3
  <2>8. \A j \in Range(w) : j.call # c
    BY <2>3, <2>7 DEF Range
  <2>9. Alone(w)
    BY <1>0, <2>3, <2>4, <2>5 DEF Alone
  <2> QED BY <2>2, <2>3, <2>6, <2>8, <2>9 DEF w
<1> QED BY <1>1, <1>2

(***************************************************************************)
(* What each step leaves of the pool.  A call that ends gives up its job,  *)
(* one that submits had none, and the others do not notice.                *)
(***************************************************************************)
LEMMA CallLeaves ==
    ASSUME TypeOK, PoolInv, NEW c \in Call, NEW how \in Outcome,
           End(c, how), Taken(c), UNCHANGED <<running, attempt>>,
           Range(queue') \subseteq Range(queue), Alone(queue'),
           \A j \in Range(queue') : j.call # c,
           how # "timed_out" => \A j \in running : j.call # c,
           outcome[c] = "none"
    PROVE  PoolInv'
<1>1. /\ outcome'[c] = how
      /\ \A d \in Call : d # c => outcome'[d] = outcome[d]
  BY DEF TypeOK, End
<1>2. \A j \in Job : j.call # c => (Awaits(j)' <=> Awaits(j))
  BY <1>1 DEF Awaits, Pending, Current, Job
<1>3. Range(queue) \subseteq Job /\ running \subseteq Job
  BY DEF TypeOK, Range
<1>4. OneJobPerCall'
  <2>1. Alone(queue')
    OBVIOUS
  <2> QED BY <2>1 DEF OneJobPerCall, PoolInv, Alone
<1>5. AbandonedOnThreadsOnly'
  <2>1. \A j \in Range(queue') : Awaits(j)'
    BY <1>2, <1>3 DEF PoolInv, AbandonedOnThreadsOnly
  <2>2. ASSUME NEW j \in running
        PROVE  Awaits(j)' \/ outcome'[j.call] = "timed_out"
    <3>1. j.call \in Call
      BY <1>3 DEF Job
    <3>2. CASE j.call = c
      BY <1>1, <3>2
    <3>3. CASE j.call # c
      BY <1>1, <1>2, <1>3, <3>1, <3>3 DEF PoolInv, AbandonedOnThreadsOnly
    <3> QED BY <3>2, <3>3
  <2> QED BY <2>1, <2>2 DEF AbandonedOnThreadsOnly
<1>6. ReturnedAwaited'
  <2> SUFFICES ASSUME NEW r \in returned'
               PROVE  /\ Awaits(r.job)'
                      /\ \A j \in Range(queue') : j.call # r.job.call
                      /\ \A j \in running : j.call # r.job.call
    BY DEF ReturnedAwaited
  <2>1. /\ r \in returned /\ r.job \in Job /\ r.job # Current(c)
        /\ Awaits(r.job)
    BY DEF Taken, Awaited, TypeOK, PoolInv, ReturnedAwaited
  <2>2. r.job.call # c
    BY <2>1 DEF Awaits
  <2> QED BY <1>2, <2>1, <2>2 DEF PoolInv, ReturnedAwaited
<1> QED BY <1>4, <1>5, <1>6 DEF PoolInv

LEMMA CallSubmits ==
    ASSUME TypeOK, PoolInv, NEW c \in Call, NEW n \in 1..Attempts,
           Submit(c, n), UNCHANGED <<running, outcome>>,
           outcome[c] = "none", returned' \subseteq returned,
           \A j \in Range(queue) : j.call # c,
           \A j \in running : j.call # c,
           \A r \in returned' : r.job.call # c
    PROVE  PoolInv'
<1> DEFINE new == [call |-> c, attempt |-> n]
<1>1. new \in Job /\ new.call = c
  BY DEF Job
<1>2. /\ queue' = Append(queue, new)
      /\ Alone(queue) /\ queue \in Seq(Job)
  BY DEF Submit, PoolInv, OneJobPerCall, Alone, TypeOK
<1> HIDE DEF new
<1>3. Range(queue') = Range(queue) \cup {new} /\ Alone(queue')
  BY <1>1, <1>2, AppendFacts
<1>4. /\ attempt'[c] = n
      /\ \A d \in Call : d # c => attempt'[d] = attempt[d]
  BY DEF TypeOK, Submit
<1>5. \A j \in Job : j.call # c => (Awaits(j)' <=> Awaits(j))
  BY <1>4 DEF Awaits, Pending, Current, Job
<1>6. Awaits(new)'
  <2>1. n > 0
    BY DEF Attempts
  <2> QED BY <1>4, <2>1 DEF Awaits, Pending, Current, new
<1>7. Range(queue) \subseteq Job /\ running \subseteq Job
  BY DEF TypeOK, Range
<1>8. OneJobPerCall'
  BY <1>1, <1>3 DEF OneJobPerCall, PoolInv, Alone
<1>9. AbandonedOnThreadsOnly'
  BY <1>3, <1>5, <1>6, <1>7 DEF AbandonedOnThreadsOnly, PoolInv
<1>10. ReturnedAwaited'
  <2> SUFFICES ASSUME NEW r \in returned'
               PROVE  /\ Awaits(r.job)'
                      /\ \A j \in Range(queue') : j.call # r.job.call
                      /\ \A j \in running : j.call # r.job.call
    BY DEF ReturnedAwaited
  <2>1. r \in returned /\ r.job \in Job /\ r.job.call # c
    BY DEF TypeOK
  <2> QED BY <1>1, <1>3, <1>5, <2>1 DEF PoolInv, ReturnedAwaited
<1> QED BY <1>8, <1>9, <1>10 DEF PoolInv

(***************************************************************************)
(* Where the jobs of a call are when one of its results is awaited, and    *)
(* before its first attempt: nowhere in the pool.                          *)
(***************************************************************************)
LEMMA NoJobBesideResult ==
    ASSUME TypeOK, PoolInv, NEW c \in Call, NEW r \in Awaited(c)
    PROVE  /\ \A j \in Range(queue) : j.call # c
           /\ \A j \in running : j.call # c
BY DEF PoolInv, ReturnedAwaited, Awaited, Current

LEMMA NoJobBeforeCall ==
    ASSUME TypeOK, PoolInv, NEW c \in Call, attempt[c] = 0, outcome[c] = "none"
    PROVE  /\ \A j \in Range(queue) : j.call # c
           /\ \A j \in running : j.call # c
           /\ \A r \in returned : r.job.call # c
BY DEF PoolInv, ReturnedAwaited, AbandonedOnThreadsOnly, Awaits, Pending

(***************************************************************************)
(* The steps that resume a call.                                           *)
(***************************************************************************)
LEMMA ResultsKeepPool ==
    ASSUME TypeOK, PoolInv, NEW c \in Call, NEW r \in returned,
           Answered(c, r) \/ BadText(c, r) \/ Raised(c, r)
    PROVE  PoolInv'
<1>1. r \in Awaited(c) /\ outcome[c] = "none" /\ Taken(c) /\ UNCHANGED running
  BY DEF Answered, BadText, Raised, Pending
<1>2. /\ \A j \in Range(queue) : j.call # c
      /\ \A j \in running : j.call # c
  BY <1>1, NoJobBesideResult
<1>3. Alone(queue)
  BY DEF PoolInv, OneJobPerCall, Alone
<1>4. ASSUME NEW how \in Outcome, End(c, how), UNCHANGED <<attempt, queue>>
      PROVE  PoolInv'
  BY <1>1, <1>2, <1>3, <1>4, CallLeaves
<1>5. CASE Answered(c, r)
  BY <1>4, <1>5 DEF Answered, Outcome
<1>6. CASE Raised(c, r)
  <2>1. Classified(r.reply) \in Outcome
    BY DEF Classified, Outcome
  <2> QED BY <1>4, <1>6, <2>1 DEF Raised
<1>7. CASE BadText(c, r)
  <2>1. CASE attempt[c] < Attempts /\ Submit(c, attempt[c] + 1) /\ UNCHANGED outcome
    <3>1. attempt[c] + 1 \in 1..Attempts
      BY <2>1, PoolAssumption DEF TypeOK, Attempts
    <3>2. \A q \in returned' : q \in returned /\ q.job.call # c
      BY <1>1 DEF Taken, Awaited, PoolInv, ReturnedAwaited, Awaits
    <3> QED BY <1>1, <1>2, <2>1, <3>1, <3>2, CallSubmits
  <2>2. CASE attempt[c] = Attempts /\ End(c, "invalid") /\ UNCHANGED <<attempt, queue>>
    BY <1>4, <2>2 DEF Outcome
  <2> QED BY <1>7, <2>1, <2>2 DEF BadText
<1> QED BY <1>5, <1>6, <1>7

LEMMA ExpireKeepsPool ==
    ASSUME TypeOK, PoolInv, NEW c \in Call, Expire(c)
    PROVE  PoolInv' /\ queue' \in Seq(Job)
<1>1. \A j \in Range(queue) : j.call = c => j = Current(c)
  BY DEF PoolInv, AbandonedOnThreadsOnly, Awaits
<1>2. queue \in Seq(Job) /\ Alone(queue)
  BY DEF TypeOK, PoolInv, OneJobPerCall, Alone
<1>3. /\ queue' \in Seq(Job)
      /\ Range(queue') \subseteq Range(queue)
      /\ \A j \in Range(queue') : j.call # c
      /\ Alone(queue')
  BY <1>1, <1>2, WithdrawnFacts DEF Expire
<1> QED BY <1>3, CallLeaves DEF Expire, Outcome, Pending

(***************************************************************************)
(* The steps of the pool.                                                  *)
(***************************************************************************)
LEMMA StartKeepsPool ==
    ASSUME TypeOK, PoolInv, StartJob
    PROVE  PoolInv' /\ queue' \in Seq(Job) /\ running' \subseteq Job
<1> DEFINE j == Head(queue)
<1>1. /\ queue \in Seq(Job) /\ queue # <<>> /\ Alone(queue)
      /\ queue' = Tail(queue) /\ running' = running \cup {j}
      /\ UNCHANGED <<returned, attempt, outcome>>
  BY DEF TypeOK, PoolInv, OneJobPerCall, Alone, StartJob
<1>2. /\ queue' \in Seq(Job) /\ j \in Job
      /\ j \in Range(queue) /\ Range(queue') \subseteq Range(queue)
      /\ \A k \in Range(queue') : k.call # j.call
      /\ Alone(queue')
  BY <1>1, TailFacts
<1> HIDE DEF j
<1>3. \A k : Awaits(k)' <=> Awaits(k)
  BY <1>1 DEF Awaits, Pending, Current
<1>4. OneJobPerCall'
  BY <1>1, <1>2 DEF PoolInv, OneJobPerCall, Alone
<1>5. AbandonedOnThreadsOnly'
  BY <1>1, <1>2, <1>3 DEF PoolInv, AbandonedOnThreadsOnly
<1>6. ReturnedAwaited'
  BY <1>1, <1>2, <1>3 DEF PoolInv, ReturnedAwaited
<1>7. IsFiniteSet(running')
  BY <1>1, FS_AddElement DEF PoolInv
<1> QED BY <1>1, <1>2, <1>4, <1>5, <1>6, <1>7 DEF PoolInv, TypeOK

LEMMA EndKeepsPool ==
    ASSUME TypeOK, PoolInv, NEW j \in running, NEW reply \in Reply, JobEnds(j, reply)
    PROVE  PoolInv'
<1>1. /\ running' = running \ {j} /\ UNCHANGED <<queue, attempt, outcome>>
      /\ \A r \in returned' : r \in returned \/ (r.job = j /\ Awaits(j))
  BY DEF JobEnds
<1>2. \A k : Awaits(k)' <=> Awaits(k)
  BY <1>1 DEF Awaits, Pending, Current
<1>3. OneJobPerCall' /\ AbandonedOnThreadsOnly'
  BY <1>1, <1>2 DEF PoolInv, OneJobPerCall, AbandonedOnThreadsOnly
<1>4. /\ \A k \in Range(queue) : k.call # j.call
      /\ \A k \in running \ {j} : k.call # j.call
  BY DEF PoolInv, OneJobPerCall
<1>5. ReturnedAwaited'
  BY <1>1, <1>2, <1>4 DEF PoolInv, ReturnedAwaited
<1>6. IsFiniteSet(running')
  BY <1>1, FS_RemoveElement DEF PoolInv
<1> QED BY <1>3, <1>5, <1>6 DEF PoolInv

LEMMA BeginKeepsPool ==
    ASSUME TypeOK, PoolInv, NEW c \in Call, Begin(c)
    PROVE  PoolInv'
<1>1. 1 \in 1..Attempts
  BY PoolAssumption DEF Attempts
<1>2. attempt[c] = 0 /\ outcome[c] = "none"
  BY DEF Begin
<1>3. /\ \A j \in Range(queue) : j.call # c
      /\ \A j \in running : j.call # c
      /\ \A r \in returned : r.job.call # c
  BY <1>2, NoJobBeforeCall
<1> QED BY <1>1, <1>2, <1>3, CallSubmits DEF Begin

LEMMA FailKeepsPool ==
    ASSUME TypeOK, PoolInv, NEW c \in Call, NEW f \in LocalFault, ModelFails(c, f)
    PROVE  PoolInv'
<1>1. attempt[c] = 0 /\ outcome[c] = "none" /\ UNCHANGED <<queue, running, returned>>
  BY DEF ModelFails, pool
<1>2. /\ \A j \in Range(queue) : j.call # c
      /\ \A j \in running : j.call # c
      /\ \A r \in returned : r.job.call # c
  BY <1>1, NoJobBeforeCall
<1>3. \A d \in Call : d # c => attempt'[d] = attempt[d] /\ outcome'[d] = outcome[d]
  BY DEF ModelFails, End, TypeOK
<1>4. \A j \in Job : j.call # c =>
        (Awaits(j)' <=> Awaits(j)) /\ outcome'[j.call] = outcome[j.call]
  BY <1>3 DEF Awaits, Pending, Current, Job
<1>5. Range(queue) \subseteq Job /\ running \subseteq Job /\ \A r \in returned : r.job \in Job
  BY DEF TypeOK, Range
<1>6. OneJobPerCall' /\ AbandonedOnThreadsOnly'
  BY <1>1, <1>2, <1>4, <1>5 DEF PoolInv, OneJobPerCall, AbandonedOnThreadsOnly
<1>7. ReturnedAwaited'
  BY <1>1, <1>2, <1>4, <1>5 DEF PoolInv, ReturnedAwaited
<1> QED BY <1>1, <1>6, <1>7 DEF PoolInv

LEMMA PoolStep ==
    ASSUME TypeOK, PoolInv, [Next]_vars
    PROVE  PoolInv'
<1>1. CASE UNCHANGED vars
  BY <1>1 DEF vars, PoolInv, OneJobPerCall, AbandonedOnThreadsOnly, ReturnedAwaited,
              Awaits, Pending, Current
<1>2. ASSUME NEW c \in Call, Begin(c)
      PROVE  PoolInv'
  BY <1>2, BeginKeepsPool
<1>3. ASSUME NEW c \in Call, NEW f \in LocalFault, ModelFails(c, f)
      PROVE  PoolInv'
  BY <1>3, FailKeepsPool
<1>4. ASSUME NEW c \in Call, Resume(c)
      PROVE  PoolInv'
  BY <1>4, ResultsKeepPool DEF Resume
<1>5. ASSUME NEW c \in Call, Expire(c)
      PROVE  PoolInv'
  BY <1>5, ExpireKeepsPool
<1>6. CASE StartJob
  BY <1>6, StartKeepsPool
<1>7. ASSUME NEW j \in running, NEW reply \in Reply, JobEnds(j, reply)
      PROVE  PoolInv'
  BY <1>7, EndKeepsPool
<1>8. CASE Quiet
  BY <1>1, <1>8 DEF Quiet
<1> QED BY <1>1, <1>2, <1>3, <1>4, <1>5, <1>6, <1>7, <1>8 DEF Next

(***************************************************************************)
(* Types.                                                                  *)
(***************************************************************************)
Seen == Reply \cup LocalFault \cup {TimedOut}

LEMMA SawFacts ==
    ASSUME TypeOK, NEW c \in Call, NEW reply \in Seen, Saw(c, reply)
    PROVE  /\ seen' \in [Call -> Seq(Seen)]
           /\ \A d \in Call : d # c => seen'[d] = seen[d]
           /\ Len(seen[c]) \in Nat
           /\ Len(seen'[c]) = Len(seen[c]) + 1
           /\ DOMAIN seen'[c] = 1..(Len(seen[c]) + 1)
           /\ seen'[c][Len(seen'[c])] = reply
           /\ \A n \in 1..Len(seen[c]) : seen'[c][n] = seen[c][n]
           /\ DOMAIN seen[c] = 1..Len(seen[c])
<1>1. /\ seen \in [Call -> Seq(Seen)] /\ seen[c] \in Seq(Seen)
      /\ seen' = [seen EXCEPT ![c] = Append(seen[c], reply)]
  BY DEF TypeOK, Saw, Seen
<1>2. /\ Append(seen[c], reply) \in Seq(Seen)
      /\ Len(Append(seen[c], reply)) = Len(seen[c]) + 1
      /\ \A n \in 1..Len(seen[c]) : Append(seen[c], reply)[n] = seen[c][n]
      /\ Append(seen[c], reply)[Len(seen[c]) + 1] = reply
      /\ Len(seen[c]) \in Nat
      /\ DOMAIN seen[c] = 1..Len(seen[c])
      /\ DOMAIN Append(seen[c], reply) = 1..(Len(seen[c]) + 1)
  BY <1>1, AppendProperties, LenProperties
<1>3. seen'[c] = Append(seen[c], reply)
  BY <1>1
<1> QED BY <1>1, <1>2, <1>3

LEMMA SubmitTypes ==
    ASSUME TypeOK, NEW c \in Call, NEW n \in 1..Attempts, Submit(c, n)
    PROVE  queue' \in Seq(Job) /\ attempt' \in [Call -> 0..Attempts]
<1>1. [call |-> c, attempt |-> n] \in Job
  BY DEF Job
<1>2. queue' \in Seq(Job)
  BY <1>1, AppendFacts DEF Submit, TypeOK
<1> QED BY <1>2 DEF Submit, TypeOK

LEMMA ClassifiedType == \A f : Classified(f) \in Outcome \ {"answer", "invalid", "timed_out"}
BY DEF Classified, Outcome

LEMMA ResultTypes ==
    ASSUME TypeOK, NEW c \in Call, NEW r \in returned,
           Answered(c, r) \/ BadText(c, r) \/ Raised(c, r)
    PROVE  TypeOK'
<1>1. /\ Saw(c, r.reply) /\ r.reply \in Seen
      /\ UNCHANGED <<modelReady, running>>
      /\ returned' \subseteq returned
  BY DEF Answered, BadText, Raised, Taken, Seen, Reply
<1>2. seen' \in [Call -> Seq(Seen)]
  BY <1>1, SawFacts
<1>3. ASSUME NEW how \in Outcome, End(c, how), UNCHANGED <<attempt, queue>>
      PROVE  TypeOK'
  BY <1>1, <1>2, <1>3 DEF TypeOK, End, Seen
<1>4. CASE Answered(c, r)
  BY <1>3, <1>4 DEF Answered, Outcome
<1>5. CASE Raised(c, r)
  BY <1>3, <1>5, ClassifiedType DEF Raised
<1>6. CASE BadText(c, r)
  <2>1. CASE attempt[c] < Attempts /\ Submit(c, attempt[c] + 1) /\ UNCHANGED outcome
    <3>1. attempt[c] + 1 \in 1..Attempts
      BY <2>1, PoolAssumption DEF TypeOK, Attempts
    <3>2. queue' \in Seq(Job) /\ attempt' \in [Call -> 0..Attempts]
      BY <2>1, <3>1, SubmitTypes
    <3> QED BY <1>1, <1>2, <2>1, <3>2 DEF TypeOK, Seen
  <2>2. CASE attempt[c] = Attempts /\ End(c, "invalid") /\ UNCHANGED <<attempt, queue>>
    BY <1>3, <2>2 DEF Outcome
  <2> QED BY <1>6, <2>1, <2>2 DEF BadText
<1> QED BY <1>4, <1>5, <1>6

LEMMA TypeStep ==
    ASSUME TypeOK, PoolInv, [Next]_vars
    PROVE  TypeOK'
<1>0. 1 \in 1..Attempts /\ 1 \in 0..Attempts
  BY PoolAssumption DEF Attempts
<1>1. CASE UNCHANGED vars
  BY <1>1 DEF vars, TypeOK
<1>2. ASSUME NEW c \in Call, Begin(c)
      PROVE  TypeOK'
  <2>1. queue' \in Seq(Job) /\ attempt' \in [Call -> 0..Attempts]
    BY <1>0, <1>2, SubmitTypes DEF Begin
  <2>2. modelReady' \in [Client -> BOOLEAN]
    BY <1>2, ClientAssumption DEF Begin, TypeOK
  <2> QED BY <1>2, <2>1, <2>2 DEF Begin, TypeOK
<1>3. ASSUME NEW c \in Call, NEW f \in LocalFault, ModelFails(c, f)
      PROVE  TypeOK'
  <2>1. f \in Seen /\ Saw(c, f) /\ End(c, Classified(f)) /\ Classified(f) \in Outcome
    BY <1>3, ClassifiedType DEF ModelFails, Seen
  <2>2. seen' \in [Call -> Seq(Seen)]
    BY <2>1, SawFacts
  <2>3. attempt' \in [Call -> 0..Attempts]
    BY <1>0, <1>3 DEF ModelFails, TypeOK
  <2> QED BY <1>3, <2>1, <2>2, <2>3 DEF ModelFails, End, TypeOK, Seen, pool
<1>4. ASSUME NEW c \in Call, Resume(c)
      PROVE  TypeOK'
  BY <1>4, ResultTypes DEF Resume
<1>5. ASSUME NEW c \in Call, Expire(c)
      PROVE  TypeOK'
  <2>1. queue' \in Seq(Job)
    BY <1>5, ExpireKeepsPool
  <2>2. seen' \in [Call -> Seq(Seen)]
    BY <1>5, SawFacts DEF Expire, Seen
  <2> QED BY <1>5, <2>1, <2>2 DEF Expire, Taken, End, TypeOK, Outcome, Seen
<1>6. CASE StartJob
  <2>1. queue' \in Seq(Job) /\ running' \subseteq Job
    BY <1>6, StartKeepsPool
  <2>2. Cardinality(running') <= Workers
    <3>1. IsFiniteSet(running) /\ Cardinality(running) \in Nat
      BY FS_CardinalityType DEF PoolInv
    <3>2. \/ Cardinality(running \cup {Head(queue)}) = Cardinality(running)
          \/ Cardinality(running \cup {Head(queue)}) = Cardinality(running) + 1
      BY <3>1, FS_AddElement, Zenon
    <3>3. running' = running \cup {Head(queue)} /\ Cardinality(running) < Workers
      BY <1>6 DEF StartJob
    <3> QED BY <3>1, <3>2, <3>3, PoolAssumption
  <2> QED BY <1>6, <2>1, <2>2 DEF StartJob, TypeOK
<1>7. ASSUME NEW j \in running, NEW reply \in Reply, JobEnds(j, reply)
      PROVE  TypeOK'
  <2>1. Cardinality(running') <= Workers
    <3>1. IsFiniteSet(running) /\ Cardinality(running) \in Nat
      BY FS_CardinalityType DEF PoolInv
    <3>2. Cardinality(running \ {j}) = Cardinality(running) - 1
      BY <3>1, FS_RemoveElement
    <3>3. running' = running \ {j} /\ Cardinality(running) <= Workers
      BY <1>7 DEF JobEnds, TypeOK
    <3> QED BY <3>1, <3>2, <3>3, PoolAssumption
  <2>2. returned' \subseteq [job : Job, reply : Reply]
    BY <1>7 DEF JobEnds, TypeOK
  <2> QED BY <1>7, <2>1, <2>2 DEF JobEnds, TypeOK
<1>8. CASE Quiet
  BY <1>1, <1>8 DEF Quiet
<1> QED BY <1>1, <1>2, <1>3, <1>4, <1>5, <1>6, <1>7, <1>8 DEF Next

(***************************************************************************)
(* What each step makes of the attempts of the call it is about.           *)
(***************************************************************************)
LEMMA CallsFrame ==
    ASSUME CallsInv, UNCHANGED <<attempt, outcome, seen>>
    PROVE  CallsInv'
BY DEF CallsInv, OnlyBadTextRetried, EndsAsLastSeen, Pending

LEMMA CallEnds ==
    ASSUME TypeOK, TypeOK', CallsInv, NEW c \in Call, NEW reply \in Seen, NEW how \in Outcome,
           Saw(c, reply), End(c, how), outcome[c] = "none",
           \A d \in Call : d # c => attempt'[d] = attempt[d],
           attempt'[c] = Len(seen[c]) + 1,
           \A n \in 1..Len(seen[c]) : seen[c][n] \in BadTexts,
           how = "answer" <=> reply \in Text /\ reply.json,
           how = "invalid" <=> reply \in BadTexts,
           how = "invalid" => attempt'[c] = Attempts,
           how = "timed_out" <=> reply = TimedOut,
           reply \in Fault \cup LocalFault => how = Classified(reply)
    PROVE  CallsInv'
<1>1. /\ outcome'[c] = how /\ how # "none"
      /\ \A d \in Call : d # c => outcome'[d] = outcome[d]
  BY DEF TypeOK, End, Outcome
<1>2. /\ \A d \in Call : d # c => seen'[d] = seen[d]
      /\ Len(seen[c]) \in Nat
      /\ Len(seen'[c]) = Len(seen[c]) + 1
      /\ DOMAIN seen'[c] = 1..(Len(seen[c]) + 1)
      /\ seen'[c][Len(seen'[c])] = reply
      /\ \A n \in 1..Len(seen[c]) : seen'[c][n] = seen[c][n]
  BY SawFacts
<1>3. OnlyBadTextRetried'
  <2> SUFFICES ASSUME NEW d \in Call
               PROVE  /\ \A n \in DOMAIN seen'[d] :
                            n < Len(seen'[d]) \/ Pending(d)' => seen'[d][n] \in BadTexts
                      /\ attempt'[d] = Len(seen'[d]) + (IF Pending(d)' THEN 1 ELSE 0)
    BY DEF OnlyBadTextRetried, BadTexts
  <2>1. CASE d = c
    <3>1. ~Pending(c)'
      BY <1>1 DEF Pending
    <3>2. \A n \in DOMAIN seen'[c] : n < Len(seen'[c]) => seen'[c][n] \in BadTexts
      BY <1>2
    <3> QED BY <1>2, <2>1, <3>1, <3>2
  <2>2. CASE d # c
    <3>1. Pending(d)' <=> Pending(d)
      BY <1>1, <2>2 DEF Pending
    <3> QED BY <1>2, <2>2, <3>1 DEF CallsInv, OnlyBadTextRetried
  <2> QED BY <2>1, <2>2
<1>4. EndsAsLastSeen'
  <2>1. \A d \in Call : d # c => outcome'[d] = outcome[d] /\ seen'[d] = seen[d]
    BY <1>1, <1>2
  <2>2. seen'[c] # <<>>
    BY <1>2
  <2> QED BY <1>1, <1>2, <2>1, <2>2 DEF CallsInv, EndsAsLastSeen, BadTexts
<1> QED BY <1>3, <1>4 DEF CallsInv

LEMMA CallGoesOn ==
    ASSUME TypeOK, TypeOK', CallsInv, NEW c \in Call, NEW reply \in BadTexts,
           Saw(c, reply), UNCHANGED outcome, outcome[c] = "none",
           \A d \in Call : d # c => attempt'[d] = attempt[d],
           attempt[c] = Len(seen[c]) + 1, attempt'[c] = attempt[c] + 1,
           \A n \in 1..Len(seen[c]) : seen[c][n] \in BadTexts
    PROVE  CallsInv'
<1>1. reply \in Seen
  BY DEF BadTexts, Seen, Reply
<1>2. /\ \A d \in Call : d # c => seen'[d] = seen[d]
      /\ Len(seen[c]) \in Nat
      /\ Len(seen'[c]) = Len(seen[c]) + 1
      /\ DOMAIN seen'[c] = 1..(Len(seen[c]) + 1)
      /\ seen'[c][Len(seen'[c])] = reply
      /\ \A n \in 1..Len(seen[c]) : seen'[c][n] = seen[c][n]
  BY <1>1, SawFacts
<1>3. OnlyBadTextRetried'
  <2> SUFFICES ASSUME NEW d \in Call
               PROVE  /\ \A n \in DOMAIN seen'[d] :
                            n < Len(seen'[d]) \/ Pending(d)' => seen'[d][n] \in BadTexts
                      /\ attempt'[d] = Len(seen'[d]) + (IF Pending(d)' THEN 1 ELSE 0)
    BY DEF OnlyBadTextRetried, BadTexts
  <2>1. CASE d = c
    <3>1. Pending(c)'
      BY <1>2 DEF Pending
    <3>2. \A n \in DOMAIN seen'[c] : seen'[c][n] \in BadTexts
      <4> SUFFICES ASSUME NEW n \in 1..(Len(seen[c]) + 1)
                   PROVE  seen'[c][n] \in BadTexts
        BY <1>2
      <4>1. n \in 1..Len(seen[c]) \/ n = Len(seen'[c])
        BY <1>2
      <4> QED BY <1>2, <4>1
    <3> QED BY <1>2, <2>1, <3>1, <3>2
  <2>2. CASE d # c
    <3>1. Pending(d)' <=> Pending(d)
      BY <2>2 DEF Pending
    <3> QED BY <1>2, <2>2, <3>1 DEF CallsInv, OnlyBadTextRetried
  <2> QED BY <2>1, <2>2
<1>4. EndsAsLastSeen'
  BY <1>2 DEF CallsInv, EndsAsLastSeen, BadTexts
<1> QED BY <1>3, <1>4 DEF CallsInv

\* A pending call has seen bad texts only, a call not made nothing.
LEMMA SeenSoFar ==
    ASSUME TypeOK, CallsInv, NEW c \in Call
    PROVE  /\ Len(seen[c]) \in Nat /\ DOMAIN seen[c] = 1..Len(seen[c])
           /\ Pending(c) => /\ attempt[c] = Len(seen[c]) + 1
                            /\ \A n \in 1..Len(seen[c]) : seen[c][n] \in BadTexts
           /\ attempt[c] = 0 => Len(seen[c]) = 0
<1>1. Len(seen[c]) \in Nat /\ DOMAIN seen[c] = 1..Len(seen[c])
  BY LenProperties DEF TypeOK
<1>2. /\ \A n \in DOMAIN seen[c] : Pending(c) => seen[c][n] \in BadTexts
      /\ attempt[c] = Len(seen[c]) + (IF Pending(c) THEN 1 ELSE 0)
  BY DEF CallsInv, OnlyBadTextRetried, BadTexts
<1>3. attempt[c] = 0 => ~Pending(c)
  BY DEF Pending
<1>4. CASE Pending(c)
  <2>1. attempt[c] = Len(seen[c]) + 1
    BY <1>1, <1>2, <1>4
  <2> QED BY <1>1, <1>2, <1>3, <1>4, <2>1
<1>5. CASE ~Pending(c)
  <2>1. attempt[c] = Len(seen[c])
    BY <1>1, <1>2, <1>5
  <2> QED BY <1>1, <1>5, <2>1
<1> QED BY <1>4, <1>5

LEMMA CallsStep ==
    ASSUME TypeOK, PoolInv, CallsInv, [Next]_vars
    PROVE  CallsInv'
<1>0. TypeOK'
  BY TypeStep
<1>1. CASE UNCHANGED vars
  BY <1>1, CallsFrame DEF vars
<1>2. ASSUME NEW c \in Call, Begin(c)
      PROVE  CallsInv'
  <2>1. /\ attempt'[c] = 1 /\ UNCHANGED <<outcome, seen>> /\ Len(seen[c]) = 0
        /\ outcome[c] = "none" /\ DOMAIN seen[c] = {}
        /\ \A d \in Call : d # c => attempt'[d] = attempt[d]
    BY <1>2, SeenSoFar DEF Begin, Submit, TypeOK
  <2>2. \A d \in Call : d # c => (Pending(d)' <=> Pending(d))
    BY <2>1 DEF Pending
  <2>3. Pending(c)'
    BY <2>1 DEF Pending
  <2>4. OnlyBadTextRetried'
    <3> SUFFICES ASSUME NEW d \in Call
                 PROVE  /\ \A n \in DOMAIN seen[d] :
                              n < Len(seen[d]) \/ Pending(d)' => seen[d][n] \in BadTexts
                        /\ attempt'[d] = Len(seen[d]) + (IF Pending(d)' THEN 1 ELSE 0)
      BY <2>1 DEF OnlyBadTextRetried, BadTexts
    <3>1. CASE d = c
      BY <2>1, <2>3, <3>1
    <3>2. CASE d # c
      BY <2>1, <2>2, <3>2 DEF CallsInv, OnlyBadTextRetried
    <3> QED BY <3>1, <3>2
  <2>5. EndsAsLastSeen'
    BY <2>1 DEF CallsInv, EndsAsLastSeen, BadTexts
  <2> QED BY <2>4, <2>5 DEF CallsInv
<1>3. ASSUME NEW c \in Call, NEW f \in LocalFault, ModelFails(c, f)
      PROVE  CallsInv'
  <2>1. /\ Len(seen[c]) = 0 /\ attempt'[c] = 1 /\ outcome[c] = "none"
        /\ \A d \in Call : d # c => attempt'[d] = attempt[d]
        /\ Saw(c, f) /\ End(c, Classified(f))
    BY <1>3, SeenSoFar DEF ModelFails, TypeOK
  <2>2. f \in Seen /\ f \notin Text /\ f # TimedOut
    BY ReplyAssumption DEF Seen
  <2>3. Classified(f) \in Outcome \ {"answer", "invalid", "timed_out"}
    BY ClassifiedType
  <2> HIDE DEF Classified
  <2> QED BY <1>0, <2>1, <2>2, <2>3, CallEnds DEF BadTexts
<1>4. ASSUME NEW c \in Call, NEW r \in returned,
             Answered(c, r) \/ BadText(c, r) \/ Raised(c, r)
      PROVE  CallsInv'
  <2>1. /\ Pending(c) /\ Saw(c, r.reply) /\ r.reply \in Seen
        /\ attempt[c] = Len(seen[c]) + 1 /\ outcome[c] = "none"
        /\ \A n \in 1..Len(seen[c]) : seen[c][n] \in BadTexts
    BY <1>4, SeenSoFar DEF Answered, BadText, Raised, Seen, Reply, Pending
  <2>2. CASE Answered(c, r)
    <3>1. /\ r.reply \in Text /\ r.reply.json /\ r.reply \notin BadTexts
          /\ r.reply # TimedOut /\ r.reply \notin Fault \cup LocalFault
      BY <2>2, ReplyAssumption DEF Answered, BadTexts
    <3>2. End(c, "answer") /\ UNCHANGED attempt
      BY <2>2 DEF Answered
    <3> QED BY <1>0, <2>1, <3>1, <3>2, CallEnds DEF Outcome
  <2>3. CASE Raised(c, r)
    <3>1. r.reply \in Fault /\ r.reply \notin Text /\ r.reply # TimedOut
      BY <2>3, ReplyAssumption DEF Raised
    <3>2. End(c, Classified(r.reply)) /\ UNCHANGED attempt
      BY <2>3 DEF Raised
    <3>3. Classified(r.reply) \in Outcome \ {"answer", "invalid", "timed_out"}
      BY ClassifiedType
    <3> HIDE DEF Classified
    <3> QED BY <1>0, <2>1, <3>1, <3>2, <3>3, CallEnds DEF BadTexts
  <2>4. CASE BadText(c, r)
    <3>1. r.reply \in BadTexts /\ r.reply \in Text /\ ~r.reply.json
      BY <2>4 DEF BadText, BadTexts
    <3>2. r.reply # TimedOut /\ r.reply \notin Fault \cup LocalFault
      BY <3>1, ReplyAssumption
    <3>3. CASE attempt[c] < Attempts /\ Submit(c, attempt[c] + 1) /\ UNCHANGED outcome
      <4>1. /\ attempt'[c] = attempt[c] + 1
            /\ \A d \in Call : d # c => attempt'[d] = attempt[d]
        BY <3>3 DEF Submit, TypeOK
      <4> QED BY <1>0, <2>1, <3>1, <3>3, <4>1, CallGoesOn
    <3>4. CASE attempt[c] = Attempts /\ End(c, "invalid") /\ UNCHANGED <<attempt, queue>>
      BY <1>0, <2>1, <3>1, <3>2, <3>4, CallEnds DEF Outcome
    <3> QED BY <2>4, <3>3, <3>4 DEF BadText
  <2> QED BY <1>4, <2>2, <2>3, <2>4
<1>5. ASSUME NEW c \in Call, Expire(c)
      PROVE  CallsInv'
  <2>1. /\ Pending(c) /\ Saw(c, TimedOut) /\ End(c, "timed_out") /\ UNCHANGED attempt
        /\ attempt[c] = Len(seen[c]) + 1 /\ outcome[c] = "none"
        /\ \A n \in 1..Len(seen[c]) : seen[c][n] \in BadTexts
    BY <1>5, SeenSoFar DEF Expire, Pending
  <2>2. TimedOut \in Seen /\ TimedOut \notin Text \cup Fault \cup LocalFault
    BY ReplyAssumption DEF Seen
  <2> QED BY <1>0, <2>1, <2>2, CallEnds DEF Outcome, BadTexts
<1>6. CASE StartJob
  BY <1>6, CallsFrame DEF StartJob
<1>7. ASSUME NEW j \in running, NEW reply \in Reply, JobEnds(j, reply)
      PROVE  CallsInv'
  BY <1>7, CallsFrame DEF JobEnds
<1>8. CASE Quiet
  BY <1>1, <1>8 DEF Quiet
<1>9. ASSUME NEW c \in Call, Resume(c)
      PROVE  CallsInv'
  BY <1>4, <1>9 DEF Resume
<1> QED BY <1>1, <1>2, <1>3, <1>5, <1>6, <1>7, <1>8, <1>9 DEF Next

(***************************************************************************)
(* The inductive invariant, for any calls, threads, retries and replies.   *)
(***************************************************************************)
LEMMA InitInv == Init => IInv
<1> SUFFICES ASSUME Init PROVE IInv
  OBVIOUS
<1>1. IsFiniteSet(running) /\ Cardinality(running) = 0
  BY FS_EmptySet DEF Init
<1>2. 0 \in 0..Attempts
  BY PoolAssumption DEF Attempts
<1>3. queue \in Seq(Job) /\ Range(queue) = {} /\ DOMAIN queue = {}
  BY EmptySeq DEF Init, Range
<1>4. TypeOK
  <2>1. seen \in [Call -> Seq(Seen)]
    BY EmptySeq DEF Init
  <2>2. 0 <= Workers
    BY PoolAssumption
  <2> QED BY <1>1, <1>2, <1>3, <2>1, <2>2 DEF Init, TypeOK, Seen
<1>5. PoolInv
  BY <1>1, <1>3 DEF Init, PoolInv, OneJobPerCall, AbandonedOnThreadsOnly, ReturnedAwaited
<1>6. CallsInv
  BY DEF Init, CallsInv, OnlyBadTextRetried, EndsAsLastSeen, Pending
<1> QED BY <1>4, <1>5, <1>6 DEF IInv

THEOREM ClientInvariant == Spec => []IInv
<1>1. IInv /\ [Next]_vars => IInv'
  BY TypeStep, PoolStep, CallsStep DEF IInv
<1> QED BY <1>1, InitInv, PTL DEF Spec

(***************************************************************************)
(* The values stay in their types, and the pool within its threads.        *)
(***************************************************************************)
THEOREM ClientTypes == Spec => []TypeOK
<1>1. IInv => TypeOK
  BY DEF IInv
<1> QED BY <1>1, ClientInvariant, PTL

(***************************************************************************)
(* Only a text that is not JSON is retried, within the budget.             *)
(***************************************************************************)
THEOREM RetriesAreForBadText == Spec => []OnlyBadTextRetried
<1>1. IInv => OnlyBadTextRetried
  BY DEF IInv, CallsInv
<1> QED BY <1>1, ClientInvariant, PTL

(***************************************************************************)
(* A call ends the way its last attempt says.  "invalid" means the budget  *)
(* is spent: that part is an invariant of its own.                         *)
(***************************************************************************)
THEOREM EndingsAreEarned == Spec => []EndsAsLastSeen
<1>1. IInv => EndsAsLastSeen
  BY DEF IInv, CallsInv
<1> QED BY <1>1, ClientInvariant, PTL

(***************************************************************************)
(* A call never holds two places in the pool.                              *)
(***************************************************************************)
THEOREM NoCrowding == Spec => []OneJobPerCall
<1>1. IInv => OneJobPerCall
  BY DEF IInv, PoolInv
<1> QED BY <1>1, ClientInvariant, PTL

(***************************************************************************)
(* No job is started in vain; only a timeout leaves a thread behind.       *)
(***************************************************************************)
THEOREM OnlyTimeoutsAbandon == Spec => []AbandonedOnThreadsOnly
<1>1. IInv => AbandonedOnThreadsOnly
  BY DEF IInv, PoolInv
<1> QED BY <1>1, ClientInvariant, PTL

(***************************************************************************)
(* The safety half of the promise: a call ends once, in an answer or in a  *)
(* domain exception, and no late result changes that.  Its fairness half   *)
(* is checked by TLC as KeepsPromise.                                      *)
(***************************************************************************)
THEOREM ClientKeepsPromise == Spec => Promise!SafeSpec
<1> DEFINE progress == [c \in Call |->
                            IF outcome[c] # "none" THEN Exception(outcome[c])
                            ELSE IF attempt[c] = 0 THEN "not called" ELSE "pending"]
<1>1. Init => Promise!Init
  BY DEF Init, Promise!Init
<1>2. \A how \in Outcome : Exception(how) \in Promise!Ending
  BY DEF Exception, Outcome, Promise!Ending
<1>3. \A how \in Outcome \ {"answer"} : Exception(how) # "answer"
  BY DEF Exception, Outcome
<1>4. ASSUME IInv, [Next]_vars
      PROVE  Promise!Next \/ UNCHANGED progress
  <2>0. outcome \in [Call -> Outcome \cup {"none"}] /\ attempt \in [Call -> 0..Attempts]
    BY <1>4 DEF IInv, TypeOK
  <2>1. CASE UNCHANGED <<attempt, outcome>>
    BY <2>1
  <2>2. ASSUME NEW c \in Call, Begin(c)
        PROVE  Promise!Next
    <3>1. progress' = [progress EXCEPT ![c] = "pending"] /\ progress[c] = "not called"
      <4>1. /\ \A d \in Call : attempt'[d] = IF d = c THEN 1 ELSE attempt[d]
            /\ attempt[c] = 0 /\ outcome[c] = "none" /\ outcome' = outcome
        BY <2>0, <2>2 DEF Begin, Submit
      <4>2. attempt'[c] # 0 /\ outcome'[c] = "none" /\ 1 # 0
        BY <4>1
      <4>3. \A d \in Call : d # c => attempt'[d] = attempt[d] /\ outcome'[d] = outcome[d]
        BY <4>1
      <4> QED BY <4>1, <4>2, <4>3
    <3> QED BY <3>1 DEF Promise!Next, Promise!Begin
  <2>3. ASSUME NEW c \in Call, NEW f \in LocalFault, ModelFails(c, f)
        PROVE  Promise!Next
    <3>1. Classified(f) \in Outcome \ {"answer"} /\ Classified(f) # "none"
      BY ClassifiedType DEF Outcome
    <3> HIDE DEF Classified
    <3>2. /\ progress' = [progress EXCEPT ![c] = Exception(Classified(f))]
          /\ progress[c] = "not called"
      BY <2>0, <2>3, <3>1 DEF ModelFails, End
    <3>3. Exception(Classified(f)) \in Promise!Ending \ {"answer"}
      BY <1>2, <1>3, <3>1
    <3> QED BY <3>2, <3>3 DEF Promise!Next, Promise!FailAtOnce
  <2>4. ASSUME NEW c \in Call, NEW how \in Outcome, Pending(c), End(c, how), UNCHANGED attempt
        PROVE  Promise!Next
    <3>1. /\ progress' = [progress EXCEPT ![c] = Exception(how)]
          /\ progress[c] = "pending"
      <4>1. /\ \A d \in Call : outcome'[d] = IF d = c THEN how ELSE outcome[d]
            /\ attempt[c] # 0 /\ outcome[c] = "none" /\ how # "none" /\ attempt' = attempt
        BY <2>0, <2>4 DEF End, Pending, Outcome
      <4> QED BY <4>1
    <3> QED BY <1>2, <3>1 DEF Promise!Next, Promise!End
  <2>5. ASSUME NEW c \in Call, NEW r \in returned, BadText(c, r), attempt[c] < Attempts,
               Submit(c, attempt[c] + 1), UNCHANGED outcome
        PROVE  UNCHANGED progress
    <3>1. attempt[c] > 0 /\ attempt'[c] > 0
      BY <2>0, <2>5, PoolAssumption DEF BadText, Pending, Submit, Attempts
    <3>2. \A d \in Call : attempt'[d] = 0 <=> attempt[d] = 0
      BY <2>0, <2>5, <3>1, PoolAssumption DEF Submit, Attempts
    <3> QED BY <2>5, <3>2
  <2>6. ASSUME NEW c \in Call, NEW r \in returned, Answered(c, r) \/ BadText(c, r) \/ Raised(c, r)
        PROVE  Promise!Next \/ UNCHANGED progress
    <3>1. CASE Answered(c, r)
      BY <2>4, <3>1 DEF Answered, Outcome
    <3>2. CASE Raised(c, r)
      BY <2>4, <3>2, ClassifiedType DEF Raised
    <3>3. CASE BadText(c, r)
      BY <2>4, <2>5, <3>3 DEF BadText, Outcome
    <3> QED BY <2>6, <3>1, <3>2, <3>3
  <2>7. ASSUME NEW c \in Call, Expire(c)
        PROVE  Promise!Next
    BY <2>4, <2>7 DEF Expire, Outcome
  <2>8. CASE StartJob \/ Quiet \/ \E j \in running, reply \in Reply : JobEnds(j, reply)
    BY <2>1, <2>8 DEF StartJob, Quiet, JobEnds, vars
  <2> HIDE DEF progress
  <2> QED BY <1>4, <2>1, <2>2, <2>3, <2>6, <2>7, <2>8 DEF Next, Resume, vars
<1> QED BY <1>1, <1>4, ClientInvariant, PTL DEF Spec, Promise!SafeSpec

==============================================================================
