----------------------------- MODULE DataLemmas ------------------------------
(***************************************************************************)
(* Facts about finite sets of integers and about flattened sequences that  *)
(* the proofs of several components need.                                  *)
(*                                                                         *)
(* A finite set of integers has a least and a greatest element: what min() *)
(* and max() of the days of a collection return, and why the first         *)
(* occurrence of a sentence exists.  Among the sets of the elements up to  *)
(* an element one has no smaller one below it, because inclusion is        *)
(* well-founded on finite sets.  UpTo is induction up to a number, through *)
(* the set of the numbers reached.                                         *)
(***************************************************************************)
EXTENDS Integers, SequencesExt, TLAPS, FiniteSetTheorems, SequenceTheorems, WellFoundedInduction

LEMMA HasLeast ==
    ASSUME NEW S \in SUBSET Int, IsFiniteSet(S), S # {}
    PROVE  \E x \in S : \A y \in S : x <= y
<1> DEFINE upto(d) == {e \in S : d >= e}
           cuts == {upto(d) : d \in S}
           R == StrictSubsetOrdering(Int)
<1>1. /\ cuts \subseteq FiniteSubsetsOf(Int) /\ cuts # {}
      /\ \A d \in S : upto(d) \in SUBSET Int
  <2>1. \A d \in S : upto(d) \in SUBSET S /\ upto(d) \in SUBSET Int
    OBVIOUS
  <2>2. \A d \in S : IsFiniteSet(upto(d))
    BY <2>1, FS_Subset
  <2> HIDE DEF upto
  <2> QED BY <2>1, <2>2 DEF FiniteSubsetsOf
<1>2. PICK least \in cuts : \A c \in cuts : ~(<<c, least>> \in R)
  <2>1. IsWellFoundedOn(R, FiniteSubsetsOf(Int))
    BY FS_StrictSubsetOrderingWellFounded
  <2> HIDE DEF cuts, R
  <2> QED BY <1>1, <2>1, WFMin
<1>3. PICK d \in S : least = upto(d)
  BY <1>2
<1>4. ASSUME NEW e \in S, ~(d <= e)
      PROVE  FALSE
  <2>1. e \in Int /\ d \in Int
    OBVIOUS
  <2>2. \A x \in S : e >= x => d >= x
    BY <1>4, <2>1
  <2>3. upto(e) \subseteq upto(d)
    BY <2>2
  <2>4. d \in upto(d) /\ d \notin upto(e)
    BY <1>4, <2>1
  <2> HIDE DEF upto
  <2>5. <<upto(e), upto(d)>> \in R
    BY <1>1, <2>3, <2>4 DEF StrictSubsetOrdering
  <2> QED BY <1>2, <1>3, <2>5
<1> QED BY <1>4

\* The n days of which the last one is known are those after the n-th before it.
LEMMA DaysUpTo ==
    ASSUME NEW d \in Int, NEW last \in Int, NEW n \in Nat
    PROVE  d <= last /\ Cardinality(d..last) <= n <=> last - n < d /\ d <= last
<1>1. Cardinality(d..last) = IF d > last THEN 0 ELSE last - d + 1
  BY FS_Interval
<1>2. CASE d <= last
  <2>1. Cardinality(d..last) = last - d + 1
    BY <1>1, <1>2
  <2> QED BY <1>2, <2>1
<1>3. CASE ~(d <= last)
  BY <1>3
<1> QED BY <1>2, <1>3

LEMMA HasGreatest ==
    ASSUME NEW S \in SUBSET Int, IsFiniteSet(S), S # {}
    PROVE  \E x \in S : \A y \in S : x >= y
<1> DEFINE since(d) == {e \in S : d <= e}
           cuts == {since(d) : d \in S}
           R == StrictSubsetOrdering(Int)
<1>1. /\ cuts \subseteq FiniteSubsetsOf(Int) /\ cuts # {}
      /\ \A d \in S : since(d) \in SUBSET Int
  <2>1. \A d \in S : since(d) \in SUBSET S /\ since(d) \in SUBSET Int
    OBVIOUS
  <2>2. \A d \in S : IsFiniteSet(since(d))
    BY <2>1, FS_Subset
  <2> HIDE DEF since
  <2> QED BY <2>1, <2>2 DEF FiniteSubsetsOf
<1>2. PICK least \in cuts : \A c \in cuts : ~(<<c, least>> \in R)
  <2>1. IsWellFoundedOn(R, FiniteSubsetsOf(Int))
    BY FS_StrictSubsetOrderingWellFounded
  <2> HIDE DEF cuts, R
  <2> QED BY <1>1, <2>1, WFMin
<1>3. PICK d \in S : least = since(d)
  BY <1>2
<1>4. ASSUME NEW e \in S, ~(d >= e)
      PROVE  FALSE
  <2>1. e \in Int /\ d \in Int
    OBVIOUS
  <2>2. \A x \in S : e <= x => d <= x
    BY <1>4, <2>1
  <2>3. since(e) \subseteq since(d)
    BY <2>2
  <2>4. d \in since(d) /\ d \notin since(e)
    BY <1>4, <2>1
  <2> HIDE DEF since
  <2>5. <<since(e), since(d)>> \in R
    BY <1>1, <2>3, <2>4 DEF StrictSubsetOrdering
  <2> QED BY <1>2, <1>3, <2>5
<1> QED BY <1>4
(***************************************************************************)
(* Induction up to n, as a fact about a set: what holds of 0 and passes    *)
(* from each number to the next holds of all of them.                      *)
(***************************************************************************)
LEMMA UpTo ==
    ASSUME NEW n \in Nat, NEW S, 0 \in S, \A i \in 1..n : i - 1 \in S => i \in S
    PROVE  \A i \in 0..n : i \in S
<1> DEFINE missing == (0..n) \ S
<1>1. SUFFICES ASSUME missing # {} PROVE FALSE
  OBVIOUS
<1>2. missing \in SUBSET Int /\ IsFiniteSet(missing)
  <2>1. IsFiniteSet(0..n)
    BY FS_Interval
  <2> QED BY <2>1, FS_Subset
<1>3. PICK i \in missing : \A j \in missing : i <= j
  <2> HIDE DEF missing
  <2> QED BY <1>1, <1>2, HasLeast
<1>4. i \in 1..n /\ i - 1 \in 0..n /\ i - 1 \notin missing
  <2>1. i \in 1..n
    OBVIOUS
  <2>2. i - 1 \in 0..n /\ ~(i <= i - 1)
    BY <2>1
  <2> QED BY <1>3, <2>1, <2>2
<1> QED BY <1>4

------------------------------------------------------------------------------
(* Flattening.                                                               *)

\* f[i] is the concatenation of the first i elements of ss.
Flattens(f, ss, S) ==
    /\ f \in [0..Len(ss) -> Seq(S)]
    /\ f[0] = <<>>
    /\ \A i \in 1..Len(ss) : f[i] = f[i - 1] \o ss[i]

LEMMA FlattenBy ==
    ASSUME NEW S, NEW ss \in Seq(Seq(S)), NEW f, Flattens(f, ss, S)
    PROVE  FlattenSeq(ss) = f[Len(ss)]
<1> DEFINE n == Len(ss)
           step(g) == [i \in 1..n |-> IF i = 1 THEN ss[i] ELSE g[i - 1] \o ss[i]]
           g == CHOOSE h : h = step(h)
           w == [i \in 1..n |-> f[i]]
<1>1. n \in Nat /\ \A i \in 1..n : ss[i] \in Seq(S)
  OBVIOUS
<1>2. CASE n = 0
  <2>1. ss = <<>>
    BY <1>2
  <2> QED BY <1>2, <2>1 DEF FlattenSeq, Flattens
<1>3. CASE n # 0
  <2>1. FlattenSeq(ss) = g[n]
    BY <1>1, <1>3 DEF FlattenSeq
  <2>2. \A i \in 1..n : f[i] = IF i = 1 THEN ss[i] ELSE f[i - 1] \o ss[i]
    <3>1. f[0] = <<>> /\ \A i \in 1..n : f[i] = f[i - 1] \o ss[i]
      BY DEF Flattens
    <3>2. f[1] = <<>> \o ss[1] /\ ss[1] \in Seq(S)
      <4>1. 1 \in 1..n /\ 1 - 1 = 0
        BY <1>1, <1>3
      <4> QED BY <1>1, <3>1, <4>1
    <3>3. f[1] = ss[1]
      BY <3>2, ConcatEmptySeq
    <3> QED BY <3>1, <3>3
  <2>3. w = step(w)
    BY <2>2
  <2>4. g = step(g)
    <3> HIDE DEF step, w
    <3> QED BY <2>3
  <2>5. g = [i \in 1..n |-> IF i = 1 THEN ss[i] ELSE g[i - 1] \o ss[i]]
    <3> HIDE DEF g
    <3> QED BY <2>4
  <2>6. \A i \in 1..n : g[i] = IF i = 1 THEN ss[i] ELSE g[i - 1] \o ss[i]
    <3> HIDE DEF g
    <3> QED BY <2>5
  <2> HIDE DEF g, n
  <2> DEFINE same == {i \in 0..n : i = 0 \/ g[i] = f[i]}
  <2>7. \A i \in 1..n : i - 1 \in same => i \in same
    BY <1>1, <2>2, <2>6
  <2>8. \A i \in 0..n : i \in same
    <3>1. 0 \in same
      BY <1>1
    <3> HIDE DEF same
    <3> QED BY <1>1, <2>7, <3>1, UpTo
  <2> QED BY <1>1, <1>3, <2>1, <2>8 DEF n
<1> QED BY <1>1, <1>2, <1>3

LEMMA FlattenExists ==
    ASSUME NEW S, NEW ss \in Seq(Seq(S))
    PROVE  \E f : Flattens(f, ss, S)
<1> DEFINE n == Len(ss)
           Part(f, m) == /\ f \in [0..m -> Seq(S)] /\ f[0] = <<>>
                         /\ \A i \in 1..m : f[i] = f[i - 1] \o ss[i]
           done == {m \in 0..n : \E f : Part(f, m)}
<1>1. n \in Nat /\ \A i \in 1..n : ss[i] \in Seq(S)
  OBVIOUS
<1>2. 0 \in done
  <2>1. Part([i \in 0..0 |-> <<>>], 0)
    OBVIOUS
  <2> HIDE DEF Part
  <2> QED BY <1>1, <2>1
<1>3. ASSUME NEW m \in 1..n, NEW f, Part(f, m - 1) PROVE \E g : Part(g, m)
  <2> DEFINE last == f[m - 1] \o ss[m]
             g == [i \in 0..m |-> IF i = m THEN last ELSE f[i]]
  <2>1. last \in Seq(S)
    <3>1. f[m - 1] \in Seq(S) /\ ss[m] \in Seq(S)
      BY <1>1, <1>3
    <3> QED BY <3>1
  <2> HIDE DEF last
  <2>2. \A i \in 0..m : i # m => f[i] \in Seq(S)
    BY <1>3
  <2>3. g \in [0..m -> Seq(S)]
    BY <2>1, <2>2
  <2>4. g[0] = <<>>
    BY <1>3
  <2>5. \A i \in 1..m : g[i] = g[i - 1] \o ss[i]
    <3>1. \A i \in 1..m : g[i - 1] = f[i - 1]
      OBVIOUS
    <3>2. g[m] = last
      OBVIOUS
    <3>3. \A i \in 1..(m - 1) : g[i] = f[i]
      OBVIOUS
    <3>4. \A i \in 1..(m - 1) : f[i] = f[i - 1] \o ss[i]
      BY <1>3
    <3>5. \A i \in 1..m : i = m \/ i \in 1..(m - 1)
      OBVIOUS
    <3> HIDE DEF g
    <3> QED BY <3>1, <3>2, <3>3, <3>4, <3>5 DEF last
  <2> QED BY <2>3, <2>4, <2>5
<1> HIDE DEF Part
<1>4. \A m \in 1..n : m - 1 \in done => m \in done
  BY <1>1, <1>3
<1>5. n \in done
  <2> HIDE DEF done, n
  <2>1. \A m \in 0..n : m \in done
    BY <1>1, <1>2, <1>4, UpTo
  <2> QED BY <1>1, <2>1
<1> QED BY <1>5 DEF Part, Flattens

\* The rest of this section is what FlattenSeq does, without its definition.
LEMMA FlattenFacts ==
    ASSUME NEW S, NEW ss \in Seq(Seq(S)), NEW f, Flattens(f, ss, S)
    PROVE  /\ \A i \in 0..Len(ss) : f[i] \in Seq(S)
           /\ \A i \in 1..Len(ss) : f[i - 1] \in Seq(S) /\ ss[i] \in Seq(S) /\ f[i] = f[i - 1] \o ss[i]
           /\ f[0] = <<>> /\ Len(ss) \in Nat /\ FlattenSeq(ss) = f[Len(ss)]
<1>1. FlattenSeq(ss) = f[Len(ss)]
  BY FlattenBy
<1>2. Len(ss) \in Nat /\ \A i \in 1..Len(ss) : ss[i] \in Seq(S) /\ i - 1 \in 0..Len(ss)
  OBVIOUS
<1> QED BY <1>1, <1>2 DEF Flattens

LEMMA FlattenType ==
    ASSUME NEW S, NEW ss \in Seq(Seq(S))
    PROVE  FlattenSeq(ss) \in Seq(S)
<1>1. PICK f : Flattens(f, ss, S)
  BY FlattenExists
<1>2. /\ FlattenSeq(ss) = f[Len(ss)] /\ Len(ss) \in Nat
      /\ \A i \in 0..Len(ss) : f[i] \in Seq(S)
  BY <1>1, FlattenFacts
<1>3. Len(ss) \in 0..Len(ss)
  BY <1>2
<1> QED BY <1>2, <1>3

LEMMA FlattenOne ==
    ASSUME NEW S, NEW s \in Seq(S)
    PROVE  FlattenSeq(<<s>>) = s
<1> DEFINE f == [i \in 0..1 |-> IF i = 0 THEN <<>> ELSE s]
           ss == <<s>>
<1>1. ss \in Seq(Seq(S)) /\ Len(ss) = 1 /\ ss[1] = s
  OBVIOUS
<1>2. <<>> \o s = s
  BY ConcatEmptySeq
<1> HIDE DEF ss
<1>3. f \in [0..1 -> Seq(S)] /\ f[0] = <<>> /\ f[1] = s
  OBVIOUS
<1>4. Flattens(f, ss, S)
  <2> HIDE DEF f
  <2>1. \A i \in 1..1 : i = 1 /\ i - 1 = 0
    OBVIOUS
  <2> QED BY <1>1, <1>2, <1>3, <2>1 DEF Flattens
<1>5. FlattenSeq(ss) = f[1]
  <2> HIDE DEF f
  <2> QED BY <1>1, <1>4, FlattenBy
<1> QED BY <1>3, <1>5 DEF ss

LEMMA FlattenConcat ==
    ASSUME NEW S, NEW ss \in Seq(Seq(S)), NEW tt \in Seq(Seq(S))
    PROVE  FlattenSeq(ss \o tt) = FlattenSeq(ss) \o FlattenSeq(tt)
<1>1. PICK f : Flattens(f, ss, S)
  BY FlattenExists
<1>2. PICK g : Flattens(g, tt, S)
  BY FlattenExists
<1> DEFINE n == Len(ss)
           m == Len(tt)
           all == ss \o tt
           join(i) == f[n] \o g[i - n]
           h == [i \in 0..(n + m) |-> IF i <= n THEN f[i] ELSE join(i)]
<1>3. /\ n \in Nat /\ f[0] = <<>> /\ FlattenSeq(ss) = f[n]
      /\ \A i \in 0..n : f[i] \in Seq(S)
      /\ \A i \in 1..n : ss[i] \in Seq(S) /\ f[i] = f[i - 1] \o ss[i]
  BY <1>1, FlattenFacts
<1>4. /\ m \in Nat /\ g[0] = <<>> /\ FlattenSeq(tt) = g[m]
      /\ \A i \in 0..m : g[i] \in Seq(S)
      /\ \A i \in 1..m : tt[i] \in Seq(S) /\ g[i] = g[i - 1] \o tt[i]
  BY <1>2, FlattenFacts
<1>5. /\ all \in Seq(Seq(S)) /\ Len(all) = n + m
      /\ \A i \in 1..n : all[i] = ss[i]
      /\ \A i \in (n + 1)..(n + m) : all[i] = tt[i - n]
  BY ConcatProperties
<1> HIDE DEF n, m, all
<1>6. \A i \in n..(n + m) : i - n \in 0..m /\ join(i) \in Seq(S)
  BY <1>3, <1>4
<1>7. join(n) = f[n]
  <2>1. n - n = 0 /\ f[n] \in Seq(S)
    BY <1>3
  <2> QED BY <1>4, <2>1, ConcatEmptySeq
<1>8. \A i \in (n + 1)..(n + m) : join(i) = join(i - 1) \o all[i]
  <2> TAKE i \in (n + 1)..(n + m)
  <2>1. i - n \in 1..m /\ (i - 1) - n = (i - n) - 1 /\ (i - 1) - n \in 0..m
    BY <1>3, <1>4
  <2>2. g[i - n] = g[(i - 1) - n] \o tt[i - n] /\ all[i] = tt[i - n]
    BY <1>4, <1>5, <2>1
  <2>3. f[n] \in Seq(S) /\ g[(i - 1) - n] \in Seq(S) /\ tt[i - n] \in Seq(S)
    <3>1. n \in 0..n
      BY <1>3
    <3> QED BY <1>3, <1>4, <2>1, <3>1
  <2>4. f[n] \o (g[(i - 1) - n] \o tt[i - n]) = (f[n] \o g[(i - 1) - n]) \o tt[i - n]
    <3> DEFINE a == f[n]
               b == g[(i - 1) - n]
               c == tt[i - n]
    <3>1. a \in Seq(S) /\ b \in Seq(S) /\ c \in Seq(S)
      BY <2>3
    <3> HIDE DEF a, b, c
    <3>2. (a \o b) \o c = a \o (b \o c)
      BY <3>1, ConcatAssociative
    <3> QED BY <3>2 DEF a, b, c
  <2> QED BY <2>2, <2>4
<1> HIDE DEF join
<1>9. Flattens(h, all, S)
  <2>1. h \in [0..(n + m) -> Seq(S)]
    <3>1. \A i \in 0..(n + m) : (i <= n => i \in 0..n) /\ (~(i <= n) => i \in n..(n + m))
      BY <1>3, <1>4
    <3> QED BY <1>3, <1>6, <3>1
  <2>2. h[0] = <<>>
    BY <1>3, <1>4
  <2>3. ASSUME NEW i \in 1..(n + m) PROVE h[i] = h[i - 1] \o all[i]
    <3>1. CASE i <= n
      <4>1. i \in 1..n /\ h[i] = f[i] /\ h[i - 1] = f[i - 1]
        BY <1>3, <1>4, <3>1
      <4> QED BY <1>3, <1>5, <4>1
    <3>2. CASE ~(i <= n)
      <4>1. i \in (n + 1)..(n + m) /\ h[i] = join(i)
        BY <1>3, <1>4, <3>2
      <4>2. h[i - 1] = join(i - 1)
        <5>1. CASE i = n + 1
          <6>1. h[n] = f[n] /\ i - 1 = n
            BY <1>3, <1>4, <5>1
          <6> QED BY <1>7, <6>1
        <5>2. CASE i # n + 1
          BY <1>3, <1>4, <3>2, <5>2
        <5> QED BY <5>1, <5>2
      <4> QED BY <1>8, <4>1, <4>2
    <3> QED BY <3>1, <3>2
  <2> HIDE DEF h
  <2> QED BY <1>5, <2>1, <2>2, <2>3 DEF Flattens
<1>10. h[n + m] = join(n + m)
  <2>1. n + m \in 0..(n + m) /\ (n + m <= n => n + m = n)
    BY <1>3, <1>4
  <2> QED BY <1>7, <2>1
<1>11. FlattenSeq(all) = h[n + m]
  <2> HIDE DEF h
  <2> QED BY <1>5, <1>9, FlattenBy
<1>12. join(n + m) = f[n] \o g[m]
  <2>1. (n + m) - n = m
    BY <1>3, <1>4
  <2> QED BY <2>1 DEF join
<1> HIDE DEF h
<1> QED BY <1>3, <1>4, <1>10, <1>11, <1>12 DEF all

\* What is in the sequences is in the flat one, and nothing else.
LEMMA FlattenRange ==
    ASSUME NEW S, NEW ss \in Seq(Seq(S)), NEW x
    PROVE  x \in Range(FlattenSeq(ss)) <=> \E i \in DOMAIN ss : x \in Range(ss[i])
<1>1. PICK f : Flattens(f, ss, S)
  BY FlattenExists
<1> DEFINE n == Len(ss)
           has == {m \in 0..n : x \in Range(f[m]) <=> \E i \in 1..m : x \in Range(ss[i])}
<1>2. /\ n \in Nat /\ f[0] = <<>> /\ FlattenSeq(ss) = f[n] /\ DOMAIN ss = 1..n
      /\ \A i \in 1..n : f[i - 1] \in Seq(S) /\ ss[i] \in Seq(S) /\ f[i] = f[i - 1] \o ss[i]
  <2>1. DOMAIN ss = 1..n
    OBVIOUS
  <2> QED BY <1>1, <2>1, FlattenFacts
<1> HIDE DEF n
<1>3. 0 \in has
  <2>1. Range(f[0]) = {}
    BY <1>2 DEF Range
  <2> QED BY <1>2, <2>1
<1>4. ASSUME NEW s \in Seq(S), NEW t \in Seq(S)
      PROVE  x \in Range(s \o t) <=> x \in Range(s) \/ x \in Range(t)
  <2> DEFINE u == s \o t
  <2>1. /\ u \in Seq(S) /\ Len(u) = Len(s) + Len(t) /\ Len(s) \in Nat /\ Len(t) \in Nat
        /\ \A i \in 1..Len(s) : u[i] = s[i]
        /\ \A i \in (Len(s) + 1)..Len(u) : u[i] = t[i - Len(s)]
    BY ConcatProperties
  <2>2. /\ DOMAIN u = 1..Len(u) /\ DOMAIN s = 1..Len(s) /\ DOMAIN t = 1..Len(t)
    BY <2>1
  <2> HIDE DEF u
  <2>3. \A i \in 1..Len(s) : i \in 1..Len(u)
    BY <2>1
  <2>4. \A i \in 1..Len(t) : /\ i + Len(s) \in (Len(s) + 1)..Len(u) /\ i + Len(s) \in 1..Len(u)
                             /\ (i + Len(s)) - Len(s) = i
    BY <2>1
  <2>5. \A i \in 1..Len(u) : \/ i \in 1..Len(s)
                             \/ i \in (Len(s) + 1)..Len(u) /\ i - Len(s) \in 1..Len(t)
    BY <2>1
  <2>6. ASSUME x \in Range(s) PROVE x \in Range(u)
    BY <2>1, <2>2, <2>3, <2>6 DEF Range
  <2>7. ASSUME x \in Range(t) PROVE x \in Range(u)
    <3>1. PICK i \in 1..Len(t) : x = t[i]
      BY <2>2, <2>7 DEF Range
    <3>2. x = u[i + Len(s)] /\ i + Len(s) \in 1..Len(u)
      BY <2>1, <2>4, <3>1
    <3> QED BY <2>2, <3>2 DEF Range
  <2>8. ASSUME x \in Range(u) PROVE x \in Range(s) \/ x \in Range(t)
    <3>1. PICK i \in 1..Len(u) : x = u[i]
      BY <2>2, <2>8 DEF Range
    <3> QED BY <2>1, <2>2, <2>5, <3>1 DEF Range
  <2> QED BY <2>6, <2>7, <2>8 DEF u
<1>5. ASSUME NEW m \in 1..n, m - 1 \in has PROVE m \in has
  <2>1. x \in Range(f[m]) <=> x \in Range(f[m - 1]) \/ x \in Range(ss[m])
    <3>1. f[m - 1] \in Seq(S) /\ ss[m] \in Seq(S) /\ f[m] = f[m - 1] \o ss[m]
      BY <1>2
    <3>2. x \in Range(f[m - 1] \o ss[m]) <=> x \in Range(f[m - 1]) \/ x \in Range(ss[m])
      BY <1>4, <3>1
    <3> QED BY <3>1, <3>2
  <2>2. \A i : i \in 1..m <=> i \in 1..(m - 1) \/ i = m
    <3>1. m \in Nat /\ m # 0
      BY <1>2
    <3> QED BY <3>1
  <2>3. x \in Range(f[m - 1]) <=> \E i \in 1..(m - 1) : x \in Range(ss[i])
    BY <1>5
  <2>4. m \in 0..n
    BY <1>2
  <2> QED BY <2>1, <2>2, <2>3, <2>4
<1>6. n \in has
  <2> HIDE DEF has
  <2>1. \A m \in 0..n : m \in has
    BY <1>2, <1>3, <1>5, UpTo
  <2> QED BY <1>2, <2>1
<1> QED BY <1>2, <1>6

\* Flattening what flattens to the lines flattens to what the lines do.
LEMMA FlattenNested ==
    ASSUME NEW S, NEW parts \in Seq(Seq(Seq(S))), NEW lines \in Seq(Seq(S)),
           Len(parts) = Len(lines),
           \A i \in 1..Len(lines) : FlattenSeq(parts[i]) = lines[i]
    PROVE  FlattenSeq(FlattenSeq(parts)) = FlattenSeq(lines)
<1>1. PICK f : Flattens(f, parts, Seq(S))
  BY FlattenExists
<1>2. PICK g : Flattens(g, lines, S)
  BY FlattenExists
<1> DEFINE n == Len(lines)
           same == {m \in 0..n : FlattenSeq(f[m]) = g[m]}
<1>3. /\ n \in Nat /\ f[0] = <<>> /\ FlattenSeq(parts) = f[n]
      /\ \A i \in 1..n : /\ f[i - 1] \in Seq(Seq(S)) /\ parts[i] \in Seq(Seq(S))
                         /\ f[i] = f[i - 1] \o parts[i]
  <2> DEFINE T == Seq(S)
  <2>0. parts \in Seq(Seq(T)) /\ Flattens(f, parts, T)
    BY <1>1
  <2> HIDE DEF T
  <2>1. \A i \in 1..Len(parts) :
          f[i - 1] \in Seq(T) /\ parts[i] \in Seq(T) /\ f[i] = f[i - 1] \o parts[i]
    BY <2>0, FlattenFacts
  <2>2. f[0] = <<>> /\ Len(parts) \in Nat /\ FlattenSeq(parts) = f[Len(parts)]
    BY <2>0, FlattenFacts
  <2> QED BY <2>1, <2>2 DEF T
<1>4. /\ g[0] = <<>> /\ FlattenSeq(lines) = g[n]
      /\ \A i \in 1..n : g[i] = g[i - 1] \o lines[i]
  BY <1>2, FlattenFacts
<1>5. \A i \in 1..n : FlattenSeq(parts[i]) = lines[i]
  OBVIOUS
<1> HIDE DEF n
<1>6. 0 \in same
  <2>1. FlattenSeq(<<>>) = <<>>
    BY DEF FlattenSeq
  <2> QED BY <1>3, <1>4, <2>1
<1>7. ASSUME NEW m \in 1..n, m - 1 \in same PROVE m \in same
  <2>1. FlattenSeq(f[m]) = FlattenSeq(f[m - 1]) \o FlattenSeq(parts[m])
    BY <1>3, FlattenConcat
  <2>2. FlattenSeq(f[m - 1]) = g[m - 1]
    BY <1>7
  <2>3. m \in 0..n
    BY <1>3
  <2>4. FlattenSeq(f[m]) = g[m]
    BY <1>4, <1>5, <2>1, <2>2
  <2> QED BY <2>3, <2>4
<1>8. n \in same
  <2> HIDE DEF same
  <2>1. \A m \in 0..n : m \in same
    BY <1>3, <1>6, <1>7, UpTo
  <2> QED BY <1>3, <2>1
<1> QED BY <1>3, <1>4, <1>8
==============================================================================
