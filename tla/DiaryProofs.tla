----------------------------- MODULE DiaryProofs -----------------------------
(***************************************************************************)
(* The catalogues for any vocabulary and titles and texts of any length.   *)
(*                                                                         *)
(* The text is lines of tokens (Shape), which is all the invariant needed. *)
(* The rest is about the functions: the splitter cuts a line at its ends   *)
(* and flattening the pieces gives the line back (PiecesFlatten), a phrase *)
(* has no end of a sentence inside, so that what matches in a line matches *)
(* in one of its pieces (MatchOfPiece), and so the findings of a text are  *)
(* those of its lines (FindingsAreOfLines), whatever its sentences are.    *)
(***************************************************************************)
EXTENDS Diary, DataLemmas

------------------------------------------------------------------------------
(* The elements of a set in their order.                                     *)

LEMMA InOrderFacts ==
    ASSUME NEW S \in SUBSET Int, IsFiniteSet(S)
    PROVE  /\ Cardinality(S) \in Nat
           /\ DOMAIN InOrder(S) = 1..Cardinality(S)
           /\ \A p \in 1..Cardinality(S) : InOrder(S)[p] \in S
           /\ \A e \in S : \E p \in 1..Cardinality(S) : InOrder(S)[p] = e
           /\ \A p, q \in 1..Cardinality(S) : p < q => InOrder(S)[p] < InOrder(S)[q]
<1> DEFINE n == Cardinality(S)
           upto(e) == {d \in S : d <= e}
           rank == [e \in S |-> Cardinality(upto(e))]
           at(p) == CHOOSE e \in S : Cardinality(upto(e)) = p
<1>1. n \in Nat
  BY FS_CardinalityType
<1>2. \A e \in S : upto(e) \in SUBSET S /\ e \in upto(e)
  OBVIOUS
<1>3. \A e \in S : IsFiniteSet(upto(e)) /\ Cardinality(upto(e)) <= n
  <2> HIDE DEF upto
  <2> QED BY <1>2, FS_Subset
<1>4. \A e \in S : Cardinality(upto(e)) \in Nat /\ Cardinality(upto(e)) # 0
  <2> HIDE DEF upto
  <2>1. \A e \in S : Cardinality(upto(e)) \in Nat
    BY <1>3, FS_CardinalityType
  <2>2. \A e \in S : upto(e) # {}
    BY <1>2
  <2> QED BY <1>3, <2>1, <2>2, FS_EmptySet
<1>5. \A e, f \in S : e < f => rank[e] < rank[f]
  <2> SUFFICES ASSUME NEW e \in S, NEW f \in S, e < f PROVE rank[e] < rank[f]
    OBVIOUS
  <2>1. e \in Int /\ f \in Int
    OBVIOUS
  <2>2. upto(e) \in SUBSET upto(f) /\ f \in upto(f) /\ f \notin upto(e)
    <3>1. e < f /\ ~(f <= e) /\ f <= f
      BY <2>1
    <3>2. \A d \in S : d <= e => d <= f
      BY <2>1
    <3> QED BY <3>1, <3>2
  <2> HIDE DEF upto
  <2>3. /\ Cardinality(upto(e)) <= Cardinality(upto(f))
        /\ Cardinality(upto(f)) = Cardinality(upto(e)) => upto(f) = upto(e)
    BY <1>3, <2>2, FS_Subset
  <2> QED BY <1>4, <2>2, <2>3
<1>6. rank \in [S -> 1..n]
  <2> HIDE DEF upto
  <2> QED BY <1>1, <1>3, <1>4
<1>7. \A e \in S : rank[e] = Cardinality(upto(e))
  OBVIOUS
<1>8. \A p : at(p) = CHOOSE e \in S : rank[e] = p
  OBVIOUS
<1>9. \A p \in 1..n : InOrder(S)[p] = at(p)
  BY DEF InOrder
<1>10. DOMAIN InOrder(S) = 1..n
  BY DEF InOrder
<1> HIDE DEF rank, at, upto
<1>11. \A e, f \in S : rank[e] = rank[f] => e = f
  <2> SUFFICES ASSUME NEW e \in S, NEW f \in S, rank[e] = rank[f] PROVE e = f
    OBVIOUS
  <2>1. rank[e] \in Int /\ rank[f] \in Int /\ e \in Int /\ f \in Int
    BY <1>1, <1>6
  <2> QED BY <1>5, <2>1
<1>12. rank \in Surjection(S, 1..n)
  <2>1. rank \in Injection(S, 1..n)
    BY <1>6, <1>11 DEF Injection, IsInjective
  <2>2. IsFiniteSet(1..n) /\ Cardinality(1..n) = n
    <3> HIDE DEF n
    <3>1. IsFiniteSet(1..n) /\ Cardinality(1..n) = IF 1 > n THEN 0 ELSE n - 1 + 1
      BY <1>1, FS_Interval
    <3> QED BY <1>1, <3>1
  <2> DEFINE T == 1..n
  <2> HIDE DEF T
  <2>3. Cardinality(S) = Cardinality(T) <=> rank \in Surjection(S, T)
    BY <2>1, <2>2, FS_Injection DEF T
  <2> QED BY <2>2, <2>3 DEF T
<1>13. \A p \in 1..n : at(p) \in S /\ rank[at(p)] = p
  <2>1. \A p \in 1..n : \E e \in S : rank[e] = p
    BY <1>12 DEF Surjection
  <2> QED BY <1>8, <2>1
<1>14. \A e \in S : rank[e] \in 1..n /\ at(rank[e]) = e
  BY <1>6, <1>11, <1>13
<1>15. \A p, q \in 1..n : p < q => at(p) < at(q)
  <2> SUFFICES ASSUME NEW p \in 1..n, NEW q \in 1..n, p < q PROVE at(p) < at(q)
    OBVIOUS
  <2>1. at(p) \in Int /\ at(q) \in Int /\ at(p) \in S /\ at(q) \in S
    BY <1>13
  <2>2. rank[at(p)] = p /\ rank[at(q)] = q
    BY <1>13
  <2> QED BY <1>1, <1>5, <2>1, <2>2
<1> QED BY <1>1, <1>9, <1>10, <1>13, <1>14, <1>15
------------------------------------------------------------------------------
(* What a catalogue finds.                                                   *)

\* A phrase has words, and no end of a sentence between them.
Proper(phrase) ==
    /\ Len(phrase.words) \in Nat \ {0}
    /\ DOMAIN phrase.words = 1..Len(phrase.words)
    /\ "stop" \notin phrase.between

Catalogue(rules) ==
    /\ DOMAIN rules \in SUBSET Int /\ IsFiniteSet(DOMAIN rules)
    /\ \A r \in DOMAIN rules : \A phrase \in rules[r].phrases : Proper(phrase)

LEMMA BucketsAreOfRules ==
    ASSUME NEW rules, DOMAIN rules \in SUBSET Int, IsFiniteSet(DOMAIN rules), NEW s, NEW x
    PROVE  x \in Range(Buckets(rules, s)) <=>
             \E r \in DOMAIN rules : Fires(rules[r], s) /\ rules[r].bucket = x
<1> DEFINE hit == {r \in DOMAIN rules : Fires(rules[r], s)}
           n == Cardinality(hit)
           hits == InOrder(hit)
<1>1. hit \in SUBSET DOMAIN rules
  OBVIOUS
<1>2. hit \in SUBSET Int /\ IsFiniteSet(hit)
  <2> HIDE DEF hit
  <2> QED BY <1>1, FS_Subset
<1>3. Buckets(rules, s) = [h \in DOMAIN hits |-> rules[hits[h]].bucket]
  BY DEF Buckets
<1>4. /\ DOMAIN hits = 1..n /\ \A p \in 1..n : hits[p] \in hit
      /\ \A e \in hit : \E p \in 1..n : hits[p] = e
  <2> HIDE DEF hit
  <2> QED BY <1>2, InOrderFacts
<1>5. \A r : r \in hit <=> r \in DOMAIN rules /\ Fires(rules[r], s)
  OBVIOUS
<1> HIDE DEF hit, hits, n
<1>6. x \in Range(Buckets(rules, s)) <=> \E p \in 1..n : rules[hits[p]].bucket = x
  BY <1>3, <1>4 DEF Range
<1> QED BY <1>4, <1>5, <1>6

\* A sentence that is part of a line: from its token o + 1 on.
Within(s, t, o) ==
    /\ o \in Nat /\ o + Len(s) <= Len(t)
    /\ \A k \in 1..Len(s) : t[o + k] = s[k]

\* A phrase that matches in a part matches in the whole.
LEMMA PartMatches ==
    ASSUME NEW phrase, Proper(phrase), NEW s, NEW t, Len(s) \in Nat, Len(t) \in Nat,
           NEW o, Within(s, t, o), Matches(phrase, s)
    PROVE  Matches(phrase, t)
<1> DEFINE n == Len(phrase.words)
<1>1. n \in Nat /\ DOMAIN phrase.words = 1..n
  BY DEF Proper
<1>2. o \in Nat /\ o + Len(s) <= Len(t) /\ \A k \in 1..Len(s) : t[o + k] = s[k]
  BY DEF Within
<1>3. PICK i \in 0..(Len(s) - n) : \A k \in 1..n :
          /\ s[i + k].form \in phrase.words[k]
          /\ k < n => s[i + k].mark \in phrase.between
  BY <1>1 DEF Matches
<1> HIDE DEF n
<1>4. o + i \in 0..(Len(t) - n)
  BY <1>1, <1>2, <1>3
<1>5. \A k \in 1..n : t[(o + i) + k] = s[i + k]
  <2> TAKE k \in 1..n
  <2>1. i + k \in 1..Len(s) /\ (o + i) + k = o + (i + k)
    BY <1>1, <1>2, <1>3
  <2> QED BY <1>2, <2>1
<1>6. \A k \in 1..n :
          /\ t[(o + i) + k].form \in phrase.words[k]
          /\ k < n => t[(o + i) + k].mark \in phrase.between
  BY <1>3, <1>5
<1> QED BY <1>1, <1>4, <1>6 DEF Matches, n

LEMMA PartFires ==
    ASSUME NEW rule, \A phrase \in rule.phrases : Proper(phrase),
           NEW s, NEW t, Len(s) \in Nat, Len(t) \in Nat, NEW o, Within(s, t, o), Fires(rule, s)
    PROVE  Fires(rule, t)
BY PartMatches DEF Fires

\* All phrases of the catalogues are proper.
LEMMA ProperPhrases ==
    /\ \A forms : \A phrase \in Stem(forms) : Proper(phrase)
    /\ \A a, b : Proper(Loose(<<a, b>>)) /\ Proper(Tight(<<a, b>>))
    /\ \A a, b, c : Proper(Loose(<<a, b, c>>))
<1>1. \A words : Loose(words).words = words /\ Tight(words).words = words
  BY DEF Loose, Tight
<1>2. \A words : "stop" \notin Loose(words).between /\ "stop" \notin Tight(words).between
  <2>1. "stop" # "" /\ "stop" # "gap"
    OBVIOUS
  <2>2. \A words : Loose(words).between = {"", "gap"} /\ Tight(words).between = {""}
    BY DEF Loose, Tight
  <2> QED BY <2>1, <2>2, Zenon
<1>3. /\ \A a : Len(<<a>>) = 1 /\ DOMAIN <<a>> = 1..1
      /\ \A a, b : Len(<<a, b>>) = 2 /\ DOMAIN <<a, b>> = 1..2
      /\ \A a, b, c : Len(<<a, b, c>>) = 3 /\ DOMAIN <<a, b, c>> = 1..3
  OBVIOUS
<1>4. \A words : Len(words) \in {1, 2, 3} /\ DOMAIN words = 1..Len(words)
                   => Proper(Loose(words)) /\ Proper(Tight(words))
  BY <1>1, <1>2 DEF Proper
<1>5. \A forms : Stem(forms) = {Loose(<<forms>>)}
  BY DEF Stem
<1> QED BY <1>3, <1>4, <1>5
LEMMA RuleFields ==
    \A bucket, phrases : Rule(bucket, phrases).bucket = bucket /\ Rule(bucket, phrases).phrases = phrases
BY DEF Rule

LEMMA RuleNumbers == \A n \in Nat : 1..n \in SUBSET Int /\ IsFiniteSet(1..n)
<1>1. \A n \in Nat : IsFiniteSet(1..n)
  BY FS_Interval
<1> QED BY <1>1

LEMMA LegacyCatalogue == Catalogue(RULES)
<1>1. DOMAIN RULES = 1..9
  <2>1. \A a, b, c, d, e, f, g, h, i : DOMAIN <<a, b, c, d, e, f, g, h, i>> = 1..9
    OBVIOUS
  <2> QED BY <2>1 DEF RULES
<1>2. 1..9 \in SUBSET Int /\ IsFiniteSet(1..9)
  BY RuleNumbers
<1>3. \A forms, p : p \in Stem(forms) => Proper(p)
  BY ProperPhrases
<1>4. /\ \A p \in RULES[1].phrases : Proper(p)
      /\ \A p \in RULES[2].phrases : Proper(p)
      /\ \A p \in RULES[3].phrases : Proper(p)
  <2>1. \A p \in RULES[1].phrases : Proper(p)
    BY <1>3, RuleFields DEF RULES
  <2>2. \A p \in RULES[2].phrases : Proper(p)
    BY <1>3, RuleFields DEF RULES
  <2>3. \A p \in RULES[3].phrases : Proper(p)
    <3>1. \A a, b, c, d, e, f, g, h, i : <<a, b, c, d, e, f, g, h, i>>[3] = c
      OBVIOUS
    <3>2. RULES[3] = Rule("todos.open", Stem({"yapacagim", "halletmedim", "[ ]", "[]"}))
      BY <3>1, Zenon DEF RULES
    <3>3. PICK forms : RULES[3] = Rule("todos.open", Stem(forms))
      BY <3>2, Zenon
    <3> QED BY <1>3, <3>3, RuleFields
  <2> QED BY <2>1, <2>2, <2>3
<1>5. /\ \A p \in RULES[4].phrases : Proper(p)
      /\ \A p \in RULES[7].phrases : Proper(p)
      /\ \A p \in RULES[8].phrases : Proper(p)
  <2>1. Proper(Becoming) /\ Proper(Tight(<<{"hata"}, {"yaptim"}>>))
            /\ Proper(Tight(<<{"ilk"}, {"kez"}>>))
    BY ProperPhrases DEF Becoming
  <2> QED BY <1>3, <2>1, RuleFields DEF RULES
<1>6. /\ \A p \in RULES[5].phrases : Proper(p)
      /\ \A p \in RULES[6].phrases : Proper(p)
      /\ \A p \in RULES[9].phrases : Proper(p)
  BY <1>3, RuleFields DEF RULES
<1>7. \A r \in 1..9 : r \in {1, 2, 3, 4, 5, 6, 7, 8, 9}
  OBVIOUS
<1>8. \A r \in 1..9 : \A p \in RULES[r].phrases : Proper(p)
  BY <1>4, <1>5, <1>6, <1>7
<1> QED BY <1>1, <1>2, <1>8 DEF Catalogue

\* The rules of high confidence, one after the other.
LEMMA HighRules ==
    /\ DOMAIN (HIGH_CONCERN_RULES \o HIGH_SUCCESS_RULES) = 1..6
    /\ \A r \in 1..3 : /\ (HIGH_CONCERN_RULES \o HIGH_SUCCESS_RULES)[r] = HIGH_CONCERN_RULES[r]
                       /\ (HIGH_CONCERN_RULES \o HIGH_SUCCESS_RULES)[r + 3] = HIGH_SUCCESS_RULES[r]
<1>1. \A a, b, c, d, e, f :
         LET all == <<a, b, c>> \o <<d, e, f>>
         IN  DOMAIN all = 1..6 /\ \A r \in 1..3 : all[r] = <<a, b, c>>[r] /\ all[r + 3] = <<d, e, f>>[r]
  <2> TAKE a, b, c, d, e, f
  <2> DEFINE T == {a, b, c, d, e, f}
             s == <<a, b, c>>
             t == <<d, e, f>>
             all == s \o t
  <2>1. s \in Seq(T) /\ t \in Seq(T) /\ Len(s) = 3 /\ Len(t) = 3
    OBVIOUS
  <2> HIDE DEF s, t, T
  <2>2. /\ all \in Seq(T) /\ Len(all) = Len(s) + Len(t)
        /\ \A i \in 1..(Len(s) + Len(t)) : all[i] = IF i <= Len(s) THEN s[i] ELSE t[i - Len(s)]
    BY <2>1, ConcatProperties
  <2> HIDE DEF all
  <2>3. DOMAIN all = 1..6 /\ \A r \in 1..3 : all[r] = s[r] /\ all[r + 3] = t[r]
    BY <2>1, <2>2
  <2> QED BY <2>3 DEF all, s, t
<1> QED BY <1>1 DEF HIGH_CONCERN_RULES, HIGH_SUCCESS_RULES

LEMMA HighCatalogue == Catalogue(HIGH_CONCERN_RULES \o HIGH_SUCCESS_RULES)
<1> DEFINE all == HIGH_CONCERN_RULES \o HIGH_SUCCESS_RULES
<1>1. 1..6 \in SUBSET Int /\ IsFiniteSet(1..6)
  BY RuleNumbers
<1>2. \A forms, p : p \in Stem(forms) => Proper(p)
  BY ProperPhrases
<1>3. /\ Proper(Loose(<<{"hata"}, {"yaptim"}>>)) /\ Proper(Loose(<<{"sonunda"}, Past>>))
      /\ Proper(Loose(<<{"ilk"}, {"kez"}, Past>>))
  BY ProperPhrases
<1>4. /\ \A p \in HIGH_CONCERN_RULES[1].phrases : Proper(p)
      /\ \A p \in HIGH_CONCERN_RULES[2].phrases : Proper(p)
      /\ \A p \in HIGH_CONCERN_RULES[3].phrases : Proper(p)
  <2>1. \A a, b, c : <<a, b, c>>[1] = a /\ <<a, b, c>>[2] = b /\ <<a, b, c>>[3] = c
    OBVIOUS
  <2>2. PICK forms, other : HIGH_CONCERN_RULES[1] = Rule("concerns.failures", Stem(forms) \cup other)
                            /\ other = {Loose(<<{"hata"}, {"yaptim"}>>)}
    BY <2>1, Zenon DEF HIGH_CONCERN_RULES
  <2>3. PICK fears : HIGH_CONCERN_RULES[2] = Rule("concerns.fears", Stem(fears))
    BY <2>1, Zenon DEF HIGH_CONCERN_RULES
  <2>4. PICK anxieties : HIGH_CONCERN_RULES[3] = Rule("concerns.anxieties", Stem(anxieties))
    BY <2>1, Zenon DEF HIGH_CONCERN_RULES
  <2> QED BY <1>2, <1>3, <2>2, <2>3, <2>4, RuleFields
<1>5. /\ \A p \in HIGH_SUCCESS_RULES[1].phrases : Proper(p)
      /\ \A p \in HIGH_SUCCESS_RULES[2].phrases : Proper(p)
      /\ \A p \in HIGH_SUCCESS_RULES[3].phrases : Proper(p)
  <2>1. \A a, b, c : <<a, b, c>>[1] = a /\ <<a, b, c>>[2] = b /\ <<a, b, c>>[3] = c
    OBVIOUS
  <2>2. PICK forms : HIGH_SUCCESS_RULES[1] = Rule("successes.achievements", Stem(forms))
    BY <2>1, Zenon DEF HIGH_SUCCESS_RULES
  <2>3. PICK both : /\ HIGH_SUCCESS_RULES[2] = Rule("successes.milestones", both)
                    /\ both = {Loose(<<{"ilk"}, {"kez"}, Past>>), Loose(<<{"sonunda"}, Past>>)}
    BY <2>1, Zenon DEF HIGH_SUCCESS_RULES
  <2>4. PICK joys : HIGH_SUCCESS_RULES[3] = Rule("successes.positive_moments", Stem(joys))
    BY <2>1, Zenon DEF HIGH_SUCCESS_RULES
  <2>5. \A p \in HIGH_SUCCESS_RULES[1].phrases : Proper(p)
    BY <1>2, <2>2, RuleFields
  <2>6. \A p \in HIGH_SUCCESS_RULES[2].phrases : Proper(p)
    <3>0. \A x, b, phrases : x = Rule(b, phrases) => x.phrases = phrases
      BY RuleFields
    <3>1. HIGH_SUCCESS_RULES[2].phrases = both
      <4>1. HIGH_SUCCESS_RULES[2] = Rule("successes.milestones", both)
        BY <2>3
      <4> QED BY <3>0, <4>1
    <3>2. \A a, b : both = {a, b} /\ Proper(a) /\ Proper(b) => \A p \in both : Proper(p)
      OBVIOUS
    <3> QED BY <1>3, <2>3, <3>1, <3>2, Zenon
  <2>7. \A p \in HIGH_SUCCESS_RULES[3].phrases : Proper(p)
    BY <1>2, <2>4, RuleFields
  <2> QED BY <2>5, <2>6, <2>7
<1>6. /\ all[1] = HIGH_CONCERN_RULES[1] /\ all[2] = HIGH_CONCERN_RULES[2]
      /\ all[3] = HIGH_CONCERN_RULES[3] /\ all[4] = HIGH_SUCCESS_RULES[1]
      /\ all[5] = HIGH_SUCCESS_RULES[2] /\ all[6] = HIGH_SUCCESS_RULES[3]
      /\ DOMAIN all = 1..6
  <2>1. 1 + 3 = 4 /\ 2 + 3 = 5 /\ 3 + 3 = 6
    OBVIOUS
  <2> HIDE DEF all
  <2> QED BY <2>1, HighRules DEF all
<1> HIDE DEF all
<1>7. \A r \in 1..6 : r \in {1, 2, 3, 4, 5, 6}
  OBVIOUS
<1>8. \A r \in 1..6 : \A p \in all[r].phrases : Proper(p)
  BY <1>4, <1>5, <1>6, <1>7
<1> QED BY <1>1, <1>6, <1>8 DEF Catalogue, all

LEMMA MediumCatalogue == Catalogue(MEDIUM_SUCCESS_RULES \o MEDIUM_CONCERN_RULES)
<1> DEFINE s == MEDIUM_SUCCESS_RULES
           t == MEDIUM_CONCERN_RULES
           all == s \o t
<1>1. s \in Seq({s[1], t[1]}) /\ t \in Seq({s[1], t[1]}) /\ Len(s) = 1 /\ Len(t) = 1
  BY DEF MEDIUM_SUCCESS_RULES, MEDIUM_CONCERN_RULES
<1>2. \A r \in {s[1], t[1]} : \A phrase \in r.phrases : Proper(phrase)
  <2>1. s[1].phrases = Stem({"yendim", "basari"}) \cup {Becoming}
    BY RuleFields DEF MEDIUM_SUCCESS_RULES
  <2>2. t[1].phrases = Stem({"yorgun"})
    BY RuleFields DEF MEDIUM_CONCERN_RULES
  <2> HIDE DEF s, t
  <2> QED BY <2>1, <2>2, ProperPhrases DEF Becoming
<1>3. all \in Seq({s[1], t[1]}) /\ Len(all) = Len(s) + Len(t)
  <2> HIDE DEF s, t
  <2> QED BY <1>1, ConcatProperties
<1> HIDE DEF s, t
<1>4. DOMAIN all = 1..2 /\ \A r \in 1..2 : all[r] \in {s[1], t[1]}
  <2> HIDE DEF all
  <2> QED BY <1>1, <1>3
<1>5. 1..2 \in SUBSET Int /\ IsFiniteSet(1..2)
  BY RuleNumbers
<1>6. Catalogue(all)
  <2> HIDE DEF all
  <2> QED BY <1>2, <1>4, <1>5 DEF Catalogue
<1> QED BY <1>6 DEF all, s, t
------------------------------------------------------------------------------
(* The splitter.                                                             *)

LEMMA EndsFacts ==
    ASSUME NEW S, NEW line \in Seq(S)
    PROVE  \E m \in Nat :
             /\ DOMAIN Ends(line) = 1..m
             /\ \A p \in 1..m : /\ Ends(line)[p] \in 1..Len(line)
                                /\ line[Ends(line)[p]].mark = "stop" \/ Ends(line)[p] = Len(line)
             /\ \A p, q \in 1..m : p < q => Ends(line)[p] < Ends(line)[q]
             /\ line # <<>> => m > 0 /\ Ends(line)[m] = Len(line)
             /\ line = <<>> => m = 0
<1> DEFINE n == Len(line)
           ends == {i \in DOMAIN line : line[i].mark = "stop" \/ i = Len(line)}
           m == Cardinality(ends)
<1>1. n \in Nat /\ DOMAIN line = 1..n
  OBVIOUS
<1>2. ends \in SUBSET Int /\ IsFiniteSet(ends)
  <2>1. ends \in SUBSET (1..n) /\ IsFiniteSet(1..n)
    BY <1>1, RuleNumbers
  <2> DEFINE T == 1..n
  <2>2. T \in SUBSET Int
    OBVIOUS
  <2> HIDE DEF ends, T
  <2> QED BY <2>1, <2>2, FS_Subset DEF T
<1>3. /\ \A e \in ends : e \in 1..n /\ (line[e].mark = "stop" \/ e = n)
      /\ n # 0 => n \in ends
      /\ n = 0 => ends = {}
  BY <1>1
<1>4. Ends(line) = InOrder(ends)
  BY DEF Ends
<1>5. line = <<>> <=> n = 0
  BY <1>1
<1> HIDE DEF ends
<1>6. /\ m \in Nat /\ DOMAIN Ends(line) = 1..m
      /\ \A p \in 1..m : Ends(line)[p] \in ends
      /\ \A e \in ends : \E p \in 1..m : Ends(line)[p] = e
      /\ \A p, q \in 1..m : p < q => Ends(line)[p] < Ends(line)[q]
  BY <1>2, <1>4, InOrderFacts
<1>7. n = 0 => m = 0
  BY <1>3, FS_EmptySet
<1> HIDE DEF m, n
<1>8. n # 0 => m > 0 /\ Ends(line)[m] = n
  <2> SUFFICES ASSUME n # 0 PROVE m > 0 /\ Ends(line)[m] = n
    OBVIOUS
  <2>1. PICK p \in 1..m : Ends(line)[p] = n
    BY <1>3, <1>6
  <2>2. m > 0 /\ m \in 1..m
    BY <1>6
  <2>3. p < m => Ends(line)[p] < Ends(line)[m]
    BY <1>6, <2>2
  <2>4. Ends(line)[m] \in 1..n
    BY <1>3, <1>6, <2>2
  <2>5. ~(p < m)
    BY <1>1, <2>1, <2>3, <2>4
  <2>6. p = m
    BY <1>6, <2>5
  <2> QED BY <2>1, <2>2, <2>6
<1>9. \A p \in 1..m : /\ Ends(line)[p] \in 1..n
                      /\ line[Ends(line)[p]].mark = "stop" \/ Ends(line)[p] = n
  BY <1>3, <1>6
<1> QED BY <1>5, <1>6, <1>7, <1>8, <1>9 DEF n

\* How many tokens are before piece p.
Before(line, p) == IF p = 1 THEN 0 ELSE Ends(line)[p - 1]

\* A line of tokens of S is cut into m pieces.
Cut(line, m, S) ==
    /\ Pieces(line) \in Seq(Seq(S)) /\ DOMAIN Pieces(line) = 1..m /\ Len(Pieces(line)) = m
    /\ \A p \in 1..m :
         /\ Ends(line)[p] \in 1..Len(line) /\ Before(line, p) \in 0..Len(line)
         /\ Before(line, p) < Ends(line)[p]
         /\ line[Ends(line)[p]].mark = "stop" \/ Ends(line)[p] = Len(line)
         /\ Pieces(line)[p] = SubSeq(line, Before(line, p) + 1, Ends(line)[p])
         /\ Pieces(line)[p] \in Seq(S)
         /\ Len(Pieces(line)[p]) = Ends(line)[p] - Before(line, p)
         /\ Within(Pieces(line)[p], line, Before(line, p))
    /\ line # <<>> => m > 0 /\ Ends(line)[m] = Len(line)
    /\ line = <<>> => m = 0

LEMMA PiecesFacts ==
    ASSUME NEW S, NEW line \in Seq(S)
    PROVE  \E m \in Nat : Cut(line, m, S)
<1> DEFINE n == Len(line)
<1>1. n \in Nat /\ \A i \in 1..n : line[i] \in S
  OBVIOUS
<1>2. PICK m \in Nat :
        /\ DOMAIN Ends(line) = 1..m
        /\ \A p \in 1..m : /\ Ends(line)[p] \in 1..n
                           /\ line[Ends(line)[p]].mark = "stop" \/ Ends(line)[p] = n
        /\ \A p, q \in 1..m : p < q => Ends(line)[p] < Ends(line)[q]
        /\ line # <<>> => m > 0 /\ Ends(line)[m] = n
        /\ line = <<>> => m = 0
  BY EndsFacts
<1>3. /\ DOMAIN Pieces(line) = 1..m
      /\ \A p \in 1..m : Pieces(line)[p] =
           SubSeq(line, IF p = 1 THEN 1 ELSE Ends(line)[p - 1] + 1, Ends(line)[p])
  BY <1>2 DEF Pieces
<1> HIDE DEF n
<1>4. \A p \in 1..m : /\ Before(line, p) \in 0..n /\ Before(line, p) < Ends(line)[p]
                      /\ (IF p = 1 THEN 1 ELSE Ends(line)[p - 1] + 1) = Before(line, p) + 1
  <2> SUFFICES ASSUME NEW p \in 1..m
      PROVE  /\ Before(line, p) \in 0..n /\ Before(line, p) < Ends(line)[p]
             /\ (IF p = 1 THEN 1 ELSE Ends(line)[p - 1] + 1) = Before(line, p) + 1
    OBVIOUS
  <2>1. CASE p = 1
    BY <1>1, <1>2, <2>1 DEF Before
  <2>2. CASE p # 1
    <3>1. p - 1 \in 1..m /\ p - 1 < p
      BY <1>2, <2>2
    <3>2. Ends(line)[p - 1] \in 1..n /\ Ends(line)[p - 1] < Ends(line)[p]
      BY <1>2, <3>1
    <3> QED BY <1>1, <2>2, <3>2 DEF Before
  <2> QED BY <2>1, <2>2
<1>5. ASSUME NEW p \in 1..m
      PROVE  /\ Pieces(line)[p] = SubSeq(line, Before(line, p) + 1, Ends(line)[p])
             /\ Pieces(line)[p] \in Seq(S)
             /\ Len(Pieces(line)[p]) = Ends(line)[p] - Before(line, p)
             /\ Within(Pieces(line)[p], line, Before(line, p))
  <2> DEFINE a == Before(line, p)
             b == Ends(line)[p]
             piece == Pieces(line)[p]
  <2>1. a \in 0..n /\ b \in 1..n /\ a < b
    BY <1>2, <1>4
  <2>2. piece = SubSeq(line, a + 1, b)
    BY <1>3, <1>4
  <2> HIDE DEF a, b, piece
  <2>3. a + 1 \in Int /\ b \in Int /\ \A i \in (a + 1)..b : line[i] \in S
    BY <1>1, <2>1
  <2>4. /\ SubSeq(line, a + 1, b) \in Seq(S)
        /\ Len(SubSeq(line, a + 1, b)) = IF a + 1 <= b THEN b - (a + 1) + 1 ELSE 0
        /\ \A i \in 1..(b - (a + 1) + 1) : SubSeq(line, a + 1, b)[i] = line[(a + 1) + i - 1]
    BY <2>3, SubSeqProperties
  <2>5. a \in Int /\ b \in Int /\ a + 1 <= b /\ b - (a + 1) + 1 = b - a
    BY <1>1, <2>1
  <2>6. \A i \in 1..(b - a) : (a + 1) + i - 1 = a + i
    BY <2>5
  <2>7. /\ piece \in Seq(S) /\ Len(piece) = b - a
        /\ \A i \in 1..(b - a) : piece[i] = line[a + i]
    BY <2>2, <2>4, <2>5, <2>6
  <2>8. Within(piece, line, a)
    <3>1. a \in Nat /\ a + (b - a) <= n
      BY <1>1, <2>1
    <3> QED BY <2>7, <3>1 DEF Within, n
  <2> QED BY <2>2, <2>7, <2>8 DEF a, b, piece
<1>6. Pieces(line) \in Seq(Seq(S)) /\ Len(Pieces(line)) = m
  <2> DEFINE piece(p) == SubSeq(line, IF p = 1 THEN 1 ELSE Ends(line)[p - 1] + 1, Ends(line)[p])
  <2>1. Pieces(line) = [p \in 1..m |-> piece(p)]
    BY <1>2 DEF Pieces
  <2>2. \A p \in 1..m : piece(p) \in Seq(S)
    BY <1>3, <1>5
  <2> HIDE DEF piece
  <2> QED BY <2>1, <2>2
<1> QED BY <1>2, <1>3, <1>4, <1>5, <1>6 DEF Cut, n

\* The pieces of a line are the line.
LEMMA PiecesFlatten ==
    ASSUME NEW S, NEW line \in Seq(S)
    PROVE  FlattenSeq(Pieces(line)) = line
<1> DEFINE n == Len(line)
<1>1. n \in Nat
  OBVIOUS
<1>0. PICK m \in Nat : Cut(line, m, S)
  BY PiecesFacts
<1>2. /\ Pieces(line) \in Seq(Seq(S)) /\ Len(Pieces(line)) = m
      /\ \A p \in 1..m :
           /\ Ends(line)[p] \in 1..n /\ Before(line, p) \in 0..n
           /\ Before(line, p) < Ends(line)[p]
           /\ Pieces(line)[p] = SubSeq(line, Before(line, p) + 1, Ends(line)[p])
      /\ line # <<>> => m > 0 /\ Ends(line)[m] = n
      /\ line = <<>> => m = 0
  BY <1>0 DEF Cut
<1> DEFINE cut(p) == IF p = 0 THEN 0 ELSE Ends(line)[p]
           f == [p \in 0..m |-> SubSeq(line, 1, cut(p))]
<1>3. \A p \in 0..m : cut(p) \in 0..n
  BY <1>1, <1>2
<1>4. \A p \in 1..m : cut(p - 1) = Before(line, p) /\ cut(p) = Ends(line)[p]
  BY <1>2 DEF Before
<1>5. cut(0) = 0
  OBVIOUS
<1> HIDE DEF cut, n
<1>6. f \in [0..m -> Seq(S)]
  <2>1. \A p \in 0..m : SubSeq(line, 1, cut(p)) \in Seq(S)
    <3> TAKE p \in 0..m
    <3>1. cut(p) \in Int /\ \A i \in 1..cut(p) : line[i] \in S
      BY <1>1, <1>3 DEF n
    <3> QED BY <3>1, SubSeqProperties
  <2> QED BY <2>1
<1>7. /\ f[0] = <<>> /\ f[m] = SubSeq(line, 1, cut(m))
      /\ \A p \in 1..m : f[p] = SubSeq(line, 1, cut(p)) /\ f[p - 1] = SubSeq(line, 1, cut(p - 1))
  <2>1. \A p \in 0..m : f[p] = SubSeq(line, 1, cut(p))
    OBVIOUS
  <2> HIDE DEF f
  <2>2. 0 \in 0..m /\ m \in 0..m /\ \A p \in 1..m : p \in 0..m /\ p - 1 \in 0..m
    OBVIOUS
  <2>3. SubSeq(line, 1, 0) = <<>>
    BY SubSeqEmpty
  <2> QED BY <1>5, <2>1, <2>2, <2>3
<1>8. ASSUME NEW p \in 1..m
      PROVE  f[p] = f[p - 1] \o Pieces(line)[p]
  <2> DEFINE a == Before(line, p)
             b == Ends(line)[p]
  <2>1. a \in 0..n /\ b \in 1..n /\ a < b /\ Pieces(line)[p] = SubSeq(line, a + 1, b)
    BY <1>2
  <2>2. f[p] = SubSeq(line, 1, b) /\ f[p - 1] = SubSeq(line, 1, a)
    BY <1>4, <1>7
  <2> HIDE DEF a, b
  <2>3. 1 \in 1..(n + 1) /\ a \in (1 - 1)..n /\ b \in a..n
    BY <1>1, <2>1
  <2>4. SubSeq(line, 1, a) \o SubSeq(line, a + 1, b) = SubSeq(line, 1, b)
    BY <2>3, ConcatAdjacentSubSeq DEF n
  <2> HIDE DEF f
  <2> QED BY <2>1, <2>2, <2>4
<1>9. FlattenSeq(Pieces(line)) = f[m]
  <2> HIDE DEF f
  <2>1. Flattens(f, Pieces(line), S)
    BY <1>2, <1>6, <1>7, <1>8 DEF Flattens
  <2> QED BY <1>2, <2>1, FlattenBy
<1>10. CASE line = <<>>
  <2>1. m = 0
    BY <1>2, <1>10
  <2> HIDE DEF f
  <2> QED BY <1>7, <1>9, <1>10, <2>1
<1>11. CASE line # <<>>
  <2>1. cut(m) = n
    <3>1. m \in 1..m
      BY <1>2, <1>11
    <3> QED BY <1>2, <1>4, <1>11, <3>1
  <2> HIDE DEF f
  <2> QED BY <1>7, <1>9, <2>1, SubSeqFull DEF n
<1> QED BY <1>10, <1>11
\* What matches in a line matches in one of its pieces: the piece of its first
\* word ends where the line does or a sentence does, and a phrase goes over no
\* end of a sentence.
LEMMA MatchOfPiece ==
    ASSUME NEW S, NEW line \in Seq(S), NEW phrase, Proper(phrase), Matches(phrase, line)
    PROVE  \E p \in DOMAIN Pieces(line) : Matches(phrase, Pieces(line)[p])
<1> DEFINE n == Len(line)
           w == Len(phrase.words)
<1>1. n \in Nat /\ w \in Nat \ {0} /\ DOMAIN phrase.words = 1..w /\ "stop" \notin phrase.between
  BY DEF Proper
<1>2. PICK i \in 0..(n - w) : \A k \in 1..w :
        /\ line[i + k].form \in phrase.words[k]
        /\ k < w => line[i + k].mark \in phrase.between
  BY <1>1 DEF Matches
<1> HIDE DEF n, w
<1>3. i + 1 \in 1..n /\ i + w <= n
  BY <1>1, <1>2
<1>0. PICK m \in Nat : Cut(line, m, S)
  BY PiecesFacts
<1>4. /\ DOMAIN Pieces(line) = 1..m
      /\ \A p \in 1..m :
           /\ Ends(line)[p] \in 1..n /\ Before(line, p) \in 0..n
           /\ Before(line, p) < Ends(line)[p]
           /\ line[Ends(line)[p]].mark = "stop" \/ Ends(line)[p] = n
           /\ Len(Pieces(line)[p]) = Ends(line)[p] - Before(line, p)
           /\ Within(Pieces(line)[p], line, Before(line, p))
      /\ line # <<>> => m > 0 /\ Ends(line)[m] = n
  BY <1>0 DEF Cut, n
<1>5. PICK p \in 1..m : /\ Ends(line)[p] >= i + 1
                        /\ \A q \in 1..m : Ends(line)[q] >= i + 1 => p <= q
  <2> DEFINE late == {q \in 1..m : Ends(line)[q] >= i + 1}
  <2>1. late \in SUBSET (1..m) /\ late \in SUBSET Int
    OBVIOUS
  <2>2. m \in late
    <3>1. line # <<>>
      BY <1>3 DEF n
    <3> QED BY <1>3, <1>4, <3>1
  <2>3. IsFiniteSet(1..m)
    BY RuleNumbers
  <2>4. \A q : q \in late <=> q \in 1..m /\ Ends(line)[q] >= i + 1
    OBVIOUS
  <2> DEFINE T == 1..m
  <2> HIDE DEF late, T
  <2>5. IsFiniteSet(late)
    BY <2>1, <2>3, FS_Subset DEF T
  <2>6. \E q \in late : \A r \in late : q <= r
    BY <2>1, <2>2, <2>5, HasLeast
  <2> QED BY <2>4, <2>6
<1> DEFINE a == Before(line, p)
           b == Ends(line)[p]
           piece == Pieces(line)[p]
<1>6. /\ b \in 1..n /\ a \in 0..n /\ a < b /\ b >= i + 1
      /\ line[b].mark = "stop" \/ b = n
      /\ Len(piece) = b - a /\ Within(piece, line, a)
  BY <1>4, <1>5
<1>7. a <= i
  <2>1. CASE p = 1
    BY <1>3, <2>1 DEF Before
  <2>2. CASE p # 1
    <3>1. p - 1 \in 1..m /\ ~(p <= p - 1)
      BY <2>2
    <3>2. ~(Ends(line)[p - 1] >= i + 1) /\ Ends(line)[p - 1] \in 1..n
      BY <1>4, <1>5, <3>1
    <3>3. Before(line, p) = Ends(line)[p - 1]
      BY <2>2 DEF Before
    <3> QED BY <1>1, <1>2, <3>2, <3>3
  <2> QED BY <2>1, <2>2
<1> HIDE DEF a, b, piece
<1>8. i + w <= b
  <2> SUFFICES ASSUME ~(i + w <= b) PROVE FALSE
    OBVIOUS
  <2>1. b - i \in 1..w /\ b - i < w /\ i + (b - i) = b /\ b # n
    BY <1>1, <1>2, <1>3, <1>6
  <2>2. line[b].mark \in phrase.between
    BY <1>2, <2>1
  <2> QED BY <1>1, <1>6, <2>1, <2>2
<1>9. /\ i - a \in 0..((b - a) - w)
      /\ \A k \in 1..w : (i - a) + k \in 1..(b - a) /\ a + ((i - a) + k) = i + k
  BY <1>1, <1>2, <1>6, <1>7, <1>8
<1>10. \A k \in 1..w : piece[(i - a) + k] = line[i + k]
  <2>1. \A k \in 1..(b - a) : line[a + k] = piece[k]
    BY <1>6 DEF Within
  <2> QED BY <1>9, <2>1
<1>11. Matches(phrase, piece)
  <2>1. \A k \in 1..w : /\ piece[(i - a) + k].form \in phrase.words[k]
                        /\ k < w => piece[(i - a) + k].mark \in phrase.between
    BY <1>2, <1>10
  <2>2. i - a \in 0..(Len(piece) - w)
    BY <1>6, <1>9
  <2> QED BY <1>1, <2>1, <2>2 DEF Matches, w
<1> QED BY <1>4, <1>11 DEF piece

LEMMA SentencesOfFacts ==
    ASSUME NEW S, NEW line \in Seq(S)
    PROVE  /\ SentencesOf(line) \in Seq(Seq(S)) /\ FlattenSeq(SentencesOf(line)) = line
           /\ \A s \in Range(SentencesOf(line)) :
                s \in Seq(S) /\ s # <<>> /\ \E o : Within(s, line, o)
<1>1. CASE CheckboxLine(line)
  <2>1. SentencesOf(line) = <<line>> /\ line # <<>>
    BY <1>1 DEF SentencesOf, CheckboxLine
  <2>2. Range(<<line>>) = {line} /\ <<line>> \in Seq(Seq(S))
    BY DEF Range
  <2>3. Within(line, line, 0)
    <3>1. Len(line) \in Nat /\ \A k \in 1..Len(line) : 0 + k = k
      OBVIOUS
    <3> QED BY <3>1 DEF Within
  <2> QED BY <2>1, <2>2, <2>3, FlattenOne
<1>2. CASE ~CheckboxLine(line)
  <2>1. SentencesOf(line) = Pieces(line)
    BY <1>2 DEF SentencesOf
  <2>0. PICK m \in Nat : Cut(line, m, S)
    BY PiecesFacts
  <2>2. /\ Pieces(line) \in Seq(Seq(S)) /\ DOMAIN Pieces(line) = 1..m
        /\ \A p \in 1..m :
             /\ Ends(line)[p] \in 1..Len(line) /\ Before(line, p) \in 0..Len(line)
             /\ Before(line, p) < Ends(line)[p]
             /\ Pieces(line)[p] \in Seq(S)
             /\ Len(Pieces(line)[p]) = Ends(line)[p] - Before(line, p)
             /\ Within(Pieces(line)[p], line, Before(line, p))
    BY <2>0 DEF Cut
  <2>3. \A p \in 1..m : Pieces(line)[p] # <<>>
    <3> TAKE p \in 1..m
    <3> DEFINE n == Len(line)
    <3>1. n \in Nat
      OBVIOUS
    <3>2. /\ Ends(line)[p] \in 1..n /\ Before(line, p) \in 0..n
          /\ Before(line, p) < Ends(line)[p]
          /\ Len(Pieces(line)[p]) = Ends(line)[p] - Before(line, p)
      BY <2>2
    <3> HIDE DEF n
    <3>3. Len(Pieces(line)[p]) # 0
      BY <3>1, <3>2
    <3> QED BY <3>3
  <2>4. \A s \in Range(Pieces(line)) : \E p \in 1..m : s = Pieces(line)[p]
    BY <2>2 DEF Range
  <2>5. \A s \in Range(Pieces(line)) :
          s \in Seq(S) /\ s # <<>> /\ \E o : Within(s, line, o)
    <3> TAKE s \in Range(Pieces(line))
    <3>1. PICK p \in 1..m : s = Pieces(line)[p]
      BY <2>4
    <3>2. Pieces(line)[p] \in Seq(S) /\ Within(Pieces(line)[p], line, Before(line, p))
      BY <2>2
    <3> QED BY <2>3, <3>1, <3>2
  <2> QED BY <2>1, <2>2, <2>5, PiecesFlatten
<1> QED BY <1>1, <1>2

\* A rule fires on a line if and only if it fires on one of its sentences.
LEMMA FiresOnSentence ==
    ASSUME NEW S, NEW line \in Seq(S), NEW rule, \A phrase \in rule.phrases : Proper(phrase)
    PROVE  Fires(rule, line) <=> \E s \in Range(SentencesOf(line)) : Fires(rule, s)
<1>1. ASSUME NEW s \in Range(SentencesOf(line)), Fires(rule, s)
      PROVE  Fires(rule, line)
  <2>1. PICK o : s \in Seq(S) /\ Within(s, line, o)
    BY SentencesOfFacts
  <2>2. Len(s) \in Nat /\ Len(line) \in Nat
    BY <2>1
  <2> QED BY <1>1, <2>1, <2>2, PartFires
<1>2. ASSUME Fires(rule, line)
      PROVE  \E s \in Range(SentencesOf(line)) : Fires(rule, s)
  <2>1. CASE CheckboxLine(line)
    <3>1. line \in Range(SentencesOf(line))
      BY <2>1 DEF SentencesOf, Range
    <3> QED BY <1>2, <3>1
  <2>2. CASE ~CheckboxLine(line)
    <3>1. SentencesOf(line) = Pieces(line)
      BY <2>2 DEF SentencesOf
    <3>2. PICK phrase \in rule.phrases : Matches(phrase, line)
      BY <1>2 DEF Fires
    <3>3. PICK p \in DOMAIN Pieces(line) : Matches(phrase, Pieces(line)[p])
      BY <3>2, MatchOfPiece
    <3>4. Pieces(line)[p] \in Range(Pieces(line))
      BY DEF Range
    <3> QED BY <3>1, <3>2, <3>3, <3>4 DEF Fires
  <2> QED BY <2>1, <2>2
<1> QED BY <1>1, <1>2

------------------------------------------------------------------------------
(* Texts.                                                                    *)

LEMMA SentencesFacts ==
    ASSUME NEW S, NEW lines \in Seq(Seq(S))
    PROVE  /\ FlattenSeq(split_sentences(lines)) = FlattenSeq(lines)
           /\ \A s : s \in Range(split_sentences(lines)) <=>
                \E l \in DOMAIN lines : s \in Range(SentencesOf(lines[l]))
<1> DEFINE parts == [l \in DOMAIN lines |-> SentencesOf(lines[l])]
<1>1. DOMAIN lines = 1..Len(lines) /\ Len(lines) \in Nat /\ \A l \in DOMAIN lines : lines[l] \in Seq(S)
  OBVIOUS
<1>2. \A l \in DOMAIN lines : /\ SentencesOf(lines[l]) \in Seq(Seq(S))
                              /\ FlattenSeq(SentencesOf(lines[l])) = lines[l]
  BY <1>1, SentencesOfFacts
<1>3. parts \in Seq(Seq(Seq(S))) /\ Len(parts) = Len(lines) /\ DOMAIN parts = DOMAIN lines
  BY <1>1, <1>2
<1>4. \A l \in DOMAIN lines : parts[l] = SentencesOf(lines[l])
  OBVIOUS
<1>5. split_sentences(lines) = FlattenSeq(parts)
  BY DEF split_sentences
<1> HIDE DEF parts
<1>6. FlattenSeq(FlattenSeq(parts)) = FlattenSeq(lines)
  <2>1. \A l \in 1..Len(lines) : FlattenSeq(parts[l]) = lines[l]
    BY <1>1, <1>2, <1>4
  <2> QED BY <1>3, <2>1, FlattenNested
<1>7. \A s : s \in Range(FlattenSeq(parts)) <=> \E l \in DOMAIN parts : s \in Range(parts[l])
  BY <1>3, FlattenRange
<1> QED BY <1>3, <1>4, <1>5, <1>6, <1>7

\* The findings of a text are those of its lines.
LEMMA FindingsAreOfLines ==
    ASSUME NEW S, NEW lines \in Seq(Seq(S)), NEW rules, Catalogue(rules), NEW x
    PROVE  (\E s \in Range(split_sentences(lines)) : x \in Range(Buckets(rules, s))) <=>
             \E l \in DOMAIN lines, r \in DOMAIN rules :
                 Fires(rules[r], lines[l]) /\ rules[r].bucket = x
<1>1. \A s : x \in Range(Buckets(rules, s)) <=>
               \E r \in DOMAIN rules : Fires(rules[r], s) /\ rules[r].bucket = x
  BY BucketsAreOfRules DEF Catalogue
<1>2. \A l \in DOMAIN lines, r \in DOMAIN rules :
        Fires(rules[r], lines[l]) <=> \E s \in Range(SentencesOf(lines[l])) : Fires(rules[r], s)
  <2>1. \A l \in DOMAIN lines : lines[l] \in Seq(S)
    OBVIOUS
  <2> QED BY <2>1, FiresOnSentence DEF Catalogue
<1>3. \A s : s \in Range(split_sentences(lines)) <=>
               \E l \in DOMAIN lines : s \in Range(SentencesOf(lines[l]))
  BY SentencesFacts
<1> DEFINE Finds(r, s) == Fires(rules[r], s) /\ rules[r].bucket = x
<1>4. ASSUME NEW s \in Range(split_sentences(lines)), x \in Range(Buckets(rules, s))
      PROVE  \E l \in DOMAIN lines, r \in DOMAIN rules : Finds(r, lines[l])
  <2>1. PICK r \in DOMAIN rules : Fires(rules[r], s) /\ rules[r].bucket = x
    BY <1>1, <1>4
  <2>2. PICK l \in DOMAIN lines : s \in Range(SentencesOf(lines[l]))
    BY <1>3
  <2> QED BY <1>2, <2>1, <2>2
<1>5. ASSUME NEW l \in DOMAIN lines, NEW r \in DOMAIN rules, Finds(r, lines[l])
      PROVE  \E s \in Range(split_sentences(lines)) : x \in Range(Buckets(rules, s))
  <2>1. PICK s \in Range(SentencesOf(lines[l])) : Fires(rules[r], s)
    BY <1>2, <1>5
  <2> QED BY <1>1, <1>3, <1>5, <2>1
<1> QED BY <1>4, <1>5
\* A text whose lines hold the lines of another has its findings.
LEMMA FindingsKept ==
    ASSUME NEW S, NEW lines \in Seq(Seq(S)), NEW more \in Seq(Seq(S)),
           \A l \in DOMAIN lines : \E m \in DOMAIN more, o \in Nat : Within(lines[l], more[m], o),
           NEW rules, Catalogue(rules), NEW x,
           \E s \in Range(split_sentences(lines)) : x \in Range(Buckets(rules, s))
    PROVE  \E s \in Range(split_sentences(more)) : x \in Range(Buckets(rules, s))
<1>1. PICK l \in DOMAIN lines, r \in DOMAIN rules : Fires(rules[r], lines[l]) /\ rules[r].bucket = x
  BY FindingsAreOfLines
<1>2. PICK m \in DOMAIN more, o \in Nat : Within(lines[l], more[m], o)
  OBVIOUS
<1>3. Len(lines[l]) \in Nat /\ Len(more[m]) \in Nat
  <2>1. lines[l] \in Seq(S) /\ more[m] \in Seq(S)
    OBVIOUS
  <2> QED BY <2>1
<1>4. \A phrase \in rules[r].phrases : Proper(phrase)
  BY DEF Catalogue
<1>5. Fires(rules[r], more[m])
  BY <1>1, <1>2, <1>3, <1>4, PartFires
<1> QED BY <1>1, <1>5, FindingsAreOfLines

LEMMA KeepsAll ==
    ASSUME NEW S, NEW lines \in Seq(Seq(S)), NEW more \in Seq(Seq(S)),
           \A l \in DOMAIN lines : \E m \in DOMAIN more, o \in Nat : Within(lines[l], more[m], o)
    PROVE  /\ Legacy(split_sentences(lines)) \subseteq Legacy(split_sentences(more))
           /\ High(split_sentences(lines)) \subseteq High(split_sentences(more))
           /\ Medium(split_sentences(lines)) \subseteq Medium(split_sentences(more))
<1> DEFINE Found(rules, sentences) == UNION {Range(Buckets(rules, s)) : s \in Range(sentences)}
<1>1. ASSUME NEW rules, Catalogue(rules)
      PROVE  Found(rules, split_sentences(lines)) \subseteq Found(rules, split_sentences(more))
  <2>1. \A sentences, x :
          x \in Found(rules, sentences) <=> \E s \in Range(sentences) : x \in Range(Buckets(rules, s))
    OBVIOUS
  <2> HIDE DEF Found
  <2>2. ASSUME NEW x \in Found(rules, split_sentences(lines))
        PROVE  x \in Found(rules, split_sentences(more))
    <3>1. \E s \in Range(split_sentences(lines)) : x \in Range(Buckets(rules, s))
      BY <2>1, <2>2
    <3>2. \E s \in Range(split_sentences(more)) : x \in Range(Buckets(rules, s))
      BY <1>1, <3>1, FindingsKept
    <3> QED BY <2>1, <3>2
  <2> QED BY <2>2
<1>2. \A sentences :
        /\ Legacy(sentences) = Found(RULES, sentences)
        /\ High(sentences) = Found(HIGH_CONCERN_RULES \o HIGH_SUCCESS_RULES, sentences)
        /\ Medium(sentences) = Found(MEDIUM_SUCCESS_RULES \o MEDIUM_CONCERN_RULES, sentences)
  BY DEF Legacy, High, Medium, classify_sentence, HighMatches, MediumMatches
<1> HIDE DEF Found
<1> QED BY <1>1, <1>2, LegacyCatalogue, HighCatalogue, MediumCatalogue

------------------------------------------------------------------------------
(* The diary.                                                                *)

Tok == [form : Word \cup Box, mark : Mark]

Shape == text \in Seq(Seq(Tok)) /\ text # <<>>

\* Writing extends the last line or begins another one.
LEMMA LinesGrow ==
    ASSUME Shape, [Next]_text
    PROVE  /\ Shape'
           /\ \A l \in DOMAIN text : \E m \in DOMAIN text', o \in Nat : Within(text[l], text'[m], o)
<1>1. text \in Seq(Seq(Tok)) /\ text # <<>>
  BY DEF Shape
<1>2. \A l \in DOMAIN text : text[l] \in Seq(Tok) /\ Within(text[l], text[l], 0)
  <2> TAKE l \in DOMAIN text
  <2>1. text[l] \in Seq(Tok)
    BY <1>1
  <2>2. Len(text[l]) \in Nat /\ \A k \in 1..Len(text[l]) : 0 + k = k
    BY <2>1
  <2> QED BY <2>1, <2>2 DEF Within
<1>3. CASE UNCHANGED text
  BY <1>1, <1>2, <1>3 DEF Shape
<1>4. CASE NewLine
  <2>1. text' = Append(text, <<>>)
    BY <1>4 DEF NewLine
  <2>2. /\ text' \in Seq(Seq(Tok)) /\ text' # <<>>
        /\ \A l \in DOMAIN text : l \in DOMAIN text' /\ text'[l] = text[l]
    BY <1>1, <2>1
  <2> QED BY <1>2, <2>2 DEF Shape
<1>5. ASSUME NEW form \in Vocabulary, NEW mark \in Marks, Write(Token(form, mark))
      PROVE  /\ Shape'
             /\ \A l \in DOMAIN text :
                    \E m \in DOMAIN text', o \in Nat : Within(text[l], text'[m], o)
  <2> DEFINE n == Len(text)
             token == Token(form, mark)
             last == Append(text[n], token)
  <2>1. token \in Tok
    BY VocabularyAssumption DEF Token, Tok
  <2>2. n \in DOMAIN text /\ n \in 1..Len(text) /\ DOMAIN text = 1..Len(text)
    BY <1>1
  <2>3. text' = [text EXCEPT ![n] = last]
    BY <1>5 DEF Write
  <2> HIDE DEF n, token
  <2>4. text[n] \in Seq(Tok)
    BY <1>2, <2>2
  <2>5. /\ last \in Seq(Tok) /\ Len(last) = Len(text[n]) + 1
        /\ \A k \in 1..Len(text[n]) : last[k] = text[n][k]
    BY <2>1, <2>4, AppendProperties
  <2>6. Within(text[n], last, 0)
    <3>1. Len(text[n]) \in Nat /\ \A k \in 1..Len(text[n]) : 0 + k = k
      BY <2>4
    <3> QED BY <2>5, <3>1 DEF Within
  <2> HIDE DEF last
  <2>7. /\ text' \in Seq(Seq(Tok)) /\ text' # <<>> /\ DOMAIN text' = DOMAIN text
        /\ \A l \in DOMAIN text : text'[l] = IF l = n THEN last ELSE text[l]
    BY <1>1, <2>2, <2>3, <2>5
  <2>8. \A l \in DOMAIN text : l \in DOMAIN text' /\ Within(text[l], text'[l], 0)
    BY <1>2, <2>6, <2>7
  <2> QED BY <2>7, <2>8 DEF Shape
<1> QED BY <1>3, <1>4, <1>5 DEF Next

LEMMA ShapeHolds == Spec => []Shape
<1>1. Init => Shape
  <2>1. << <<>> >> \in Seq(Seq(Tok)) /\ << <<>> >> # <<>>
    OBVIOUS
  <2> QED BY <2>1 DEF Init, Shape
<1>2. Shape /\ [Next]_text => Shape'
  BY LinesGrow
<1> QED BY <1>1, <1>2, PTL DEF Spec

\* Nothing of a text is lost, doubled or moved by splitting it into sentences,
\* whatever its lines, marks and checkboxes, and no sentence is blank.
THEOREM EveryWordIsKept == Spec => []EveryWordKept
<1>1. Shape => EveryWordKept
  <2> SUFFICES ASSUME Shape PROVE EveryWordKept
    OBVIOUS
  <2>1. text \in Seq(Seq(Tok))
    BY DEF Shape
  <2>2. /\ FlattenSeq(Sentences) = FlattenSeq(text)
        /\ \A s : s \in Range(Sentences) <=>
             \E l \in DOMAIN text : s \in Range(SentencesOf(text[l]))
    BY <2>1, SentencesFacts DEF Sentences
  <2>3. \A l \in DOMAIN text : \A s \in Range(SentencesOf(text[l])) : s # <<>>
    <3>1. \A l \in DOMAIN text : text[l] \in Seq(Tok)
      BY <2>1
    <3> QED BY <3>1, SentencesOfFacts
  <2>4. \A s : s # <<>> => fallback_subcategory(s) # "general.uncategorized"
    BY DEF fallback_subcategory
  <2> QED BY <2>2, <2>3, <2>4 DEF EveryWordKept
<1> QED BY <1>1, ShapeHolds, PTL

\* A task is one sentence and a todo in the state of its box, whatever is
\* written in it and around it.
THEOREM TasksStayWhole == Spec => []TaskStaysWhole
<1>1. \A s, x : x \in Range(classify_sentence(s)) <=>
        \E r \in DOMAIN RULES : Fires(RULES[r], s) /\ RULES[r].bucket = x
  BY LegacyCatalogue, BucketsAreOfRules DEF Catalogue, classify_sentence
<1>2. 1 \in DOMAIN RULES /\ 3 \in DOMAIN RULES
  <2>1. \A a, b, c, d, e, f, g, h, i : DOMAIN <<a, b, c, d, e, f, g, h, i>> = 1..9
    OBVIOUS
  <2> QED BY <2>1 DEF RULES
<1>3. ASSUME NEW line \in Seq(Tok), line # <<>>, NEW forms, line[1].form \in forms
      PROVE  \E phrase \in Stem(forms) : Matches(phrase, line)
  <2> DEFINE phrase == Loose(<<forms>>)
  <2>1. phrase.words = <<forms>>
    BY DEF Loose
  <2> HIDE DEF phrase
  <2>2. /\ Len(phrase.words) = 1 /\ DOMAIN phrase.words = 1..1 /\ phrase.words[1] = forms
    BY <2>1
  <2>3. 0 \in 0..(Len(line) - 1) /\ \A k \in 1..1 : k = 1 /\ 0 + k = 1 /\ ~(k < 1)
    BY <1>3
  <2>4. Matches(phrase, line)
    BY <1>3, <2>2, <2>3 DEF Matches
  <2> QED BY <2>4 DEF Stem, phrase
<1>4. \A a, b, c, d, e, f, g, h, i :
        LET all == <<a, b, c, d, e, f, g, h, i>> IN all[1] = a /\ all[3] = c
  OBVIOUS
<1>5. /\ RULES[1] = Rule("todos.completed", Stem({"bitirdim", "hallettim", "done", "abandoned", "[x]"}))
      /\ RULES[3] = Rule("todos.open", Stem({"yapacagim", "halletmedim", "[ ]", "[]"}))
  BY <1>4, Zenon DEF RULES
<1>6. PICK crossed : /\ RULES[1] = Rule("todos.completed", Stem(crossed))
                     /\ "[x]" \in crossed
  <2>1. "[x]" \in {"bitirdim", "hallettim", "done", "abandoned", "[x]"}
    BY Zenon
  <2> QED BY <1>5, <2>1, Zenon
<1>7. PICK open : /\ RULES[3] = Rule("todos.open", Stem(open))
                  /\ "[ ]" \in open
  <2>1. "[ ]" \in {"yapacagim", "halletmedim", "[ ]", "[]"}
    BY Zenon
  <2> QED BY <1>5, <2>1, Zenon
<1>8. ASSUME NEW line \in Seq(Tok), line # <<>>, NEW r \in DOMAIN RULES, NEW bucket, NEW forms,
             RULES[r] = Rule(bucket, Stem(forms)), line[1].form \in forms
      PROVE  bucket \in Range(classify_sentence(line))
  BY <1>1, <1>3, <1>8, RuleFields DEF Fires
<1>9. ASSUME NEW line, line # <<>>, line[1].form = "[x]" \/ line[1].form = "[ ]"
      PROVE  line \in Range(SentencesOf(line))
  <2>1. CheckboxLine(line)
    BY <1>9, Zenon DEF CheckboxLine
  <2>2. SentencesOf(line) = <<line>>
    BY <2>1 DEF SentencesOf
  <2>3. line \in Range(<<line>>)
    BY DEF Range
  <2> QED BY <2>2, <2>3
<1>10. Shape => TaskStaysWhole
  <2> SUFFICES ASSUME Shape, NEW l \in DOMAIN text, text[l] # <<>>
      PROVE  /\ text[l][1].form = "[x]" =>
                  text[l] \in Range(Sentences) /\ "todos.completed" \in Range(classify_sentence(text[l]))
             /\ text[l][1].form = "[ ]" =>
                  text[l] \in Range(Sentences) /\ "todos.open" \in Range(classify_sentence(text[l]))
    BY Zenon DEF TaskStaysWhole
  <2>1. text \in Seq(Seq(Tok))
    BY DEF Shape
  <2>2. text[l] \in Seq(Tok)
    BY <2>1
  <2>3. \A s : s \in Range(SentencesOf(text[l])) => s \in Range(Sentences)
    BY <2>1, SentencesFacts DEF Sentences
  <2>4. ASSUME text[l][1].form = "[x]"
        PROVE  "todos.completed" \in Range(classify_sentence(text[l]))
    BY <1>2, <1>6, <1>8, <2>2, <2>4, Zenon
  <2>5. ASSUME text[l][1].form = "[ ]"
        PROVE  "todos.open" \in Range(classify_sentence(text[l]))
    BY <1>2, <1>7, <1>8, <2>2, <2>5, Zenon
  <2>6. text[l][1].form = "[x]" \/ text[l][1].form = "[ ]" => text[l] \in Range(Sentences)
    BY <1>9, <2>3, Zenon
  <2> QED BY <2>4, <2>5, <2>6, Zenon
<1> QED BY <1>10, ShapeHolds, PTL

\* No word written later takes a finding back.
THEOREM WritingTakesNothingBack == Spec => WritingKeepsFindings
<1>1. Shape /\ [Next]_text =>
        [/\ Legacy(Sentences) \subseteq Legacy(Sentences')
         /\ High(Sentences) \subseteq High(Sentences')
         /\ Medium(Sentences) \subseteq Medium(Sentences')]_text
  <2> SUFFICES ASSUME Shape, [Next]_text
      PROVE  /\ Legacy(Sentences) \subseteq Legacy(Sentences')
             /\ High(Sentences) \subseteq High(Sentences')
             /\ Medium(Sentences) \subseteq Medium(Sentences')
    OBVIOUS
  <2>1. text \in Seq(Seq(Tok)) /\ text' \in Seq(Seq(Tok))
    BY LinesGrow DEF Shape
  <2>2. Sentences = split_sentences(text) /\ Sentences' = split_sentences(text')
    BY DEF Sentences
  <2>3. \A l \in DOMAIN text : \E m \in DOMAIN text', o \in Nat : Within(text[l], text'[m], o)
    BY LinesGrow
  <2> QED BY <2>1, <2>2, <2>3, KeepsAll
<1> QED BY <1>1, ShapeHolds, PTL DEF Spec, WritingKeepsFindings

\* What is found in the content of a cue is found in the cue, whatever its title.
THEOREM TitlesTakeNothingBack == Spec => []CuesKeepFindings
<1>1. ASSUME NEW title \in Seq(Tok), NEW content \in Seq(Tok)
      PROVE  CueLine(title, content) \in Seq(Tok) /\ Within(content, CueLine(title, content), Len(title))
  <2>1. \A head \in Seq(Tok) :
          /\ head \o content \in Seq(Tok)
          /\ Within(content, head \o content, Len(head))
    <3> TAKE head \in Seq(Tok)
    <3> DEFINE all == head \o content
    <3>1. /\ all \in Seq(Tok) /\ Len(all) = Len(head) + Len(content)
          /\ \A i \in 1..(Len(head) + Len(content)) :
               all[i] = IF i <= Len(head) THEN head[i] ELSE content[i - Len(head)]
      BY ConcatProperties
    <3>2. Len(head) \in Nat /\ Len(content) \in Nat
      OBVIOUS
    <3> HIDE DEF all
    <3>3. \A k \in 1..Len(content) : all[Len(head) + k] = content[k]
      BY <3>1, <3>2
    <3>4. Len(head) + Len(content) <= Len(all)
      BY <3>1, <3>2
    <3>5. Within(content, all, Len(head))
      BY <3>2, <3>3, <3>4 DEF Within
    <3> QED BY <3>1, <3>5 DEF all
  <2>2. CASE title = <<>> \/ content = <<>>
    BY <2>1, <2>2 DEF CueLine
  <2>3. CASE title # <<>> /\ content # <<>>
    <3> DEFINE n == Len(title)
               e == [title[n] EXCEPT !.mark = "colon"]
               head == [title EXCEPT ![n] = e]
    <3>1. CueLine(title, content) = head \o content
      BY <2>3 DEF CueLine
    <3>2. n \in 1..Len(title)
      BY <2>3
    <3> HIDE DEF n
    <3>3. e \in Tok
      <4>1. title[n] \in Tok /\ "colon" \in Mark
        BY <3>2 DEF Mark
      <4> QED BY <4>1 DEF Tok
    <3> HIDE DEF e
    <3>4. head \in Seq(Tok) /\ Len(head) = Len(title)
      BY <3>2, <3>3, ExceptSeq
    <3> HIDE DEF head
    <3> QED BY <2>1, <3>1, <3>4
  <2> QED BY <2>2, <2>3
<1>2. Shape => CuesKeepFindings
  <2> SUFFICES ASSUME Shape, Len(text) = 1, NEW title \in Titles
      PROVE  LET cue == split_sentences(<<CueLine(title, text[1])>>)
             IN  Legacy(Sentences) \subseteq Legacy(cue) /\ High(Sentences) \subseteq High(cue)
    BY DEF CuesKeepFindings
  <2> DEFINE line == CueLine(title, text[1])
             lines == <<line>>
  <2>1. text \in Seq(Seq(Tok)) /\ DOMAIN text = {1} /\ text[1] \in Seq(Tok)
    BY DEF Shape
  <2>2. title \in Seq(Tok) /\ Len(title) \in Nat
    <3>1. title \in Seq(Tok)
      BY TitlesAssumption DEF Tok
    <3> QED BY <3>1
  <2>3. line \in Seq(Tok) /\ Within(text[1], line, Len(title))
    BY <1>1, <2>1, <2>2
  <2> HIDE DEF line
  <2>4. lines \in Seq(Seq(Tok)) /\ 1 \in DOMAIN lines /\ lines[1] = line
    BY <2>3
  <2> HIDE DEF lines
  <2>5. \A l \in DOMAIN text : \E m \in DOMAIN lines, o \in Nat : Within(text[l], lines[m], o)
    BY <2>1, <2>2, <2>3, <2>4
  <2>6. /\ Legacy(split_sentences(text)) \subseteq Legacy(split_sentences(lines))
        /\ High(split_sentences(text)) \subseteq High(split_sentences(lines))
    BY <2>1, <2>4, <2>5, KeepsAll
  <2> QED BY <2>6 DEF Sentences, lines, line
<1> QED BY <1>2, ShapeHolds, PTL
==============================================================================
