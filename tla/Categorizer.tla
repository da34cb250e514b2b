----------------------------- MODULE Categorizer -----------------------------
(***************************************************************************)
(* What the keyword catalogues make of a text: split_sentences and         *)
(* classify_sentence (categorizer.py), match_keywords (keyword_patterns.py) *)
(* and the cue lines the sidecar builds for them (db.py).                  *)
(*                                                                         *)
(* A token is a word form and what follows it: a space, a wider gap, a     *)
(* colon, or the end of a sentence.  Forms are written in ASCII and stand  *)
(* for every spelling the catalogues take for the same.  Each rule names   *)
(* the forms its patterns match: a form for each pattern or guard that     *)
(* differs from the rest, among them the denied forms: those a guard is    *)
(* for ("korkmuyorum", "kaygisizim", "basarisiz") and those it lets pass   *)
(* ("korkutmadi", "kaygilanmiyorum", "endiselenmiyorum", "paniklemedim").  *)
(* A substring keyword matches the longer words that contain it as well    *)
(* ("abandoned", "wonder", "unhappy").                                     *)
(***************************************************************************)
EXTENDS Integers, Sequences, FiniteSets, SequencesExt

CONSTANTS ReflectionMinWords    \* REFLECTION_MIN_CHARS, in words

Token(form, mark) == [form |-> form, mark |-> mark]

Mark == {"", "gap", "colon", "stop"}

Box == {"[ ]", "[x]", "[]"}

\* Forms that are in the past tense for "\w*[dt][ıi]\w*".
Past == {"basardim", "basaramadim", "yapamadim", "bitirdim", "hallettim", "halletmedim",
         "kaybettim", "yaptim", "yendim", "korkutmadi", "paniklemedim", "endiselenmiyorum"}

Word == Past \cup
    {"abandoned", "basari", "basarisiz", "done", "failed", "happy", "hata", "hava", "ilk",
     "kaygilanmiyorum", "kaygiliyim", "kaygisizim", "kez", "korkmuyorum", "korkuyorum", "mutlu", "mutluyum",
     "oldum", "sonraya", "sonunda", "stresli", "unhappy", "won", "wonder", "yapacagim",
     "yorgun"}

------------------------------------------------------------------------------
(* Patterns.  The words of a phrase follow each other in the sentence, with  *)
(* any white space between them (\s+) or with exactly one space.             *)

Loose(words) == [words |-> words, between |-> {"", "gap"}]
Tight(words) == [words |-> words, between |-> {""}]
Stem(forms)  == {Loose(<<forms>>)}

\* Mutant: "$" where the pattern has "\b".
MatchesAtEnd(phrase, s) ==
    \E i \in 0..(Len(s) - Len(phrase.words)) :
        /\ i + Len(phrase.words) = Len(s)
        /\ \A k \in DOMAIN phrase.words : s[i + k].form \in phrase.words[k]

Matches(phrase, s) ==
    \E i \in 0..(Len(s) - Len(phrase.words)) : \A k \in DOMAIN phrase.words :
        /\ s[i + k].form \in phrase.words[k]
        /\ k < Len(phrase.words) => s[i + k].mark \in phrase.between

\* The elements of a finite set of numbers, the least first.
InOrder(S) == [p \in 1..Cardinality(S) |->
                 CHOOSE e \in S : Cardinality({d \in S : d <= e}) = p]

Rule(bucket, phrases) == [bucket |-> bucket, phrases |-> phrases]

Fires(rule, s) == \E phrase \in rule.phrases : Matches(phrase, s)

\* The buckets of the rules that fire, in the order of the rules.  No two rules
\* of a catalogue share a bucket, so "seen" never skips one.
Buckets(rules, s) ==
    LET hits == InOrder({r \in DOMAIN rules : Fires(rules[r], s)})
    IN  [h \in DOMAIN hits |-> rules[hits[h]].bucket]

Becoming == Loose(<<Word, {"oldum"}>>)

------------------------------------------------------------------------------
(* categorizer.py                                                            *)

RULES == <<
    Rule("todos.completed", Stem({"bitirdim", "hallettim", "done", "abandoned", "[x]"})),
    Rule("todos.deferred",  Stem({"sonraya"})),
    Rule("todos.open",      Stem({"yapacagim", "halletmedim", "[ ]", "[]"})),
    Rule("concerns.failures",
         Stem({"basaramadim", "yapamadim", "failed"}) \cup {Tight(<<{"hata"}, {"yaptim"}>>)}),
    Rule("concerns.fears",     Stem({"korkuyorum", "korkmuyorum", "korkutmadi"})),
    Rule("concerns.anxieties",
         Stem({"kaygiliyim", "kaygisizim", "kaygilanmiyorum", "endiselenmiyorum", "stresli"})),
    Rule("successes.milestones", Stem({"sonunda"}) \cup {Tight(<<{"ilk"}, {"kez"}>>)}),
    Rule("successes.achievements",
         Stem({"basardim", "yendim", "basari", "won", "wonder"}) \cup {Becoming}),
    Rule("successes.positive_moments", Stem({"mutluyum", "mutlu", "happy", "unhappy"})) >>

classify_sentence(s) == Buckets(RULES, s)

fallback_subcategory(s) ==
    IF s = <<>> THEN "general.uncategorized"
    ELSE IF Len(s) >= ReflectionMinWords THEN "general.reflections"
    ELSE "general.observations"

\* Mutant: a piece ends with its mark, so that the last one may be dropped.
EndsOfMarks(line) == InOrder({i \in DOMAIN line : line[i].mark = "stop"})

Ends(line) == InOrder({i \in DOMAIN line : line[i].mark = "stop" \/ i = Len(line)})

\* The split after each [.!?…] that white space follows.
Pieces(line) ==
    LET ends == Ends(line)
    IN  [p \in DOMAIN ends |-> SubSeq(line, IF p = 1 THEN 1 ELSE ends[p - 1] + 1, ends[p])]

\* Mutant: only open boxes.
OpenLine(line) == line # <<>> /\ line[1].form \in {"[ ]"}

\* Kept whole; "[]" is not.
CheckboxLine(line) == line # <<>> /\ line[1].form \in {"[ ]", "[x]"}

SentencesOf(line) == IF CheckboxLine(line) THEN <<line>> ELSE Pieces(line)

split_sentences(text) == FlattenSeq([l \in DOMAIN text |-> SentencesOf(text[l])])

------------------------------------------------------------------------------
(* keyword_patterns.py                                                       *)

HIGH_CONCERN_RULES == <<
    Rule("concerns.failures",
         Stem({"basaramadim", "basarisiz", "yapamadim", "kaybettim"}) \cup
         {Loose(<<{"hata"}, {"yaptim"}>>)}),
    Rule("concerns.fears",     Stem({"korkuyorum", "korkutmadi"})),
    Rule("concerns.anxieties",
         Stem({"kaygiliyim", "kaygilanmiyorum", "endiselenmiyorum", "stresli", "paniklemedim"})) >>

HIGH_SUCCESS_RULES == <<
    Rule("successes.achievements", Stem({"basardim", "bitirdim", "hallettim"})),
    Rule("successes.milestones",
         {Loose(<<{"ilk"}, {"kez"}, Past>>), Loose(<<{"sonunda"}, Past>>)}),
    Rule("successes.positive_moments", Stem({"mutluyum"})) >>

MEDIUM_SUCCESS_RULES ==
    << Rule("successes.achievements", Stem({"yendim", "basari"}) \cup {Becoming}) >>

MEDIUM_CONCERN_RULES == << Rule("concerns.anxieties", Stem({"yorgun"})) >>

\* The matches of match_keywords by their confidence, each in its order.
HighMatches(s)   == Buckets(HIGH_CONCERN_RULES \o HIGH_SUCCESS_RULES, s)
MediumMatches(s) == Buckets(MEDIUM_SUCCESS_RULES \o MEDIUM_CONCERN_RULES, s)

------------------------------------------------------------------------------
(* db.py, row_to_entry_dict: the line of a cue.                              *)

\* Mutant: a cue with a title is the title.
CueTitle(title, content) == IF title # <<>> THEN title ELSE content

\* "title: content", without the colon and the space where one is empty.
CueLine(title, content) ==
    IF title = <<>> \/ content = <<>> THEN title \o content
    ELSE [title EXCEPT ![Len(title)].mark = "colon"] \o content
==============================================================================
