---------------------------- MODULE MCParserService ----------------------------
(* The catalogue of Categorizer over three texts, one for each thing the         *)
(* keyword layer can say; a loud spelling has wider gaps, which only the         *)
(* legacy keywords see.  Two or three entries, the first and the last on one day. *)
EXTENDS ParserService

CONSTANTS plain, loud, general, sadness

Catalogue == INSTANCE Categorizer WITH ReflectionMinWords <- 4

\* Sentences are built once: words with one space between them.
Say(words) == [i \in DOMAIN words |-> Catalogue!Token(words[i], "")]

high   == Say(<<"korkuyorum", "basardim">>)
medium == Say(<<"yendim", "ilk", "kez">>)
silent == Say(<<"hava">>)

MCText == {high, medium, silent}

Said(t, s) == [text |-> t, spelling |-> s]
Sentences == {Said(high, plain), Said(medium, plain), Said(medium, loud),
              Said(silent, plain), Said(silent, loud)}

Written(s) ==
    IF s.spelling = plain THEN s.text
    ELSE [i \in DOMAIN s.text |-> Catalogue!Token(s.text[i].form, "gap")]

fears == "concerns.fears"
achievements == "successes.achievements"
uncategorized == "general.uncategorized"
MCSubcategory == {fears, achievements, "successes.milestones", "general.observations", uncategorized}

MCHigh   == [t \in Text |-> Catalogue!HighMatches(t)]
MCMedium == [t \in Text |-> Catalogue!MediumMatches(t)]
MCLegacy == [s \in Sentence |-> Catalogue!classify_sentence(Written(s))]
MCBySize == [s \in Sentence |-> Catalogue!fallback_subcategory(Written(s))]

List(entries) == [kind |-> "list", entries |-> entries]
MCPayload ==
    {[kind |-> k, entries |-> <<>>] : k \in {"raised", "not_dict", "no_list"}} \cup
    {List(<<>>), List(<<Malformed>>), List(<<general>>), List(<<fears>>),
     List(<<sadness, Malformed, achievements>>)}

Day(n, planlar, cue, notes) ==
    [id |-> n, date |-> IF n = 2 THEN 7 ELSE 3,
     planlar |-> planlar, cue_column |-> cue, notes_column |-> notes, summary |-> <<>>]

Raw(entries, start, end) == [entries |-> entries, range_start |-> start, range_end |-> end]

Columns == {<<>>} \cup {<<s>> : s \in Sentences}

\* One entry of up to three sentences.
SingleJournals ==
    {Raw(<<Day(1, a, b, c)>>, NoDate, NoDate) : a, b, c \in Columns}

\* Two entries of up to two sentences.
DoubleJournals ==
    {Raw(<<Day(1, a, <<>>, b), Day(2, c, <<>>, <<>>)>>, 1, 9) : a, b, c \in Columns}

\* Three entries, the first and the last on the same day, with more texts
\* between them than the cache has room for.
TripleJournals ==
    {Raw(<<Day(1, <<s>>, <<>>, <<s>>), Day(2, <<t>>, <<u>>, <<>>), Day(3, <<s>>, <<>>, <<>>)>>,
         start, NoDate) : s, t, u \in Sentences, start \in {NoDate, 1}}

MCJournal == {Raw(<<>>, NoDate, NoDate)} \cup SingleJournals \cup DoubleJournals
               \cup TripleJournals
==============================================================================
