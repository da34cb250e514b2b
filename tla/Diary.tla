-------------------------------- MODULE Diary --------------------------------
(***************************************************************************)
(* A column of the diary while it is written, token by token, and what the *)
(* catalogues find in it.  Nothing here is code of the repository but what *)
(* Categorizer says of the text.                                           *)
(***************************************************************************)
EXTENDS Categorizer

CONSTANTS
    Vocabulary,     \* the forms that are written
    Marks,          \* and what may follow them
    Titles,         \* of the cue the text may be the content of
    MaxTokens, MaxLines

ASSUME VocabularyAssumption == Vocabulary \subseteq Word \cup Box /\ Marks \subseteq Mark

ASSUME TitlesAssumption == Titles \subseteq Seq([form : Word \cup Box, mark : Mark])

VARIABLE text       \* its lines

Init == text = << <<>> >>

Write(token) ==
    /\ Len(FlattenSeq(text)) < MaxTokens
    /\ text' = [text EXCEPT ![Len(text)] = Append(@, token)]

NewLine ==
    /\ Len(text) < MaxLines
    /\ text' = Append(text, <<>>)

Next == NewLine \/ \E form \in Vocabulary, mark \in Marks : Write(Token(form, mark))

Spec == Init /\ [][Next]_text

------------------------------------------------------------------------------
(* Properties.                                                               *)

Sentences == split_sentences(text)

Legacy(sentences) == UNION {Range(classify_sentence(s)) : s \in Range(sentences)}
High(sentences)   == UNION {Range(HighMatches(s)) : s \in Range(sentences)}
Medium(sentences) == UNION {Range(MediumMatches(s)) : s \in Range(sentences)}

\* "Losing information at this stage would silently corrupt downstream reports"
\* (categorizer.py:8): the sentences are the text, word for word and in order,
\* wherever lines, marks and checkboxes fall, and none of them is blank.
EveryWordKept ==
    /\ FlattenSeq(Sentences) = FlattenSeq(text)
    /\ \A s \in Range(Sentences) : fallback_subcategory(s) # "general.uncategorized"

\* A line that starts with a checkbox is one sentence, however many marks it
\* has, and all of it is a todo in the state of its box
\* (split_sentences: the markers "travel with their content").
TaskStaysWhole ==
    \A l \in DOMAIN text : text[l] # <<>> =>
        /\ text[l][1].form = "[x]" =>
             text[l] \in Range(Sentences) /\ "todos.completed" \in Range(classify_sentence(text[l]))
        /\ text[l][1].form = "[ ]" =>
             text[l] \in Range(Sentences) /\ "todos.open" \in Range(classify_sentence(text[l]))

\* What the rules find in a text is still found when it is written on: no word
\* added later takes a finding back, neither by moving a boundary between
\* sentences nor by completing a negation.
WritingKeepsFindings ==
    [][/\ Legacy(Sentences) \subseteq Legacy(Sentences')
       /\ High(Sentences) \subseteq High(Sentences')
       /\ Medium(Sentences) \subseteq Medium(Sentences')]_text

\* From the diary to the rules through the sidecar: what is found in a cue of its
\* own is found in the cue column too, whatever its title.
CuesKeepFindings ==
    Len(text) = 1 =>
        \A title \in Titles :
            LET cue == split_sentences(<<CueLine(title, text[1])>>)
            IN  /\ Legacy(Sentences) \subseteq Legacy(cue)
                /\ High(Sentences) \subseteq High(cue)

\* Words that deny what they are made of, and words that say nothing of it.
Denied  == {"korkmuyorum", "korkutmadi", "kaygisizim", "kaygilanmiyorum", "endiselenmiyorum",
            "paniklemedim", "basarisiz", "basaramadim", "yapamadim", "halletmedim"}
Neutral == {"hava", "ilk", "kez", "oldum", "sonunda", "yorgun"}

\* "Negation guards live in the regex [...] so traps like `başarısız oldum` and
\* `korkmuyorum` can never fire HIGH on the wrong bucket" (parser/README.md:71-73), and
\* "failures FIRST so negation traps are caught before they hit the success bucket"
\* (keyword_patterns.py:202-203): denied words are accepted without the LLM as failures
\* or not at all, neither as the fear or anxiety they deny nor as a success.
NegationTrapsCaught ==
    \A s \in Range(Sentences) :
        (\A i \in DOMAIN s : s[i].form \in Denied \cup Neutral) =>
            Range(HighMatches(s)) \subseteq {"concerns.failures"}
==============================================================================
