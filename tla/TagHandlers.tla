----------------------------- MODULE TagHandlers -----------------------------
(***************************************************************************)
(* tag_handlers.prepare, the renderers and the end of                      *)
(* ReporterService.generate as functions.  A parsed collection is its      *)
(* entry count, its range and, by day, the number of items of the day's    *)
(* tree; its whole tree holds the items of all these days.                 *)
(***************************************************************************)
EXTENDS Converter, Prompts

\* A whitelisted tag, /date{...} with a day (NoDate if the calendar has no such
\* day), or anything else.
Section(name) == [kind |-> "section", name |-> name]
DayTag(day) == [kind |-> "day", day |-> day]
OtherTag == [kind |-> "other"]

Tag == [kind : {"section"}, name : TAG_WHITELIST] \cup
       [kind : {"day"}, day : Int \cup {NoDate}] \cup {OtherTag}

is_valid_tag(tag) == tag.kind # "other"

\* Mutant: no case of its own for /todo, so it falls to the last one.
RendererWithoutTodo(tag) ==
    CASE tag = Section("/detail")  -> _render_detail
      [] tag = Section("/concern") -> _render_concern
      [] tag = Section("/success") -> _render_success
      [] OTHER -> _render_date

Renderer(tag) ==
    CASE tag = Section("/detail")  -> _render_detail
      [] tag = Section("/todo")    -> _render_todo
      [] tag = Section("/concern") -> _render_concern
      [] tag = Section("/success") -> _render_success
      [] OTHER -> _render_date

\* Mutant: every section gets the whole tree.
SliceUntrimmed(parsed, tag) == [days |-> DOMAIN parsed.by_date, categories |-> Category]

_slice_for_tag(parsed, tag) ==
    [days |-> DOMAIN parsed.by_date,
     categories |-> CASE tag.name = "/detail"  -> Category
                      [] tag.name = "/todo"    -> {"todos"}
                      [] tag.name = "/concern" -> {"concerns"}
                      [] tag.name = "/success" -> {"successes"}]

SectionOutput(parsed, tag) ==
    [ok |-> TRUE, start |-> parsed.start, end |-> parsed.end, entry_count |-> parsed.entry_count,
     prompt |-> build_user_prompt(tag.name, _slice_for_tag(parsed, tag)),
     shows |-> Renderer(tag)]

DayOutput(tag, count) ==
    [ok |-> TRUE, start |-> tag.day, end |-> tag.day, entry_count |-> count,
     prompt |-> build_user_prompt("/date", [days |-> {tag.day}, categories |-> Category]),
     shows |-> Renderer(tag)]

\* Mutant: the day is not looked up before it is reported on.
PrepareAnyDay(parsed, tag) ==
    IF ~is_valid_tag(tag) THEN Error(400, "invalid_tag")
    ELSE IF parsed.entry_count = 0 THEN Error(404, "no_entries")
    ELSE IF tag.kind = "section" THEN SectionOutput(parsed, tag)
    ELSE DayOutput(tag, IF tag.day \in DOMAIN parsed.by_date THEN parsed.by_date[tag.day] ELSE 0)

prepare(parsed, tag) ==
    IF ~is_valid_tag(tag) THEN Error(400, "invalid_tag")
    ELSE IF parsed.entry_count = 0 THEN Error(404, "no_entries")
    ELSE IF tag.kind = "section" THEN SectionOutput(parsed, tag)
    ELSE IF tag.day = NoDate THEN Error(400, "invalid_tag")
    ELSE IF tag.day \notin DOMAIN parsed.by_date THEN Error(404, "date_not_in_range")
    ELSE DayOutput(tag, parsed.by_date[tag.day])

\* Two renderers join their first field to the text as it is: _render_detail the
\* summary, _render_date the narrative.
JoinsLead(tag) == tag.kind = "day" \/ tag = Section("/detail")

\* How generate_json ends: a domain exception, or JSON that is an object whose
\* fields are strings where the template asks for them, another object, or none.
Endings == {"object", "odd_object", "not_object", "GeminiRateLimitError",
            "GeminiUnavailableError", "InvalidAIResponseError"}

\* Joining a lead that is no string raises TypeError, which nothing handles.
Reported(ending, tag, handler) ==
    CASE ending = "GeminiRateLimitError" -> Error(429, "gemini_rate_limit")
      [] ending = "GeminiUnavailableError" -> Error(503, "gemini_unavailable")
      [] ending \in {"InvalidAIResponseError", "not_object"} -> Error(502, "invalid_ai_response")
      [] ending = "odd_object" /\ JoinsLead(tag) -> Error(500, "")
      [] OTHER -> handler
==============================================================================
