------------------------------- MODULE Prompts -------------------------------
(***************************************************************************)
(* What Gemini is sent for a tag and what is shown of its answer: the      *)
(* templates of prompts.py, the renderers of tag_handlers.py and the       *)
(* contents the backend of ai_client.py makes of two prompts.  A template  *)
(* is known by the fields it asks for, a renderer by the fields it shows,  *)
(* and a slice of the journal by its days and its categories.              *)
(***************************************************************************)

TAG_WHITELIST == {"/detail", "/todo", "/concern", "/success"}

Category == {"todos", "concerns", "successes", "general"}

TEMPLATES == [key \in TAG_WHITELIST \cup {"/date"} |->
    CASE key = "/detail" ->
           {"summary", "todos", "concerns", "successes", "patterns", "recommendation"}
      [] key = "/todo"    -> {"open", "completed", "deferred", "analysis"}
      [] key = "/concern" -> {"anxieties", "fears", "failures", "empathic_summary"}
      [] key = "/success" ->
           {"achievements", "milestones", "positive_moments", "celebratory_summary"}
      [] key = "/date"    -> {"narrative", "highlights", "todos", "emotional_tone"}]

\* The fields a renderer takes from the content; it leaves out those that are empty.
_render_detail  == {"summary", "todos", "concerns", "successes", "patterns", "recommendation"}
_render_todo    == {"open", "completed", "deferred", "analysis"}
_render_concern == {"anxieties", "fears", "failures", "empathic_summary"}
_render_success == {"achievements", "milestones", "positive_moments", "celebratory_summary"}
_render_date    == {"narrative", "highlights", "todos", "emotional_tone"}

build_user_prompt(template_key, payload) == [asks |-> TEMPLATES[template_key], payload |-> payload]

\* Constant text: it asks for no field and holds nothing of the journal.
SYSTEM_PROMPT == [asks |-> {}, payload |-> [days |-> {}, categories |-> {}]]

\* The backend is given both prompts and sends the second.
Contents(system_prompt, user_prompt) == {user_prompt}
==============================================================================
