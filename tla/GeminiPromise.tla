---------------------------- MODULE GeminiPromise ----------------------------
(***************************************************************************)
(* What GeminiClient.generate_json promises its callers: a call, once      *)
(* made, ends, once, in a parsed answer or in one of the domain            *)
(* exceptions, and nothing that happens later changes how it ended.        *)
(***************************************************************************)
CONSTANT Call

VARIABLE progress

Ending == {"answer", "GeminiRateLimitError", "GeminiUnavailableError",
           "InvalidAIResponseError"}

Init == progress = [c \in Call |-> "not called"]

Begin(c) ==
    /\ progress[c] = "not called"
    /\ progress' = [progress EXCEPT ![c] = "pending"]

FailAtOnce(c) ==
    /\ progress[c] = "not called"
    /\ \E e \in Ending \ {"answer"} : progress' = [progress EXCEPT ![c] = e]

End(c) ==
    /\ progress[c] = "pending"
    /\ \E e \in Ending : progress' = [progress EXCEPT ![c] = e]

Next == \E c \in Call : Begin(c) \/ FailAtOnce(c) \/ End(c)

SafeSpec == Init /\ [][Next]_progress

Spec == SafeSpec /\ \A c \in Call : WF_progress(End(c))
==============================================================================
