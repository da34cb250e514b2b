---------------------------- MODULE MCGeminiClient ----------------------------
(* The texts and the exceptions the tests of generate_json use, and the 404 of  *)
(* a model that "is not supported for generateContent".                         *)
EXTENDS GeminiClient

\* The parser's sentences share the classifier's client; a report has its own.
MCClientOf == [c \in Call |-> IF c = "report" THEN "reporter" ELSE "classifier"]

MCText == {[json |-> TRUE], [json |-> FALSE]}

MCFault == {[cause |-> "rate limit", words |-> {"rate", "429"}],
            [cause |-> "bad key", words |-> {"api key", "401"}],
            [cause |-> "network", words |-> {}]}

MCLocalFault == {[cause |-> "no SDK", words |-> {}]}

MCFaultWithModel == {[cause |-> "unknown model", words |-> {"rate"}]}
==============================================================================
