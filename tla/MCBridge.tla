------------------------------- MODULE MCBridge -------------------------------
(* The calendar starts at day 0, today is 5, and the lookback is two days: the   *)
(* diary may have days before, inside, at the edges of and after a window.       *)
EXTENDS Bridge, TLC

Tags == {Section(name) : name \in TAG_WHITELIST} \cup
        {DayTag(2), DayTag(4), DayTag(NoDate), OtherTag}

Body(auth, tag, fetch_all, start, end) ==
    [auth |-> auth, tag |-> tag, fetch_all |-> fetch_all, start |-> start, end |-> end]

Parsed(n, start, end, by_date) ==
    [ok |-> TRUE, entry_count |-> n, start |-> start, end |-> end, by_date |-> by_date]

\* Every combination of parameters; an end on day 1 fills in before the calendar.
EveryReport ==
    {Body("valid", tag, all, start, end) :
        tag \in Tags, all \in BOOLEAN, start \in {NoDate, 2, 4, 6}, end \in {NoDate, 1, 2, 4}} \cup
    {Body(auth, Section("/todo"), FALSE, NoDate, NoDate) : auth \in {"unset", "missing"}}

EveryUpload ==
    {[auth |-> auth, tag |-> tag, parsed |-> file] :
        auth \in {"valid", "missing"}, tag \in Tags,
        file \in {Error(400, "invalid_tag"), Error(500, "parser_error"),
                  Parsed(0, NoDate, NoDate, <<>>), Parsed(-1, NoDate, NoDate, <<>>),
                  Parsed(1, 4, 4, 4 :> 1)}}

\* A few, for two requests at once.
Few == {Body("valid", Section("/detail"), FALSE, NoDate, NoDate),
        Body("valid", DayTag(4), FALSE, 4, NoDate),
        Body("missing", Section("/todo"), FALSE, NoDate, NoDate),
        [auth |-> "valid", tag |-> DayTag(4), parsed |-> Parsed(1, 4, 4, 4 :> 1)]}

First == CHOOSE r \in Request : TRUE
Home == CHOOSE a \in Address : TRUE

EveryDiary == SUBSET {2, 3, 4, 5}

\* One request of every kind over every diary; a few over two, from one or two addresses.
EveryScene ==
    [diary : EveryDiary,
     body : {[r \in Request |-> IF r = First THEN b ELSE NoRequest] : b \in EveryReport \cup EveryUpload},
     address : {[r \in Request |-> Home]}] \cup
    [diary : {{}, {3, 4}}, body : [Request -> Few], address : [Request -> Address]]
==============================================================================
