------------------------------ MODULE MCSidecar ------------------------------
(* The calendar of MCBridge.  The queries: those of the Converter, one end only, *)
(* both ends with fetch_all, a range upside down, one before the calendar, and   *)
(* no key.                                                                       *)
EXTENDS Sidecar

Q(auth, start, end, fetch_all) ==
    [auth |-> auth, start |-> start, end |-> end, fetch_all |-> fetch_all]

Queries ==
    {Q("valid", NoDate, NoDate, TRUE), Q("valid", 2, 4, FALSE),
     Q("valid", NoDate, 4, FALSE), Q("valid", 4, NoDate, FALSE), Q("valid", NoDate, NoDate, FALSE),
     Q("valid", 4, 5, TRUE), Q("valid", 4, 2, FALSE), Q("valid", NoDate, 1, FALSE),
     Q("missing", NoDate, NoDate, TRUE), Q("unset", NoDate, NoDate, TRUE)}

\* 3 is the first day of the default window, 2 that of the range with end 4 alone.
TwoDiaries == {{1, 3, 4}, {2, 5}}
==============================================================================
