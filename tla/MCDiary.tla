------------------------------- MODULE MCDiary -------------------------------
(* One form for each thing the rules tell apart, phrases and guards included. *)
EXTENDS Diary

FewWords ==
    {"[ ]", "[x]", "[]", "hava", "ilk", "kez", "sonunda", "oldum", "yendim",
     "basardim", "basaramadim", "basarisiz", "korkuyorum", "korkmuyorum",
     "endiselenmiyorum"}

\* Nothing but denials and neutral words.
Denials == Denied \cup Neutral

SpaceOrStop == {"", "stop"}

FewTitles == {<<>>, <<Token("hava", "stop")>>, <<Token("ilk", "")>>}
==============================================================================
