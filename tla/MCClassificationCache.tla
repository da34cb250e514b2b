------------------------ MODULE MCClassificationCache ------------------------
(* Three texts in two spellings, two verdicts and room for two keys: the       *)
(* smallest instance in which a promoted key, an overwritten key, a victim and *)
(* a newcomer are all different.                                               *)
EXTENDS CacheHistory
==============================================================================
