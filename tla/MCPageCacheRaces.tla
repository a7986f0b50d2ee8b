--------------------------- MODULE MCPageCacheRaces ----------------------------
(* PageCacheRaces with two io_service threads.  Slugs, texts and threads   *)
(* are interchangeable: no definition tells one from another.              *)
EXTENDS PageCacheRaces, TLC

MCHomeKey == [p \in Pages |-> "home0"]
Symmetry == Permutations(Io) \cup Permutations(Slugs) \cup Permutations(Texts)
=============================================================================
