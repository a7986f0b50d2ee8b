------------------------------ MODULE MCPageCache ------------------------------
(* PageCache with one io_service thread, the default of the program, and   *)
(* the threads of /reload beside it.                                       *)
EXTENDS PageCache

MCHomeKey == [p \in Pages |-> IF p = 0 THEN "home0" ELSE "home1"]
=============================================================================
