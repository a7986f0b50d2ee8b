------------------------------- MODULE MCSessions ------------------------------
(* SessionsForms for TLC.  Accounts, names, passwords, cookies and       *)
(* worker threads are interchangeable; a thread of Io is not one of them   *)
(* unless it is the only thread.                                           *)
EXTENDS SessionsForms, TLC

Symmetry == Permutations(Accounts) \cup Permutations(Names) \cup Permutations(Passwords)
                \cup Permutations(Cookies) \cup Permutations(Workers)
=============================================================================
