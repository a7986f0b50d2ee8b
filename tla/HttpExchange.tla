------------------------------ MODULE HttpExchange ------------------------------
(***************************************************************************)
(* What a connection of the HTTP server promises its client: answers to a  *)
(* growing choice of the requests, each sent whole before the next begins, *)
(* and nothing after the socket has been shut.                             *)
(***************************************************************************)
EXTENDS Naturals, Sequences

CONSTANT Scripts   \* sequences of answers, one to each request of a client

VARIABLES answers, \* what the requests of this client are to be answered
          got,    \* tokens received by the client
          last,   \* the request whose answer was begun last
          left,   \* what is still to come of that answer
          open    \* the socket is open

evars == <<answers, got, last, left, open>>

Init == answers \in Scripts /\ got = <<>> /\ last = 0 /\ left = <<>> /\ open = TRUE

Begin(i) ==
    /\ left = <<>> /\ i > last /\ last' = i
    /\ left' = IF open THEN answers[i] ELSE <<>>
    /\ UNCHANGED <<answers, got, open>>

Deliver ==
    /\ open /\ left # <<>>
    /\ got' = Append(got, left[1]) /\ left' = Tail(left)
    /\ UNCHANGED <<answers, last, open>>

Shut == open /\ open' = FALSE /\ left' = <<>> /\ UNCHANGED <<answers, got, last>>

Next == (\E i \in DOMAIN answers : Begin(i)) \/ Deliver \/ Shut
Spec == Init /\ [][Next]_evars
=============================================================================
