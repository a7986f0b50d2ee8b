---------------------------- MODULE MCHttpConnection ----------------------------
(* Connections of HttpConnection with few requests of every kind.          *)
EXTENDS HttpConnection

Ask(kind, body, size, keep) ==
    [kind |-> kind, body |-> body, size |-> size, keep |-> keep]

Patient(requests) == [requests |-> requests, pipelines |-> FALSE]
Hasty(requests)   == [requests |-> requests, pipelines |-> TRUE]

(* Content in two reads, a file of one full buffer and a short one, a file *)
(* of full buffers only, a resource function that throws; then a detached  *)
(* thread, a file shorter than the buffer, a bad length; then a client     *)
(* that does not wait: with the last kinds, and a close.                   *)
MCClients ==
    {Patient(<<Ask("page", 2, 0, TRUE), Ask("file", 0, 3, TRUE),
               Ask("file", 0, 2, TRUE), Ask("throws", 0, 0, TRUE)>>),
     Patient(<<Ask("thread", 1, 0, TRUE), Ask("file", 0, 1, TRUE),
               Ask("length", 1, 0, TRUE)>>),
     Hasty(<<Ask("page", 1, 0, TRUE), Ask("file", 1, 3, TRUE),
             Ask("thread", 0, 0, FALSE), Ask("none", 1, 0, TRUE)>>)}
================================================================================
