----------------------------- MODULE HttpConnection -----------------------------
(***************************************************************************)
(* One connection of the HTTP server (server_http.h) with the file sender  *)
(* of main.cpp.                                                            *)
(*                                                                         *)
(* A connection is a chain of asynchronous operations: read a head, read   *)
(* the content, run the resource function, write the answer, read the next *)
(* head.  At most one is outstanding.  The chain goes on in the completion *)
(* handler of each operation; when a handler starts no further one, the    *)
(* last reference to the socket goes and the connection ends.  Every       *)
(* operation is watched by a timer whose handler shuts the socket.         *)
(*                                                                         *)
(* A step is one event of the io_service (bytes received or sent, a timer  *)
(* that runs out) or one completion handler, to its end.                   *)
(*                                                                         *)
(* Abstracted: a head is two tokens, of which the second ends it; content  *)
(* and file are counted in tokens.  Bytes that are not a whole head do not *)
(* parse.  Connections share nothing but the io_service, so one is enough. *)
(***************************************************************************)
EXTENDS Naturals, Sequences, SequencesExt

CONSTANTS Clients,    \* [requests, pipelines]: a sequence of requests, and may
                      \* the client send on before it has its answer
          ChunkSize   \* KB128, the buffer of default_resource_send, in tokens

VARIABLES script,     \* the client of this connection
          sent, got,  \* its tokens of Stream sent, and the tokens it received
          taken, sock,  \* tokens the server has read; "open" or "shut"
          op, ready,  \* the outstanding operation and its queued outcome
          buf,        \* Request::streambuf
          req,        \* the request in hand, 0 for none
          content,    \* what the resource function finds in request->content
          out,        \* Response::streambuf
          pos, more,  \* tokens read of the file; whether its callback reads on
          timer,      \* the timer of the outstanding operation
          late,       \* the expiry of an earlier operation's timer is queued
          served      \* history: the last request given to a resource function

client  == <<script, sent, got>>
chain   == <<op, ready>>
request == <<buf, req, content>>
answer  == <<out, pos, more>>
clock   == <<timer, late>>
vars    == <<client, taken, sock, chain, request, answer, clock, served>>

(* kind: how the resource function answers; body: tokens of content; size: *)
(* tokens of the file; keep: HTTP/1.1 without "Connection: close".         *)
Kinds == {"page",      \* answered by the handler itself
          "thread",    \* answered by a detached thread
          "file",      \* sent in chunks
          "throws",    \* the resource function throws before it writes
          "none",      \* no resource and no default resource for the method
          "length"}    \* the value of Content-Length is not a number

ASSUME ClientAssumption ==
    /\ \A c \in Clients :
          /\ c.pipelines \in BOOLEAN
          /\ c.requests \in Seq([kind : Kinds, body : Nat, size : Nat, keep : BOOLEAN])
    /\ ChunkSize \in Nat \ {0}

Requests  == script.requests
Numbers   == DOMAIN Requests
HeadOf(i) == <<<<i, "head">>, <<i, "end">>>>
Body(i)   == [k \in 1..Requests[i].body |-> <<i, "body">>]
Upto(n)   == FlattenSeq([i \in 1..n |-> HeadOf(i) \o Body(i)])
Stream    == Upto(Len(Requests))

(* The tokens of an answer: the header, which states the length, and then  *)
(* the page or the file.  A function that throws leaves an empty answer.   *)
AnswerTo(r, i) ==
    IF r.kind = "throws" THEN <<>>
    ELSE [k \in 1..((IF r.kind = "file" THEN r.size ELSE 1) + 1) |-> <<i, k - 1>>]
Answers(c) == [i \in DOMAIN c.requests |-> AnswerTo(c.requests[i], i)]
Answer(i)  == Answers(script)[i]

Sent(i) == sent >= Len(Upto(i))
Done(i) == Answer(i) # <<>> /\ Last(Answer(i)) \in ToSet(got)

Least(a, b)         == IF a < b THEN a ELSE b
Pieces(i, from, to) == [k \in 1..(to - from) |-> <<i, from + k>>]

-----------------------------------------------------------------------------
NoRequest == buf' = <<>> /\ req' = 0 /\ content' = <<>>
NoAnswer  == out' = <<>> /\ pos' = 0 /\ more' = FALSE

Init ==
    /\ script \in Clients /\ sent = 0 /\ got = <<>> /\ taken = 0 /\ sock = "open"
    /\ op = "accept" /\ ready = "ok"
    /\ buf = <<>> /\ req = 0 /\ content = <<>>
    /\ out = <<>> /\ pos = 0 /\ more = FALSE
    /\ timer = "none" /\ late = FALSE /\ served = 0

StartUntimedHead(o) ==
    op' = o /\ ready' = "no" /\ timer' = (IF o = "head" THEN "none" ELSE "armed")

(* Start operation o; get_timeout_timer comes before every operation.      *)
Start(o) == op' = o /\ ready' = "no" /\ timer' = "armed"

(* timer->cancel(): an expiry whose handler is queued already still runs.  *)
Cancel == late' = (late \/ timer = "queued")

(* The handler starts nothing: the socket closes with its last reference,  *)
(* which the handler of a queued expiry may still hold.                    *)
Drop ==
    /\ op' = "none" /\ ready' = "no" /\ timer' = "none"
    /\ NoRequest /\ NoAnswer
    /\ sock' = IF late' THEN sock ELSE "shut"
    /\ UNCHANGED <<client, taken, served>>

(* read_request_and_content: a new Request with an empty buffer            *)
ReadRequest ==
    /\ Start("head") /\ NoRequest /\ NoAnswer
    /\ UNCHANGED <<client, taken, sock, served>>

(* The accept handler; on an error there is no connection.                 *)
Accept == op = "accept" /\ late' = late /\ (ReadRequest \/ Drop)

-----------------------------------------------------------------------------
SendChunkOnly(i, header, from) ==
    LET to == Least(from + ChunkSize, Requests[i].size)
    IN  out' = header \o Pieces(i, from, to) /\ pos' = to /\ more' = FALSE

(* default_resource_send: read up to a buffer of the file; a full buffer is *)
(* sent at once with a callback that reads on, a short one is left to the  *)
(* deleter of the response.  The callback refers to the parameter server   *)
(* of the function that made it, which has returned; it calls its send,    *)
(* which uses no member, and so goes on.                                   *)
SendChunk(i, header, from) ==
    LET to == Least(from + ChunkSize, Requests[i].size)
    IN  /\ out' = header \o Pieces(i, from, to)
        /\ pos' = to
        /\ more' = (to = from + ChunkSize)

(* write_response: run the resource function under a new timer.            *)
WriteResponse(i, text) ==
    LET kind == Requests[i].kind
    IN  /\ req' = i /\ served' = i /\ content' = text /\ buf' = <<>>
        /\ Start(IF kind = "thread" THEN "handler" ELSE "write")
        /\ CASE kind = "page" -> out' = Answer(i) /\ pos' = 0 /\ more' = FALSE
             [] kind = "file" -> SendChunk(i, <<<<i, 0>>>>, 0)
             [] OTHER         -> NoAnswer
        /\ UNCHANGED <<client, taken, sock>>

(* find_resource: without a match and without a default nothing is started *)
FindResource(i, text) ==
    IF Requests[i].kind = "none" THEN Drop ELSE WriteResponse(i, text)

(* parse_request succeeds on a whole head only.                            *)
Parsed(b) == \E i \in Numbers : IsPrefix(HeadOf(i), b)

HeadReadNoContent ==
    /\ op = "head" /\ ready = "ok" /\ Cancel
    /\ IF ~Parsed(buf) THEN Drop
       ELSE FindResource(buf[1][1], SubSeq(buf, 3, Len(buf)))

(* The head has been read; what else arrived with it stays in the buffer.  *)
HeadRead ==
    /\ op = "head" /\ ready = "ok" /\ Cancel
    /\ IF ~Parsed(buf) THEN Drop
       ELSE LET i    == buf[1][1]
                rest == SubSeq(buf, 3, Len(buf))
            IN  CASE Requests[i].kind = "length" -> Drop
                  [] Requests[i].kind # "length" /\ Requests[i].body > Len(rest) ->
                        /\ Start("content") /\ req' = i /\ buf' = rest
                        /\ UNCHANGED <<client, taken, sock, content, answer, served>>
                  [] OTHER -> FindResource(i, rest)

ContentRead ==
    /\ op = "content" /\ ready = "ok" /\ Cancel
    /\ FindResource(req, buf)

(* The detached thread writes its answer and lets go of the response.      *)
ThreadAnswers ==
    /\ op = "handler"
    /\ op' = "write" /\ out' = Answer(req)
    /\ UNCHANGED <<client, taken, sock, ready, request, pos, more, clock, served>>

(* The callback of a full chunk: read and send the next.                   *)
NextChunk ==
    /\ op = "write" /\ ready = "ok" /\ more
    /\ SendChunk(req, <<>>, pos) /\ ready' = "no"
    /\ UNCHANGED <<client, taken, sock, op, request, clock, served>>

(* The completion handler that the deleter of the response gives to send.  *)
Written ==
    /\ op = "write" /\ ready = "ok" /\ ~more /\ Cancel
    /\ IF Requests[req].keep THEN ReadRequest ELSE Drop

(* An operation that failed: its handler cancels the timer and stops.  A   *)
(* failed chunk is followed by the deleter's send, which fails as well.    *)
Failed ==
    /\ op \in {"head", "content", "write"} /\ ready = "error" /\ Cancel
    /\ Drop

-----------------------------------------------------------------------------
(* The io_service, the network and the client.                             *)

Pending(o) == op = o /\ ready = "no" /\ sock = "open"

Receive(upto) ==
    \E n \in (taken + 1)..upto :
        taken' = n /\ buf' = buf \o SubSeq(Stream, taken + 1, n)

(* async_read_until completes once the buffer holds the end of a head, and *)
(* may have taken more by then.                                            *)
ReceiveHead ==
    /\ Pending("head") /\ Receive(sent)
    /\ ready' = IF \E k \in DOMAIN buf' : buf'[k][2] = "end" THEN "ok" ELSE "no"
    /\ UNCHANGED <<client, sock, op, req, content, answer, clock, served>>

ReceiveContentUnsent ==
    /\ Pending("content")
    /\ Receive(taken + Requests[req].body - Len(buf))
    /\ ready' = IF Len(buf') = Requests[req].body THEN "ok" ELSE "no"
    /\ UNCHANGED <<client, sock, op, req, content, answer, clock, served>>

(* transfer_exactly *)
ReceiveContent ==
    /\ Pending("content")
    /\ Receive(Least(sent, taken + Requests[req].body - Len(buf)))
    /\ ready' = IF Len(buf') = Requests[req].body THEN "ok" ELSE "no"
    /\ UNCHANGED <<client, sock, op, req, content, answer, clock, served>>

(* async_write sends the buffer piece by piece until it is empty.          *)
Transmit ==
    /\ Pending("write") /\ out # <<>>
    /\ out' = Tail(out) /\ got' = Append(got, out[1])
    /\ UNCHANGED <<script, sent, taken, sock, chain, request, pos, more, clock, served>>

Transmitted ==
    /\ Pending("write") /\ out = <<>> /\ ready' = "ok"
    /\ UNCHANGED <<client, taken, sock, op, request, answer, clock, served>>

(* An operation on a socket that was shut fails; so does one whose peer    *)
(* goes away.                                                              *)
Fail ==
    /\ op \in {"head", "content", "write"} /\ ready = "no"
    /\ ready' = "error" /\ sock' = "shut"
    /\ UNCHANGED <<client, taken, op, request, answer, clock, served>>

Abort  == sock = "shut" /\ Fail
Hangup == sock = "open" /\ Fail

Expire ==
    /\ timer = "armed" /\ timer' = "queued"
    /\ UNCHANGED <<client, taken, sock, chain, request, answer, late, served>>

(* The handler of an expiry shuts and closes the socket.                   *)
Timeout ==
    /\ \/ timer = "queued" /\ timer' = "none" /\ UNCHANGED late
       \/ late /\ late' = FALSE /\ UNCHANGED timer
    /\ sock' = "shut"
    /\ UNCHANGED <<client, taken, chain, request, answer, served>>

(* The client sends a token; the first of a request once it has the answer *)
(* to the one before, unless it pipelines.                                 *)
Send ==
    /\ sent < Len(Stream) /\ sock = "open"
    /\ script.pipelines \/ \A i \in Numbers : sent = Len(Upto(i)) => Done(i)
    /\ sent' = sent + 1
    /\ UNCHANGED <<script, got, taken, sock, chain, request, answer, clock, served>>

-----------------------------------------------------------------------------
Handler == \/ Accept \/ HeadRead \/ ContentRead \/ ThreadAnswers
           \/ NextChunk \/ Written \/ Failed \/ Timeout
Service == ReceiveHead \/ ReceiveContent \/ Transmit \/ Transmitted \/ Abort

Next == Handler \/ Service \/ Hangup \/ Expire \/ Send
Spec == Init /\ [][Next]_vars

(* Completion handlers run once queued, bytes that have arrived are read,  *)
(* and time passes.  Nobody must send, and nothing must break.             *)
FairSpec == Spec /\ WF_vars(Handler) /\ WF_vars(Service) /\ WF_vars(Expire)

-----------------------------------------------------------------------------
TypeOK ==
    /\ script \in Clients /\ sent \in 0..Len(Stream) /\ taken \in 0..sent
    /\ got \in Seq(Numbers \X Nat) /\ sock \in {"open", "shut"}
    /\ op \in {"accept", "head", "content", "handler", "write", "none"}
    /\ ready \in {"no", "ok", "error"}
    /\ buf \in Seq(ToSet(Stream)) /\ content \in Seq(ToSet(Stream))
    /\ req \in {0} \cup Numbers /\ served \in {0} \cup Numbers
    /\ out \in Seq(Numbers \X Nat) /\ pos \in Nat /\ more \in BOOLEAN
    /\ timer \in {"none", "armed", "queued"} /\ late \in BOOLEAN

(* Answers on the wire, as HttpExchange promises them: what is still to    *)
(* come of the answer in progress is the buffer and the unread file.       *)
Remaining ==
    IF op \notin {"handler", "write"} \/ sock = "shut" THEN <<>>
    ELSE IF op = "handler" THEN Answer(req)
    ELSE out \o (IF more THEN Pieces(req, pos, Requests[req].size) ELSE <<>>)

Exchange == INSTANCE HttpExchange WITH
    Scripts <- {Answers(c) : c \in Clients}, answers <- Answers(script),
    last <- served, left <- Remaining, open <- (sock = "open")

(* Every answer reaches the client whole, once, and after the one before   *)
(* it, however the file is cut in chunks and whatever times out.           *)
AnswersWholeInOrder == Exchange!Spec

(* The resource function of a request finds its own content first, and     *)
(* nothing else if the client waits for each answer: what read_until took  *)
(* beyond the head belongs to this request then.                           *)
OwnContent ==
    op \in {"handler", "write"} =>
        /\ IsPrefix(Body(req), content)
        /\ ~script.pipelines => content = Body(req)

(* The connection of a patient client goes on to the next request unless   *)
(* the program has a reason to end it: its bytes are never garbled.        *)
EndsForCause ==
    [][op' = "none" /\ op # "none" /\ ~script.pipelines =>
          \/ sock = "shut" \/ op = "accept"
          \/ op = "write" /\ ~Requests[req].keep
          \/ op = "head" /\ Requests[buf[1][1]].kind \in {"none", "length"}
          \/ op = "content" /\ Requests[req].kind = "none"]_vars

(* No connection stays open for ever, whatever its client leaves undone:   *)
(* each operation has its timer.                                           *)
NoneForgotten == <>[](op = "none" /\ sock = "shut")
=============================================================================
