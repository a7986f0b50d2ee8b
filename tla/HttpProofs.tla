------------------------------- MODULE HttpProofs -------------------------------
(***************************************************************************)
(* What holds of HttpConnection for every client, whatever requests it     *)
(* sends and of whatever lengths, and for every size of buffer: its types, *)
(* that a resource function finds its own content, that a connection ends  *)
(* for a cause, and that it implements HttpExchange.                       *)
(*                                                                         *)
(* The invariant says where in the stream the buffer lies: it holds the    *)
(* tokens taken last, and at each operation these begin at a known place.  *)
(***************************************************************************)
EXTENDS HttpConnection, SequenceFacts

-----------------------------------------------------------------------------
(* The stream: requests one behind the other, the first End(n) tokens      *)
(* being those of the first n.                                             *)
Token    == Nat \X {"head", "end", "body"}
Whole(i) == HeadOf(i) \o Body(i)
End(i)   == Len(Upto(i))

(* A client sends a finite sequence of well-formed requests.               *)
LEMMA RequestTypes ==
    ASSUME script \in Clients
    PROVE  /\ Len(Requests) \in Nat /\ Numbers = 1..Len(Requests)
           /\ \A i \in Numbers : /\ Requests[i].kind \in Kinds /\ Requests[i].body \in Nat
                                 /\ Requests[i].size \in Nat /\ Requests[i].keep \in BOOLEAN
  <1> DEFINE R == [kind : Kinds, body : Nat, size : Nat, keep : BOOLEAN]
  <1>1. Requests \in Seq(R)
    BY ClientAssumption DEF Requests
  <1>2. Len(Requests) \in Nat /\ Numbers = 1..Len(Requests)
    BY <1>1 DEF Numbers
  <1>3. ASSUME NEW i \in Numbers
        PROVE  /\ Requests[i].kind \in Kinds /\ Requests[i].body \in Nat
               /\ Requests[i].size \in Nat /\ Requests[i].keep \in BOOLEAN
    <2> HIDE DEF R
    <2>1. Requests[i] \in R
      BY <1>1, <1>2, ElementOfSeq
    <2> USE DEF R
    <2> QED  BY <2>1
  <1> QED  BY <1>2, <1>3

(* A request on the wire: two tokens of head and then its content.         *)
LEMMA WholeIs ==
    ASSUME script \in Clients, NEW i \in Numbers
    PROVE  /\ Whole(i) \in Seq(Token) /\ Len(Whole(i)) = 2 + Requests[i].body
           /\ Whole(i)[1] = <<i, "head">> /\ Whole(i)[2] = <<i, "end">>
           /\ \A k \in 1..Requests[i].body : Whole(i)[2 + k] = <<i, "body">>
  <1>1. /\ HeadOf(i) \in Seq(Token) /\ Len(HeadOf(i)) = 2
        /\ HeadOf(i)[1] = <<i, "head">> /\ HeadOf(i)[2] = <<i, "end">>
    BY RequestTypes DEF HeadOf, Token
  <1>2. /\ Body(i) \in Seq(Token) /\ Len(Body(i)) = Requests[i].body
        /\ \A k \in 1..Requests[i].body : Body(i)[k] = <<i, "body">>
    <2>1. Requests[i].body \in Nat /\ i \in Nat
      BY RequestTypes
    <2>2. Body(i) \in [1..Requests[i].body -> Token]
      BY <2>1 DEF Body, Token
    <2> QED  BY <2>1, <2>2, FunctionIsSeq DEF Body
  <1>3. Requests[i].body \in Nat
    BY RequestTypes
  <1>4. /\ Whole(i) \in Seq(Token) /\ Len(Whole(i)) = 2 + Requests[i].body
        /\ \A k \in 1..(2 + Requests[i].body) :
              Whole(i)[k] = IF k <= 2 THEN HeadOf(i)[k] ELSE Body(i)[k - 2]
    <2> DEFINE s == HeadOf(i)
               b == Body(i)
    <2>1. s \in Seq(Token) /\ b \in Seq(Token)
      BY <1>1, <1>2
    <2>2. /\ Whole(i) \in Seq(Token) /\ Len(Whole(i)) = Len(s) + Len(b)
          /\ \A k \in 1..(Len(s) + Len(b)) :
                Whole(i)[k] = IF k <= Len(s) THEN s[k] ELSE b[k - Len(s)]
      <3> HIDE DEF s, b
      <3>1. Whole(i) = s \o b
        BY DEF Whole, s, b
      <3> QED  BY <2>1, <3>1, ConcatProperties
    <2> QED  BY <1>1, <1>2, <2>2
  <1>5. ASSUME NEW k \in 1..Requests[i].body PROVE Whole(i)[2 + k] = <<i, "body">>
    <2>1. 2 + k \in 1..(2 + Requests[i].body) /\ ~(2 + k <= 2) /\ 2 + k - 2 = k
      BY <1>3
    <2> QED  BY <1>2, <1>4, <2>1
  <1>6. Whole(i)[1] = <<i, "head">> /\ Whole(i)[2] = <<i, "end">>
    <2>1. 1 \in 1..(2 + Requests[i].body) /\ 2 \in 1..(2 + Requests[i].body)
      BY <1>3
    <2> QED  BY <1>1, <1>4, <2>1
  <1> QED  BY <1>4, <1>5, <1>6

(* The requests up to one follow each other without a gap.                 *)
LEMMA UptoIs ==
    ASSUME script \in Clients
    PROVE  /\ Upto(0) = <<>>
           /\ \A n \in 0..Len(Requests) : Upto(n) \in Seq(Token) /\ End(n) \in Nat
           /\ \A n \in Nat : n + 1 \in Numbers => Upto(n + 1) = Upto(n) \o Whole(n + 1)
  <1> DEFINE W(n) == [i \in 1..n |-> Whole(i)]
  <1>0. \A n : Upto(n) = FlattenSeq(W(n))
    BY DEF Upto, Whole
  <1>1. \A n \in 0..Len(Requests) : W(n) \in Seq(Seq(Token)) /\ Len(W(n)) = n
    BY RequestTypes, WholeIs
  <1>2. Upto(0) = <<>>
    <2>1. W(0) = <<>> /\ Len(W(0)) = 0
      OBVIOUS
    <2> QED  BY <1>0, <2>1, FlattenEmpty
  <1>3. \A n \in 0..Len(Requests) : Upto(n) \in Seq(Token) /\ End(n) \in Nat
    <2> HIDE DEF W
    <2>1. ASSUME NEW n \in 0..Len(Requests) PROVE Upto(n) \in Seq(Token)
      BY <1>0, <1>1, FlattenType
    <2> QED  BY <2>1 DEF End
  <1>4. ASSUME NEW n \in Nat, n + 1 \in Numbers
        PROVE  Upto(n + 1) = Upto(n) \o Whole(n + 1)
    <2>1. n \in 0..Len(Requests) /\ n + 1 \in 0..Len(Requests)
      BY <1>4, RequestTypes
    <2>2. W(n + 1) = Append(W(n), Whole(n + 1))
      BY <2>1
    <2>3. Whole(n + 1) \in Seq(Token)
      BY <1>4, WholeIs
    <2> HIDE DEF W
    <2> QED  BY <1>0, <1>1, <2>1, <2>2, <2>3, FlattenAppend
  <1> QED  BY <1>2, <1>3, <1>4

(* Where the next request begins, and what stands there.                   *)
LEMMA EndStep ==
    ASSUME script \in Clients, NEW n \in Nat, n + 1 \in Numbers
    PROVE  /\ End(n) \in Nat /\ End(n + 1) = End(n) + 2 + Requests[n + 1].body
           /\ \A k \in 1..End(n) : Upto(n + 1)[k] = Upto(n)[k]
           /\ Upto(n + 1)[End(n) + 1] = <<n + 1, "head">>
           /\ Upto(n + 1)[End(n) + 2] = <<n + 1, "end">>
           /\ \A k \in 1..Requests[n + 1].body :
                 Upto(n + 1)[End(n) + 2 + k] = <<n + 1, "body">>
  <1> DEFINE b == Requests[n + 1].body
             w == Whole(n + 1)
  <1>1. n \in 0..Len(Requests) /\ b \in Nat
    BY RequestTypes
  <1>2. /\ w \in Seq(Token) /\ Len(w) = 2 + b
        /\ w[1] = <<n + 1, "head">> /\ w[2] = <<n + 1, "end">>
        /\ \A k \in 1..b : w[2 + k] = <<n + 1, "body">>
    BY WholeIs
  <1>3. Upto(n) \in Seq(Token) /\ End(n) \in Nat /\ Upto(n + 1) = Upto(n) \o w
    BY <1>1, UptoIs
  <1> HIDE DEF b, w
  <1>4. /\ End(n + 1) = End(n) + 2 + b
        /\ \A k \in 1..(End(n) + 2 + b) :
              Upto(n + 1)[k] = IF k <= End(n) THEN Upto(n)[k] ELSE w[k - End(n)]
    BY <1>1, <1>2, <1>3, ConcatProperties DEF End
  <1>5. \A k \in 1..End(n) : Upto(n + 1)[k] = Upto(n)[k]
    <2> TAKE k \in 1..End(n)
    <2>1. k \in 1..(End(n) + 2 + b) /\ k <= End(n)
      BY <1>1, <1>3
    <2> QED  BY <1>4, <2>1
  <1>6. \A k \in 1..(2 + b) : Upto(n + 1)[End(n) + k] = w[k]
    <2> TAKE k \in 1..(2 + b)
    <2> DEFINE m == End(n) + k
    <2>1. m \in 1..(End(n) + 2 + b) /\ ~(m <= End(n)) /\ m - End(n) = k
      BY <1>1, <1>3
    <2> HIDE DEF m
    <2>2. Upto(n + 1)[m] = w[k]
      BY <1>4, <2>1
    <2> QED  BY <2>2 DEF m
  <1>7. /\ Upto(n + 1)[End(n) + 1] = <<n + 1, "head">>
        /\ Upto(n + 1)[End(n) + 2] = <<n + 1, "end">>
    BY <1>1, <1>2, <1>6
  <1>8. ASSUME NEW k \in 1..b PROVE Upto(n + 1)[End(n) + 2 + k] = <<n + 1, "body">>
    <2>1. 2 + k \in 1..(2 + b) /\ End(n) + (2 + k) = End(n) + 2 + k
      BY <1>1, <1>3
    <2> QED  BY <1>2, <1>6, <2>1
  <1> QED  BY <1>3, <1>4, <1>5, <1>7, <1>8 DEF b

(* Each request lies behind the ones before it and leaves them as they     *)
(* are.                                                                    *)
LEMMA EndsRise ==
    ASSUME script \in Clients, NEW i \in 0..Len(Requests)
    PROVE  \A j \in i..Len(Requests) :
              /\ End(i) <= End(j)
              /\ \A k \in 1..End(i) : Upto(j)[k] = Upto(i)[k]
  <1> DEFINE D == {d \in Nat : i + d <= Len(Requests) =>
                     /\ End(i) <= End(i + d)
                     /\ \A k \in 1..End(i) : Upto(i + d)[k] = Upto(i)[k]}
  <1>1. Len(Requests) \in Nat /\ \A n \in 0..Len(Requests) : End(n) \in Nat
    BY RequestTypes, UptoIs
  <1>2. 0 \in D
    BY <1>1
  <1>3. ASSUME NEW d \in Nat, d \in D PROVE d + 1 \in D
    <2>1. SUFFICES ASSUME i + (d + 1) <= Len(Requests)
                   PROVE  /\ End(i) <= End(i + (d + 1))
                          /\ \A k \in 1..End(i) : Upto(i + (d + 1))[k] = Upto(i)[k]
      OBVIOUS
    <2> DEFINE n == i + d
    <2>2. n \in Nat /\ n + 1 \in Numbers /\ i + (d + 1) = n + 1 /\ n <= Len(Requests)
      BY <1>1, <2>1, RequestTypes
    <2>3. End(i) <= End(n) /\ \A k \in 1..End(i) : Upto(n)[k] = Upto(i)[k]
      BY <1>3, <2>2
    <2> HIDE DEF n
    <2>4. /\ End(n) \in Nat /\ End(n + 1) = End(n) + 2 + Requests[n + 1].body
          /\ \A k \in 1..End(n) : Upto(n + 1)[k] = Upto(n)[k]
          /\ Requests[n + 1].body \in Nat
      BY <2>2, EndStep, RequestTypes
    <2>5. End(i) \in Nat /\ End(i) <= End(n + 1)
      BY <1>1, <2>2, <2>3, <2>4
    <2>6. ASSUME NEW k \in 1..End(i) PROVE Upto(n + 1)[k] = Upto(i)[k]
      <3>1. k \in 1..End(n)
        BY <2>3, <2>4, <2>5
      <3> QED  BY <2>3, <2>4, <3>1
    <2> QED  BY <2>2, <2>5, <2>6
  <1> HIDE DEF D
  <1>4. Nat \subseteq D
    BY <1>2, <1>3, SetInduction
  <1>5. ASSUME NEW j \in i..Len(Requests) PROVE j - i \in Nat /\ i + (j - i) = j
    BY <1>1
  <1>6. ASSUME NEW j \in i..Len(Requests)
        PROVE /\ End(i) <= End(j)
              /\ \A k \in 1..End(i) : Upto(j)[k] = Upto(i)[k]
    <2>1. j - i \in D /\ i + (j - i) = j /\ j <= Len(Requests)
      BY <1>1, <1>4, <1>5
    <2> QED  BY <2>1 DEF D
  <1> QED  BY <1>6

(* The stream begins with the requests up to any one of them.              *)
LEMMA StreamIs ==
    ASSUME script \in Clients
    PROVE  /\ Stream \in Seq(Token) /\ Len(Stream) = End(Len(Requests))
           /\ \A n \in 0..Len(Requests) :
                 /\ End(n) \in 0..Len(Stream)
                 /\ \A k \in 1..End(n) : Stream[k] = Upto(n)[k]
  <1>1. Len(Requests) \in Nat
    BY RequestTypes
  <1>2. Stream \in Seq(Token) /\ Len(Stream) = End(Len(Requests))
    BY <1>1, UptoIs DEF Stream, End
  <1>3. ASSUME NEW n \in 0..Len(Requests)
        PROVE  /\ End(n) \in 0..Len(Stream)
               /\ \A k \in 1..End(n) : Stream[k] = Upto(n)[k]
    <2>1. Len(Requests) \in n..Len(Requests) /\ End(n) \in Nat
      BY <1>1, UptoIs
    <2>2. End(n) <= End(Len(Requests)) /\ \A k \in 1..End(n) : Upto(Len(Requests))[k] = Upto(n)[k]
      BY <2>1, EndsRise
    <2>3. End(Len(Requests)) \in Nat
      BY <1>1, UptoIs
    <2> QED  BY <1>2, <2>1, <2>2, <2>3 DEF Stream
  <1> QED  BY <1>2, <1>3

(* What stands in the stream behind the first n requests.                  *)
LEMMA RequestAt ==
    ASSUME script \in Clients, NEW n \in Nat, n + 1 \in Numbers
    PROVE  /\ End(n) \in Nat /\ End(n + 1) = End(n) + 2 + Requests[n + 1].body
           /\ End(n + 1) <= Len(Stream)
           /\ Stream[End(n) + 1] = <<n + 1, "head">>
           /\ Stream[End(n) + 2] = <<n + 1, "end">>
           /\ \A k \in 1..Requests[n + 1].body : Stream[End(n) + 2 + k] = <<n + 1, "body">>
  <1>1. n + 1 \in 0..Len(Requests) /\ Requests[n + 1].body \in Nat
    BY RequestTypes
  <1>2. End(n) \in Nat /\ End(n + 1) = End(n) + 2 + Requests[n + 1].body
    BY EndStep
  <1>3. End(n + 1) \in 0..Len(Stream) /\ Len(Stream) \in Nat
    BY <1>1, StreamIs
  <1>4. \A k \in 1..End(n + 1) : Stream[k] = Upto(n + 1)[k]
    BY <1>1, StreamIs
  <1>5. /\ End(n) + 1 \in 1..End(n + 1) /\ End(n) + 2 \in 1..End(n + 1)
        /\ \A k \in 1..Requests[n + 1].body : End(n) + 2 + k \in 1..End(n + 1)
    <2> DEFINE a == End(n)
               b == Requests[n + 1].body
    <2>1. a \in Nat /\ b \in Nat /\ End(n + 1) = a + 2 + b
      BY <1>1, <1>2
    <2> HIDE DEF a, b
    <2>2. a + 1 \in 1..(a + 2 + b) /\ a + 2 \in 1..(a + 2 + b)
      BY <2>1
    <2>3. \A k \in 1..b : a + 2 + k \in 1..(a + 2 + b)
      BY <2>1
    <2> QED  BY <2>1, <2>2, <2>3 DEF a, b
  <1>6. /\ Stream[End(n) + 1] = Upto(n + 1)[End(n) + 1]
        /\ Stream[End(n) + 2] = Upto(n + 1)[End(n) + 2]
    BY <1>4, <1>5
  <1>7. ASSUME NEW k \in 1..Requests[n + 1].body
        PROVE  Stream[End(n) + 2 + k] = <<n + 1, "body">>
    <2> DEFINE m == End(n) + 2 + k
    <2>1. m \in 1..End(n + 1) /\ Upto(n + 1)[m] = <<n + 1, "body">>
      BY <1>5, EndStep
    <2> HIDE DEF m
    <2>2. Stream[m] = <<n + 1, "body">>
      BY <1>4, <2>1
    <2> QED  BY <2>2 DEF m
  <1> QED  BY <1>2, <1>3, <1>6, <1>7, EndStep

(* Between the ends of two requests there is room for a head.              *)
LEMMA EndsApart ==
    ASSUME script \in Clients, NEW i \in 0..Len(Requests), NEW j \in 0..Len(Requests), i < j
    PROVE  End(i) \in Nat /\ End(j) \in Nat /\ End(i) + 2 <= End(j)
  <1>1. i \in Nat /\ i + 1 \in Numbers /\ i + 1 \in 0..Len(Requests) /\ j \in (i + 1)..Len(Requests)
    BY RequestTypes
  <1>2. End(i + 1) = End(i) + 2 + Requests[i + 1].body /\ Requests[i + 1].body \in Nat
    BY <1>1, EndStep, RequestTypes
  <1>3. End(i + 1) <= End(j)
    BY <1>1, EndsRise
  <1>4. End(i) \in Nat /\ End(i + 1) \in Nat /\ End(j) \in Nat
    BY <1>1, UptoIs
  <1> QED  BY <1>2, <1>3, <1>4

(* Every token of the stream lies within some request.                     *)
LEMMA Located ==
    ASSUME script \in Clients, NEW k \in 1..Len(Stream)
    PROVE  \E n \in Nat : n + 1 \in Numbers /\ End(n) < k /\ k <= End(n + 1)
  <1> DEFINE D == {m \in Nat : m <= Len(Requests) /\ k <= End(m) =>
                \E n \in Nat : n + 1 \in Numbers /\ End(n) < k /\ k <= End(n + 1)}
  <1>1. 0 \in D
    <2>1. End(0) = 0
      BY UptoIs DEF End
    <2> QED  BY <2>1, StreamIs
  <1>2. ASSUME NEW m \in Nat, m \in D PROVE m + 1 \in D
    <2>1. SUFFICES ASSUME m + 1 <= Len(Requests), k <= End(m + 1)
                   PROVE  \E n \in Nat : n + 1 \in Numbers /\ End(n) < k /\ k <= End(n + 1)
      OBVIOUS
    <2>2. m + 1 \in Numbers /\ m <= Len(Requests) /\ End(m) \in Nat
      BY <2>1, RequestTypes, UptoIs
    <2>3. CASE k <= End(m)
      BY <1>2, <2>2, <2>3
    <2>4. CASE ~(k <= End(m))
      <3>1. End(m) < k
        BY <2>2, <2>4, StreamIs
      <3> QED  BY <2>1, <2>2, <3>1
    <2> QED  BY <2>3, <2>4
  <1> HIDE DEF D
  <1>3. Nat \subseteq D
    BY <1>1, <1>2, SetInduction
  <1>4. Len(Requests) \in D /\ Len(Requests) \in Nat
    BY <1>3, RequestTypes
  <1>5. k <= End(Len(Requests))
    BY StreamIs
  <1> QED  BY <1>4, <1>5 DEF D

(* A head begins only where its request does.                              *)
LEMMA HeadAt ==
    ASSUME script \in Clients, NEW k \in 1..Len(Stream), NEW i, Stream[k] = <<i, "head">>
    PROVE  i \in Numbers /\ i - 1 \in Nat /\ k = End(i - 1) + 1
  <1>1. PICK n \in Nat : n + 1 \in Numbers /\ End(n) < k /\ k <= End(n + 1)
    BY Located
  <1>2. /\ End(n) \in Nat /\ End(n + 1) = End(n) + 2 + Requests[n + 1].body
        /\ Requests[n + 1].body \in Nat /\ k \in Nat
    <2>1. k \in Nat
      BY StreamIs
    <2> QED  BY <1>1, <2>1, RequestAt, RequestTypes
  <1>3. CASE k = End(n) + 1
    <2>1. Stream[k] = <<n + 1, "head">>
      BY <1>1, <1>3, RequestAt
    <2>2. i = n + 1
      BY <2>1
    <2> QED  BY <1>1, <1>3, <2>2
  <1>4. CASE k = End(n) + 2
    <2>1. Stream[k] = <<n + 1, "end">>
      BY <1>1, <1>4, RequestAt
    <2> QED  BY <2>1
  <1>5. CASE k > End(n) + 2
    <2> DEFINE b == k - (End(n) + 2)
    <2>1. b \in 1..Requests[n + 1].body /\ End(n) + 2 + b = k
      BY <1>1, <1>2, <1>5
    <2>2. Stream[k] = <<n + 1, "body">>
      <3> HIDE DEF b
      <3> QED  BY <1>1, <2>1, RequestAt
    <2> QED  BY <2>2
  <1> QED  BY <1>1, <1>2, <1>3, <1>4, <1>5

(* The tokens of the stream that come before a request.                    *)
First(i) == End(i - 1)

(* A request as it stands in the stream.                                   *)
LEMMA RequestIs ==
    ASSUME script \in Clients, NEW i \in Numbers
    PROVE  /\ First(i) \in Nat /\ Requests[i].body \in Nat
           /\ End(i) = First(i) + 2 + Requests[i].body /\ End(i) <= Len(Stream)
           /\ Stream[First(i) + 1] = <<i, "head">> /\ Stream[First(i) + 2] = <<i, "end">>
           /\ \A k \in 1..Requests[i].body : Stream[First(i) + 2 + k] = <<i, "body">>
  <1> DEFINE n == i - 1
  <1>1. n \in Nat /\ n + 1 = i /\ n + 1 \in Numbers /\ Requests[i].body \in Nat
    BY RequestTypes
  <1>2. First(i) = End(n)
    BY DEF First
  <1> HIDE DEF n
  <1> QED  BY <1>1, <1>2, RequestAt

(* The client decides what the stream and the answers are, and stays.      *)
LEMMA Steady ==
    ASSUME script' = script
    PROVE  /\ Stream' = Stream /\ Numbers' = Numbers /\ Requests' = Requests
           /\ \A i : End(i)' = End(i) /\ First(i)' = First(i) /\ Body(i)' = Body(i)
           /\ \A i : Answer(i)' = Answer(i)
           /\ \A i, from, to : Pieces(i, from, to)' = Pieces(i, from, to)
  BY DEF Stream, Numbers, Requests, End, First, Body, Answer, Pieces, Upto, HeadOf

-----------------------------------------------------------------------------
(* What each operation tells of the rest of the chain.                     *)
Shape ==
    /\ op = "accept" => taken = 0 /\ served = 0 /\ buf = <<>>
    /\ op = "content" => /\ req \in Numbers /\ served < req
                         /\ Requests[req].kind # "length"
                         /\ Len(buf) <= Requests[req].body
                         /\ ready = "ok" => Len(buf) = Requests[req].body
    /\ op \in {"handler", "write"} => req \in Numbers /\ served = req /\ buf = <<>>
    /\ op = "handler" => out = <<>> /\ ~more /\ ready = "no"
    /\ op = "write" /\ ready = "ok" => out = <<>>
    /\ op = "write" /\ more => pos \in 0..Requests[req].size
    /\ ready = "error" => sock = "shut"

(* The buffer holds what was taken last, and it was taken after the head   *)
(* of the request served last.                                             *)
Held ==
    /\ Len(buf) <= taken
    /\ \A k \in 1..Len(buf) : buf[k] = Stream[taken - Len(buf) + k]
    /\ op \in {"head", "handler", "write"} /\ served # 0 => First(served) + 2 <= taken - Len(buf)
    /\ op = "content" => taken - Len(buf) = First(req) + 2
    /\ op = "head" /\ ready = "ok" => \E k \in 1..Len(buf) : buf[k][2] = "end"

(* The resource function has found its own content first.                  *)
OwnPrefix == op \in {"handler", "write"} => IsPrefix(Body(req), content)

(* Tokens are of answers begun.                                            *)
Begun ==
    /\ \A k \in 1..Len(got) : got[k][1] <= served
    /\ \A k \in 1..Len(out) : out[k][1] <= served

(* A client that waits is at the request after the one served.             *)
InStep ==
    ~script.pipelines =>
        /\ op \in {"accept", "head"} => taken - Len(buf) = End(served)
        /\ op = "content" => req = served + 1
        /\ op \in {"handler", "write"} => content = Body(req) /\ taken = End(req)
        /\ \A i \in Numbers : End(i) < sent => i <= served

(* The inductive invariant: TypeOK and OwnContent follow from it.          *)
ConnInv == TypeOK /\ Shape /\ Held /\ OwnPrefix /\ Begun /\ InStep

(* A sequence is one of its own elements.                                  *)
LEMMA Elements ==
    ASSUME NEW S, NEW s \in Seq(S)
    PROVE  /\ DOMAIN s = 1..Len(s) /\ s \in Seq(ToSet(s))
           /\ \A k \in 1..Len(s) : s[k] \in ToSet(s)
           /\ \A x \in ToSet(s) : \E k \in 1..Len(s) : s[k] = x
  <1>1. DOMAIN s = 1..Len(s) /\ Len(s) \in Nat
    OBVIOUS
  <1>2. \A k \in 1..Len(s) : s[k] \in ToSet(s)
    BY <1>1 DEF ToSet
  <1>3. s \in [1..Len(s) -> ToSet(s)]
    BY <1>1, <1>2
  <1>4. s \in Seq(ToSet(s))
    BY <1>1, <1>3, FunctionIsSeq
  <1> QED  BY <1>1, <1>2, <1>4 DEF ToSet

(* What arrived with the head that was read.                               *)
Rest == SubSeq(buf, 3, Len(buf))

(* The head that was read is that of a request not yet served.             *)
LEMMA HeadIs ==
    ASSUME ConnInv, op = "head", Parsed(buf), NEW i, i = buf[1][1]
    PROVE  /\ i \in Numbers /\ taken - Len(buf) = First(i) /\ served < i
           /\ First(i) \in Nat
           /\ Rest \in Seq(ToSet(Stream)) /\ Len(Rest) + 2 = Len(buf)
           /\ \A k \in 1..Len(Rest) : Rest[k] = Stream[First(i) + 2 + k]
           /\ ~script.pipelines => i = served + 1
  <1>1. /\ script \in Clients /\ taken \in Nat /\ buf \in Seq(ToSet(Stream)) /\ Len(buf) \in Nat
        /\ Len(buf) <= taken /\ taken <= Len(Stream) /\ Len(Stream) \in Nat
        /\ served \in {0} \cup Numbers
        /\ \A k \in 1..Len(buf) : buf[k] = Stream[taken - Len(buf) + k]
    <2>1. script \in Clients /\ sent \in 0..Len(Stream) /\ taken \in 0..sent
      BY DEF ConnInv, TypeOK
    <2>2. Len(Stream) \in Nat
      BY <2>1, StreamIs
    <2> QED  BY <2>1, <2>2 DEF ConnInv, TypeOK, Held
  <1>2. /\ 2 <= Len(buf) /\ buf[1] = <<i, "head">>
    <2>1. PICK j \in Numbers : IsPrefix(HeadOf(j), buf)
      BY DEF Parsed
    <2>2. /\ HeadOf(j) \in Seq(Token) /\ Len(HeadOf(j)) = 2 /\ HeadOf(j)[1] = <<j, "head">>
      BY <1>1, <2>1, RequestTypes DEF HeadOf, Token
    <2>3. Len(HeadOf(j)) <= Len(buf) /\ \A k \in 1..Len(HeadOf(j)) : buf[k] = HeadOf(j)[k]
      BY <1>1, <2>1, <2>2, PrefixIs
    <2>4. buf[1] = <<j, "head">>
      BY <2>2, <2>3
    <2> QED  BY <2>2, <2>3, <2>4
  <1>3. i \in Numbers /\ i - 1 \in Nat /\ taken - Len(buf) = First(i) /\ First(i) \in Nat
    <2> DEFINE b == taken - Len(buf) + 1
    <2>1. b \in 1..Len(Stream) /\ Stream[b] = <<i, "head">>
      <3>1. 1 \in 1..Len(buf) /\ b \in 1..Len(Stream)
        BY <1>1, <1>2
      <3>2. buf[1] = Stream[b]
        BY <1>1, <3>1
      <3> QED  BY <1>2, <3>1, <3>2
    <2>2. i \in Numbers /\ i - 1 \in Nat /\ b = End(i - 1) + 1
      <3> HIDE DEF b
      <3> QED  BY <1>1, <2>1, HeadAt
    <2>3. First(i) \in Nat
      BY <1>1, <2>2, RequestIs
    <2> QED  BY <1>1, <2>2, <2>3 DEF First
  <1>4. i \in 1..Len(Requests) /\ Len(Requests) \in Nat /\ Numbers = 1..Len(Requests)
    BY <1>1, <1>3, RequestTypes
  <1>5. served < i
    <2>1. CASE served = 0
      BY <1>4, <2>1
    <2>2. CASE served \in Numbers /\ ~(served < i)
      <3>1. First(served) + 2 <= First(i)
        BY <1>3, <1>4, <2>2 DEF ConnInv, Held
      <3>2. served - 1 \in 0..Len(Requests) /\ i - 1 \in 0..Len(Requests) /\ i - 1 <= served - 1
        BY <1>4, <2>2
      <3>3. CASE i - 1 = served - 1
        BY <1>3, <3>1, <3>3 DEF First
      <3>4. CASE i - 1 < served - 1
        <4>1. End(i - 1) + 2 <= End(served - 1) /\ End(i - 1) \in Nat /\ End(served - 1) \in Nat
          BY <1>1, <3>2, <3>4, EndsApart
        <4> QED  BY <3>1, <4>1 DEF First
      <3> QED  BY <1>4, <2>2, <3>2, <3>3, <3>4
    <2> QED  BY <1>1, <2>1, <2>2
  <1>6. ASSUME ~script.pipelines PROVE i = served + 1
    <2>1. End(served) = End(i - 1)
      BY <1>3, <1>6 DEF ConnInv, InStep, First
    <2>2. served \in 0..Len(Requests) /\ i - 1 \in 0..Len(Requests)
      BY <1>1, <1>4
    <2>3. ~(served < i - 1)
      BY <1>1, <2>1, <2>2, EndsApart
    <2> QED  BY <1>5, <1>4, <2>2, <2>3
  <1>7. /\ Rest \in Seq(ToSet(Stream)) /\ Len(Rest) + 2 = Len(buf)
        /\ \A k \in 1..Len(Rest) : Rest[k] = buf[2 + k]
    <2>1. \A k \in 3..Len(buf) : buf[k] \in ToSet(Stream)
      BY <1>1, ElementOfSeq
    <2>2. /\ Rest \in Seq(ToSet(Stream))
          /\ Len(Rest) = IF 3 <= Len(buf) THEN Len(buf) - 3 + 1 ELSE 0
          /\ \A k \in 1..(Len(buf) - 3 + 1) : Rest[k] = buf[3 + k - 1]
      BY <1>1, <2>1, SubSeqProperties DEF Rest
    <2>3. Len(Rest) + 2 = Len(buf)
      <3>1. Len(buf) \in Nat /\ 2 <= Len(buf)
        BY <1>1, <1>2
      <3>2. 3 <= Len(buf) \/ Len(buf) = 2
        BY <3>1
      <3>3. 3 <= Len(buf) => Len(Rest) + 2 = Len(buf)
        BY <2>2, <3>1
      <3>4. Len(buf) = 2 => Len(Rest) + 2 = Len(buf)
        BY <2>2, <3>1
      <3> QED  BY <3>2, <3>3, <3>4
    <2>4. ASSUME NEW k \in 1..Len(Rest) PROVE Rest[k] = buf[2 + k]
      <3>1. k \in 1..(Len(buf) - 3 + 1) /\ 3 + k - 1 = 2 + k
        BY <1>1, <2>3
      <3> QED  BY <2>2, <3>1
    <2> QED  BY <2>2, <2>3, <2>4
  <1>8. ASSUME NEW k \in 1..Len(Rest) PROVE Rest[k] = Stream[First(i) + 2 + k]
    <2>1. Len(buf) \in Nat /\ Len(Rest) \in Nat /\ Len(Rest) + 2 = Len(buf) /\ First(i) \in Nat
      BY <1>1, <1>3, <1>7
    <2>2. 2 + k \in 1..Len(buf) /\ First(i) + (2 + k) = First(i) + 2 + k
      BY <2>1
    <2>3. buf[2 + k] = Stream[First(i) + (2 + k)]
      BY <1>1, <1>3, <2>2
    <2> QED  BY <1>7, <2>2, <2>3
  <1> QED  BY <1>3, <1>5, <1>6, <1>7, <1>8

-----------------------------------------------------------------------------
Tokens == Numbers \X Nat

(* Pieces of a file are as long as their bounds say.                       *)
LEMMA PiecesIs ==
    ASSUME script \in Clients, NEW i \in Numbers, NEW from \in Nat, NEW to \in Nat, from <= to
    PROVE  /\ Pieces(i, from, to) \in Seq(Tokens) /\ Len(Pieces(i, from, to)) = to - from
           /\ \A k \in 1..(to - from) : Pieces(i, from, to)[k] = <<i, from + k>>
  <1>1. to - from \in Nat /\ Pieces(i, from, to) \in [1..(to - from) -> Tokens]
    BY RequestTypes DEF Pieces, Tokens
  <1>2. \A k \in 1..(to - from) : Pieces(i, from, to)[k] = <<i, from + k>>
    BY DEF Pieces
  <1> HIDE DEF Pieces
  <1> QED  BY <1>1, <1>2, FunctionIsSeq

(* Adjacent pieces of a file join.                                         *)
LEMMA PiecesJoin ==
    ASSUME script \in Clients, NEW i \in Numbers,
           NEW a \in Nat, NEW b \in Nat, NEW c \in Nat, a <= b, b <= c
    PROVE  Pieces(i, a, b) \o Pieces(i, b, c) = Pieces(i, a, c)
  <1> DEFINE s == Pieces(i, a, b)
             t == Pieces(i, b, c)
             u == Pieces(i, a, c)
  <1>1. /\ s \in Seq(Tokens) /\ Len(s) = b - a
        /\ \A k \in 1..(b - a) : s[k] = <<i, a + k>>
    BY PiecesIs
  <1>2. /\ t \in Seq(Tokens) /\ Len(t) = c - b
        /\ \A k \in 1..(c - b) : t[k] = <<i, b + k>>
    BY PiecesIs
  <1>3. /\ u \in Seq(Tokens) /\ Len(u) = c - a
        /\ \A k \in 1..(c - a) : u[k] = <<i, a + k>>
    <2>1. a <= c
      OBVIOUS
    <2> QED  BY <2>1, PiecesIs
  <1> HIDE DEF s, t, u
  <1>4. /\ s \o t \in Seq(Tokens) /\ Len(s \o t) = Len(s) + Len(t)
        /\ \A k \in 1..(Len(s) + Len(t)) :
              (s \o t)[k] = IF k <= Len(s) THEN s[k] ELSE t[k - Len(s)]
    BY <1>1, <1>2, ConcatProperties
  <1>5. Len(s \o t) = c - a /\ Len(s) + Len(t) = c - a
    BY <1>1, <1>2, <1>4
  <1>6. ASSUME NEW k \in 1..(c - a) PROVE (s \o t)[k] = u[k]
    <2>1. u[k] = <<i, a + k>>
      BY <1>3
    <2>2. (s \o t)[k] = IF k <= b - a THEN s[k] ELSE t[k - (b - a)]
      BY <1>1, <1>4, <1>5
    <2>3. CASE k <= b - a
      BY <1>1, <2>1, <2>2, <2>3
    <2>4. CASE ~(k <= b - a)
      <3> DEFINE m == k - (b - a)
      <3>1. m \in 1..(c - b) /\ b + m = a + k
        BY <2>4
      <3> HIDE DEF m
      <3>2. t[m] = <<i, b + m>>
        BY <1>2, <3>1
      <3> QED  BY <2>1, <2>2, <2>4, <3>1, <3>2 DEF m
    <2> QED  BY <2>3, <2>4
  <1>7. s \o t = u
    BY <1>3, <1>4, <1>5, <1>6, SeqEqual
  <1> QED  BY <1>7 DEF s, t, u

(* What an answer is made of: tokens of its request, a file behind a       *)
(* header.                                                                 *)
LEMMA AnswerIs ==
    ASSUME script \in Clients, NEW i \in Numbers
    PROVE  /\ Answer(i) \in Seq(Tokens) /\ \A k \in 1..Len(Answer(i)) : Answer(i)[k][1] = i
           /\ Requests[i].kind = "throws" => Answer(i) = <<>>
           /\ Requests[i].kind = "file" =>
                 Answer(i) = <<<<i, 0>>>> \o Pieces(i, 0, Requests[i].size)
  <1> DEFINE r == Requests[i]
             n == IF r.kind = "file" THEN r.size ELSE 1
             a == [k \in 1..(n + 1) |-> <<i, k - 1>>]
  <1>1. i \in Numbers /\ n \in Nat /\ i \in Nat /\ r.size \in Nat
    BY RequestTypes
  <1>2. Answer(i) = IF r.kind = "throws" THEN <<>> ELSE a
    BY DEF Answer, Answers, AnswerTo, Requests, Numbers
  <1>3. a \in [1..(n + 1) -> Tokens]
    BY <1>1 DEF Tokens
  <1>4. \A k \in 1..(n + 1) : a[k] = <<i, k - 1>>
    OBVIOUS
  <1>5. r.kind = "file" => n = r.size
    OBVIOUS
  <1> HIDE DEF r, n, a
  <1>6. a \in Seq(Tokens) /\ Len(a) = n + 1
    BY <1>1, <1>3, FunctionIsSeq
  <1>7. Answer(i) \in Seq(Tokens) /\ \A k \in 1..Len(Answer(i)) : Answer(i)[k][1] = i
    BY <1>2, <1>4, <1>6, EmptySeq
  <1>8. ASSUME r.kind = "file" PROVE a = <<<<i, 0>>>> \o Pieces(i, 0, r.size)
    <2> DEFINE s == <<<<i, 0>>>>
               t == Pieces(i, 0, r.size)
    <2>1. s \in Seq(Tokens) /\ Len(s) = 1 /\ s[1] = <<i, 0>>
      BY <1>1 DEF Tokens
    <2>2. /\ t \in Seq(Tokens) /\ Len(t) = r.size
          /\ \A k \in 1..r.size : t[k] = <<i, k>>
      <3>1. /\ r.size - 0 = r.size /\ \A k \in 1..r.size : 0 + k = k
            /\ 0 \in Nat /\ 0 <= r.size
        BY <1>1
      <3>2. /\ t \in Seq(Tokens) /\ Len(t) = r.size - 0
            /\ \A k \in 1..(r.size - 0) : t[k] = <<i, 0 + k>>
        BY <1>1, <3>1, PiecesIs
      <3> QED  BY <3>1, <3>2
    <2> HIDE DEF s, t
    <2>3. /\ s \o t \in Seq(Tokens) /\ Len(s \o t) = Len(s) + Len(t)
          /\ \A k \in 1..(Len(s) + Len(t)) :
                (s \o t)[k] = IF k <= Len(s) THEN s[k] ELSE t[k - Len(s)]
      BY <2>1, <2>2, ConcatProperties
    <2>4. Len(s \o t) = Len(a) /\ Len(s) + Len(t) = n + 1
      BY <1>1, <1>5, <1>6, <1>8, <2>1, <2>2, <2>3
    <2>5. ASSUME NEW k \in 1..(n + 1) PROVE (s \o t)[k] = a[k]
      <3>1. (s \o t)[k] = IF k <= 1 THEN s[k] ELSE t[k - 1]
        BY <2>1, <2>3, <2>4
      <3>2. CASE k = 1
        <4>1. 1 \in 1..(n + 1) /\ 1 - 1 = 0
          BY <1>1
        <4>2. a[1] = <<i, 0>>
          BY <1>4, <4>1
        <4>3. (s \o t)[1] = s[1]
          BY <2>1, <2>3, <2>4, <4>1
        <4> QED  BY <2>1, <3>2, <4>2, <4>3
      <3>3. CASE k > 1
        <4>1. k - 1 \in 1..r.size /\ ~(k <= 1)
          BY <1>1, <1>5, <1>8, <3>3
        <4>2. t[k - 1] = <<i, k - 1>>
          BY <2>2, <4>1
        <4>3. (s \o t)[k] = t[k - 1]
          BY <3>1, <4>1
        <4> QED  BY <1>4, <4>2, <4>3
      <3>4. k = 1 \/ k > 1
        BY <1>1
      <3> QED  BY <3>2, <3>3, <3>4
    <2>6. s \o t = a
      BY <1>6, <2>3, <2>4, <2>5, SeqEqual
    <2> QED  BY <2>6 DEF s, t
  <1> QED  BY <1>2, <1>7, <1>8 DEF r

(* A chunk and what is left of the file are what was left before.          *)
LEMMA ChunkIs ==
    ASSUME script \in Clients, NEW i \in Numbers, NEW from \in 0..Requests[i].size,
           NEW header \in Seq(Tokens), \A k \in 1..Len(header) : header[k][1] = i,
           SendChunk(i, header, from)
    PROVE  /\ out' \in Seq(Tokens) /\ \A k \in 1..Len(out') : out'[k][1] = i
           /\ pos' \in 0..Requests[i].size /\ more' \in BOOLEAN
           /\ out' \o (IF more' THEN Pieces(i, pos', Requests[i].size) ELSE <<>>)
                = header \o Pieces(i, from, Requests[i].size)
  <1> DEFINE size == Requests[i].size
             to   == Least(from + ChunkSize, size)
             s    == Pieces(i, from, to)
             t    == Pieces(i, to, size)
  <1>1. size \in Nat /\ ChunkSize \in Nat /\ from \in Nat
    BY RequestTypes, ClientAssumption
  <1>2. /\ to \in 0..size /\ to \in Nat /\ from <= to /\ to <= size
        /\ to # from + ChunkSize => to = size
    BY <1>1 DEF Least
  <1>3. /\ out' = header \o s /\ pos' = to /\ more' = (to = from + ChunkSize)
    BY DEF SendChunk
  <1>4. /\ s \in Seq(Tokens) /\ t \in Seq(Tokens) /\ s \o t = Pieces(i, from, size)
        /\ Len(s) = to - from
        /\ \A k \in 1..(to - from) : s[k] = <<i, from + k>>
    <2> HIDE DEF to, size
    <2>1. from <= size /\ from <= to /\ to <= size /\ to \in Nat /\ size \in Nat /\ from \in Nat
      BY <1>1, <1>2
    <2>2. s \o t = Pieces(i, from, size)
      BY <2>1, PiecesJoin
    <2>3. t \in Seq(Tokens)
      BY <2>1, PiecesIs
    <2>4. /\ s \in Seq(Tokens) /\ Len(s) = to - from
          /\ \A k \in 1..(to - from) : s[k] = <<i, from + k>>
      BY <2>1, PiecesIs
    <2> HIDE DEF s, t
    <2> QED  BY <2>2, <2>3, <2>4
  <1> HIDE DEF to, size, s, t
  <1>5. /\ out' \in Seq(Tokens) /\ Len(out') = Len(header) + Len(s)
        /\ \A k \in 1..(Len(header) + Len(s)) :
              out'[k] = IF k <= Len(header) THEN header[k] ELSE s[k - Len(header)]
    BY <1>3, <1>4, ConcatProperties
  <1>6. ASSUME NEW k \in 1..Len(out') PROVE out'[k][1] = i
    <2>1. Len(header) \in Nat /\ Len(s) \in Nat /\ Len(s) = to - from
      BY <1>4, LenProperties
    <2>2. CASE k <= Len(header)
      BY <1>5, <2>1, <2>2
    <2>3. CASE ~(k <= Len(header))
      <3>1. k - Len(header) \in 1..(to - from)
        BY <1>5, <2>1, <2>3
      <3>2. s[k - Len(header)] = <<i, from + (k - Len(header))>>
        BY <1>4, <3>1
      <3>3. out'[k] = s[k - Len(header)]
        BY <1>5, <2>3
      <3> QED  BY <3>2, <3>3
    <2> QED  BY <2>2, <2>3
  <1>7. out' \o (IF more' THEN Pieces(i, pos', size) ELSE <<>>) = header \o Pieces(i, from, size)
    <2>1. (header \o s) \o t = header \o (s \o t)
      <3>1. s \in Seq(Tokens) /\ t \in Seq(Tokens) /\ header \in Seq(Tokens)
        BY <1>4
      <3> QED  BY <3>1, ConcatAssociative
    <2>2. CASE more'
      BY <1>3, <1>4, <2>1, <2>2 DEF t
    <2>3. CASE ~more'
      <3>1. to = size /\ s = Pieces(i, from, size)
        BY <1>2, <1>3, <2>3 DEF s
      <3>2. out' \o <<>> = out'
        BY <1>5, ConcatEmptySeq
      <3> QED  BY <1>3, <2>3, <3>1, <3>2
    <2> QED  BY <2>2, <2>3
  <1>8. pos' \in 0..size /\ more' \in BOOLEAN
    BY <1>2, <1>3
  <1> QED  BY <1>5, <1>6, <1>7, <1>8 DEF size

-----------------------------------------------------------------------------
(* Bytes received are appended to the buffer as they stand in the stream.  *)
LEMMA ReceivedIs ==
    ASSUME script \in Clients, NEW u \in Int, u <= Len(Stream), Receive(u),
           taken \in Nat, buf \in Seq(ToSet(Stream)), Len(buf) <= taken,
           \A k \in 1..Len(buf) : buf[k] = Stream[taken - Len(buf) + k]
    PROVE  /\ taken' \in Nat /\ taken < taken' /\ taken' <= u
           /\ buf' \in Seq(ToSet(Stream)) /\ Len(buf') \in Nat /\ Len(buf') <= taken'
           /\ taken' - Len(buf') = taken - Len(buf)
           /\ \A k \in 1..Len(buf') : buf'[k] = Stream[taken - Len(buf) + k]
  <1>1. PICK n \in (taken + 1)..u : taken' = n /\ buf' = buf \o SubSeq(Stream, taken + 1, n)
    BY DEF Receive
  <1> DEFINE s == SubSeq(Stream, taken + 1, n)
  <1>2. Stream \in Seq(Token) /\ Len(Stream) \in Nat /\ Len(buf) \in Nat
    BY StreamIs, LenProperties
  <1>3. n \in Nat /\ taken + 1 <= n /\ n <= Len(Stream)
    BY <1>2
  <1>4. /\ s \in Seq(ToSet(Stream)) /\ Len(s) = n - taken
        /\ \A k \in 1..(n - taken) : s[k] = Stream[taken + k]
    <2>1. \A k \in (taken + 1)..n : Stream[k] \in ToSet(Stream)
      <3> TAKE k \in (taken + 1)..n
      <3>1. k \in 1..Len(Stream)
        BY <1>2, <1>3
      <3> QED  BY <1>2, <3>1, Elements
    <2>2. /\ s \in Seq(ToSet(Stream))
          /\ Len(s) = IF taken + 1 <= n THEN n - (taken + 1) + 1 ELSE 0
          /\ \A k \in 1..(n - (taken + 1) + 1) : s[k] = Stream[taken + 1 + k - 1]
      BY <1>3, <2>1, SubSeqProperties
    <2>3. Len(s) = n - taken /\ n - (taken + 1) + 1 = n - taken
      BY <1>3, <2>2
    <2>4. ASSUME NEW k \in 1..(n - taken) PROVE s[k] = Stream[taken + k]
      <3>1. taken + 1 + k - 1 = taken + k
        BY <1>3
      <3> QED  BY <2>2, <2>3, <3>1
    <2> QED  BY <2>2, <2>3, <2>4
  <1> HIDE DEF s
  <1>5. /\ buf' \in Seq(ToSet(Stream)) /\ Len(buf') = Len(buf) + Len(s)
        /\ \A k \in 1..(Len(buf) + Len(s)) :
              buf'[k] = IF k <= Len(buf) THEN buf[k] ELSE s[k - Len(buf)]
    BY <1>1, <1>4, ConcatProperties DEF s
  <1>6. Len(buf') = Len(buf) + (n - taken)
    BY <1>4, <1>5
  <1>7. ASSUME NEW k \in 1..Len(buf') PROVE buf'[k] = Stream[taken - Len(buf) + k]
    <2>1. buf'[k] = IF k <= Len(buf) THEN buf[k] ELSE s[k - Len(buf)]
      BY <1>5
    <2>2. CASE k <= Len(buf)
      BY <1>2, <2>1, <2>2
    <2>3. CASE ~(k <= Len(buf))
      <3> DEFINE m == k - Len(buf)
      <3>1. m \in 1..(n - taken) /\ taken + m = taken - Len(buf) + k
        BY <1>2, <1>3, <1>6, <2>3
      <3> HIDE DEF m
      <3>2. s[m] = Stream[taken + m]
        BY <1>4, <3>1
      <3> QED  BY <2>1, <2>3, <3>1, <3>2 DEF m
    <2> QED  BY <2>2, <2>3
  <1>8. taken' = n /\ Len(buf') \in Nat /\ Len(buf') <= n /\ n - Len(buf') = taken - Len(buf)
    BY <1>1, <1>2, <1>3, <1>6
  <1> QED  BY <1>3, <1>5, <1>7, <1>8

-----------------------------------------------------------------------------
(* ConnInv step by step.                                                   *)

(* What most steps need of the types.                                      *)
LEMMA Facts ==
    ASSUME ConnInv
    PROVE  /\ script \in Clients /\ Len(Requests) \in Nat /\ Numbers = 1..Len(Requests)
           /\ Len(Stream) \in Nat /\ sent \in Nat /\ sent <= Len(Stream)
           /\ taken \in Nat /\ taken <= sent /\ served \in 0..Len(Requests)
           /\ buf \in Seq(ToSet(Stream)) /\ Len(buf) \in Nat
           /\ out \in Seq(Tokens) /\ got \in Seq(Tokens)
           /\ op \in {"accept", "head", "content", "handler", "write", "none"}
           /\ req \in {0} \cup Numbers
  <1>1. script \in Clients
    BY DEF ConnInv, TypeOK
  <1>2. Len(Stream) \in Nat
    BY <1>1, StreamIs
  <1> QED  BY <1>1, <1>2, RequestTypes DEF ConnInv, TypeOK, Tokens

(* A token of an answer names its request.                                 *)
LEMMA TokenNumber ==
    ASSUME script \in Clients, NEW x \in Tokens
    PROVE  x[1] \in Numbers /\ x[1] \in Nat
  <1>1. x[1] \in Numbers
    BY DEF Tokens
  <1> QED  BY <1>1, RequestTypes

(* A connection that is given up.                                          *)
LEMMA DropKeeps ==
    ASSUME ConnInv, Drop, late' \in BOOLEAN
    PROVE  ConnInv'
  <1>1. script' = script /\ sent' = sent /\ got' = got /\ taken' = taken /\ served' = served
    BY DEF Drop, client
  <1>2. /\ op' = "none" /\ ready' = "no" /\ timer' = "none" /\ buf' = <<>> /\ req' = 0
        /\ content' = <<>> /\ out' = <<>> /\ pos' = 0 /\ more' = FALSE
        /\ sock' \in {"open", "shut"}
    BY DEF Drop, NoRequest, NoAnswer, ConnInv, TypeOK
  <1>3. Len(buf') = 0 /\ Len(out') = 0
    BY <1>2
  <1>4. TypeOK'
    <2>1. Stream' = Stream /\ Numbers' = Numbers
      BY <1>1, Steady
    <2>2. <<>> \in Seq(ToSet(Stream)) /\ <<>> \in Seq(Numbers \X Nat)
      BY EmptySeq
    <2> QED  BY <1>1, <1>2, <2>1, <2>2 DEF TypeOK, ConnInv
  <1>5. Shape'
    BY <1>2 DEF Shape
  <1>6. Held'
    BY <1>1, <1>2, <1>3, Facts DEF Held
  <1>7. OwnPrefix'
    BY <1>2 DEF OwnPrefix
  <1>8. Begun'
    BY <1>1, <1>2, <1>3 DEF Begun, ConnInv
  <1>9. InStep'
    BY <1>1, <1>2, Steady DEF InStep, ConnInv
  <1> QED  BY <1>4, <1>5, <1>6, <1>7, <1>8, <1>9 DEF ConnInv

(* The next head is awaited with an empty buffer: nothing taken is lost if *)
(* the client waits.                                                       *)
LEMMA ReadRequestKeeps ==
    ASSUME ConnInv, op \in {"accept", "write"}, ReadRequest, late' \in BOOLEAN
    PROVE  ConnInv'
  <1>1. /\ script' = script /\ sent' = sent /\ got' = got /\ taken' = taken /\ served' = served
        /\ sock' = sock
    BY DEF ReadRequest, client
  <1>2. /\ op' = "head" /\ ready' = "no" /\ timer' = "armed" /\ buf' = <<>> /\ req' = 0
        /\ content' = <<>> /\ out' = <<>> /\ pos' = 0 /\ more' = FALSE
    BY DEF ReadRequest, NoRequest, NoAnswer, Start
  <1>3. Len(buf') = 0 /\ Len(out') = 0
    BY <1>2
  <1>4. TypeOK'
    <2>1. Stream' = Stream /\ Numbers' = Numbers
      BY <1>1, Steady
    <2>2. <<>> \in Seq(ToSet(Stream)) /\ <<>> \in Seq(Numbers \X Nat)
      BY EmptySeq
    <2> QED  BY <1>1, <1>2, <2>1, <2>2 DEF TypeOK, ConnInv
  <1>5. Shape'
    BY <1>2 DEF Shape
  <1>6. buf = <<>> /\ Len(buf) = 0 /\ taken - Len(buf) = taken /\ taken' - Len(buf') = taken
    BY <1>1, <1>3, Facts DEF ConnInv, Shape
  <1>7. Held'
    <2>1. served # 0 => First(served) + 2 <= taken
      BY <1>6 DEF ConnInv, Shape, Held
    <2> QED  BY <1>1, <1>2, <1>3, <1>6, <2>1, Facts, Steady DEF Held
  <1>8. OwnPrefix'
    BY <1>2 DEF OwnPrefix
  <1>9. Begun'
    BY <1>1, <1>2, <1>3 DEF Begun, ConnInv
  <1>10. InStep'
    <2>1. ~script.pipelines => taken = End(served)
      BY <1>6 DEF ConnInv, InStep, Shape
    <2> QED  BY <1>1, <1>2, <1>6, <2>1, Steady DEF InStep, ConnInv
  <1> QED  BY <1>4, <1>5, <1>7, <1>8, <1>9, <1>10 DEF ConnInv

(* A resource function is given its own content.                           *)
LEMMA WriteResponseKeeps ==
    ASSUME ConnInv, op \in {"head", "content"}, ready = "ok", NEW i \in Numbers, served < i,
           First(i) + 2 <= taken,
           NEW text \in Seq(ToSet(Stream)), IsPrefix(Body(i), text),
           ~script.pipelines => text = Body(i) /\ taken = End(i),
           WriteResponse(i, text), late' \in BOOLEAN
    PROVE  ConnInv' /\ served' = i /\ sock' = sock /\ script' = script /\ got' = got
  <1>1. /\ script' = script /\ sent' = sent /\ got' = got /\ taken' = taken /\ served' = i
        /\ sock' = sock /\ req' = i /\ content' = text /\ buf' = <<>> /\ ready' = "no"
        /\ timer' = "armed" /\ op' = IF Requests[i].kind = "thread" THEN "handler" ELSE "write"
    BY DEF WriteResponse, client, Start
  <1>2. Len(buf') = 0 /\ taken' - Len(buf') = taken
    BY <1>1, Facts
  <1>3. /\ out' \in Seq(Tokens) /\ \A k \in 1..Len(out') : out'[k][1] = i
        /\ pos' \in 0..Requests[i].size /\ more' \in BOOLEAN
        /\ Requests[i].kind = "thread" => out' = <<>> /\ ~more'
    <2>1. Requests[i].size \in Nat /\ i \in Nat
      BY Facts, RequestTypes
    <2>2. CASE Requests[i].kind = "page"
      <3>1. out' = Answer(i) /\ pos' = 0 /\ more' = FALSE
        BY <2>2 DEF WriteResponse
      <3>2. Answer(i) \in Seq(Tokens) /\ \A k \in 1..Len(Answer(i)) : Answer(i)[k][1] = i
        BY Facts, AnswerIs
      <3>3. pos' \in 0..Requests[i].size
        BY <2>1, <3>1
      <3>4. more' \in BOOLEAN /\ Requests[i].kind # "thread"
        BY <2>2, <3>1
      <3> QED  BY <3>1, <3>2, <3>3, <3>4
    <2>3. CASE Requests[i].kind = "file"
      <3>1. SendChunk(i, <<<<i, 0>>>>, 0)
        BY <2>3 DEF WriteResponse
      <3>2. <<<<i, 0>>>> \in Seq(Tokens) /\ \A k \in 1..Len(<<<<i, 0>>>>) : <<<<i, 0>>>>[k][1] = i
        BY DEF Tokens
      <3>3. 0 \in 0..Requests[i].size
        BY <2>1
      <3> QED  BY <2>3, <3>1, <3>2, <3>3, Facts, ChunkIs
    <2>4. CASE Requests[i].kind \notin {"page", "file"}
      <3>1. out' = <<>> /\ pos' = 0 /\ more' = FALSE
        BY <2>4 DEF WriteResponse, NoAnswer
      <3>2. <<>> \in Seq(Tokens) /\ Len(<<>>) = 0
        BY EmptySeq
      <3>3. \A k \in 1..Len(out') : out'[k][1] = i
        BY <3>1, <3>2
      <3>4. pos' \in 0..Requests[i].size
        BY <2>1, <3>1
      <3>5. more' \in BOOLEAN /\ ~more'
        BY <3>1
      <3> QED  BY <3>1, <3>2, <3>3, <3>4, <3>5
    <2> QED  BY <2>2, <2>3, <2>4
  <1>4. TypeOK'
    <2>1. pos' \in Nat
      BY <1>3, Facts, RequestTypes
    <2> QED  BY <1>1, <1>3, <2>1, Facts, Steady DEF TypeOK, ConnInv, Tokens
  <1>5. Shape'
    BY <1>1, <1>3, Steady DEF Shape
  <1>6. Held'
    <2>1. First(i)' = First(i)
      BY <1>1, Steady
    <2> QED  BY <1>1, <1>2, <2>1, Facts DEF Held
  <1>7. OwnPrefix'
    <2>1. Body(i)' = Body(i)
      BY <1>1, Steady
    <2>2. Body(req)' = Body(i)
      BY <1>1 DEF Body, Requests
    <2> QED  BY <1>1, <2>2 DEF OwnPrefix
  <1>8. Begun'
    <2>1. \A k \in 1..Len(got) : got[k][1] <= i
      <3> TAKE k \in 1..Len(got)
      <3>1. got[k] \in Tokens
        BY Facts, ElementOfSeq
      <3>2. got[k][1] \in Nat /\ served \in Nat /\ i \in Nat
        BY <3>1, Facts, TokenNumber
      <3>3. got[k][1] <= served
        BY DEF ConnInv, Begun
      <3> QED  BY <3>2, <3>3
    <2>2. i \in Nat /\ i <= i
      BY Facts
    <2> QED  BY <1>1, <1>3, <2>1, <2>2 DEF Begun
  <1>9. InStep'
    <2>1. Body(req)' = Body(i) /\ End(req)' = End(i)
      BY <1>1 DEF Body, Requests, End, Upto, HeadOf
    <2>2. ~script.pipelines => \A j \in Numbers : End(j) < sent => j <= i
      <3> SUFFICES ASSUME ~script.pipelines, NEW j \in Numbers, End(j) < sent PROVE j <= i
        OBVIOUS
      <3>1. j <= served /\ j \in Nat /\ i \in Nat /\ served \in Nat
        BY Facts DEF ConnInv, InStep
      <3> QED  BY <3>1
    <2> QED  BY <1>1, <2>1, <2>2, Steady DEF InStep
  <1> QED  BY <1>1, <1>4, <1>5, <1>6, <1>7, <1>8, <1>9 DEF ConnInv

(* What follows a head in the stream begins with the content.              *)
LEMMA OwnText ==
    ASSUME script \in Clients, NEW i \in Numbers, NEW text \in Seq(ToSet(Stream)),
           Requests[i].body <= Len(text),
           \A k \in 1..Len(text) : text[k] = Stream[First(i) + 2 + k]
    PROVE  /\ IsPrefix(Body(i), text)
           /\ Len(text) = Requests[i].body => text = Body(i)
  <1> DEFINE b == Requests[i].body
  <1>1. b \in Nat /\ i \in Nat /\ Len(text) \in Nat
    BY RequestTypes, LenProperties
  <1>2. /\ Body(i) \in Seq(Token) /\ Len(Body(i)) = b
        /\ \A k \in 1..b : Body(i)[k] = <<i, "body">>
    <2>1. Body(i) \in [1..b -> Token]
      BY <1>1 DEF Body, Token
    <2>2. Body(i) \in Seq(Token) /\ Len(Body(i)) = b
      BY <1>1, <2>1, FunctionIsSeq
    <2> QED  BY <2>2 DEF Body
  <1>3. \A k \in 1..b : Stream[First(i) + 2 + k] = <<i, "body">>
    BY RequestIs
  <1> HIDE DEF b
  <1>4. b <= Len(text)
    BY DEF b
  <1>5. ASSUME NEW k \in 1..b PROVE text[k] = Body(i)[k]
    <2>1. k \in 1..Len(text)
      BY <1>1, <1>4
    <2> QED  BY <1>2, <1>3, <2>1
  <1>6. IsPrefix(Body(i), text)
    BY <1>1, <1>2, <1>4, <1>5, PrefixIs
  <1>7. ASSUME Len(text) = b PROVE text = Body(i)
    <2>1. text \in Seq(Token)
      <3>1. Stream \in Seq(Token)
        BY StreamIs
      <3>2. ToSet(Stream) \subseteq Token
        <4> SUFFICES ASSUME NEW x \in ToSet(Stream) PROVE x \in Token
          OBVIOUS
        <4>1. PICK k \in 1..Len(Stream) : Stream[k] = x
          BY <3>1, Elements
        <4> QED  BY <3>1, <4>1, ElementOfSeq
      <3> QED  BY <3>2, SeqMonotonic
    <2> QED  BY <1>2, <1>5, <1>7, <2>1, SeqEqual
  <1> QED  BY <1>6, <1>7 DEF b

(* HeadRead drops the connection, goes on to the content or answers.       *)
LEMMA HeadReadCases ==
    ASSUME ConnInv, HeadRead, NEW i, i = buf[1][1]
    PROVE  \/ Drop /\ (~Parsed(buf) \/ Requests[i].kind \in {"none", "length"})
           \/ /\ Parsed(buf) /\ Requests[i].body > Len(Rest) /\ Requests[i].kind # "length"
              /\ Start("content") /\ req' = i /\ buf' = Rest
              /\ UNCHANGED <<client, taken, sock, content, answer, served>>
           \/ /\ Parsed(buf) /\ ~(Requests[i].body > Len(Rest)) /\ WriteResponse(i, Rest)
              /\ Requests[i].kind \notin {"none", "length"}
  BY DEF HeadRead, Rest, FindResource

(* After a head.                                                           *)
LEMMA HeadReadKeeps == ASSUME ConnInv, HeadRead PROVE ConnInv'
  <1> PICK i : i = buf[1][1]
    OBVIOUS
  <1>0. op = "head" /\ ready = "ok" /\ late' \in BOOLEAN
    BY DEF HeadRead, Cancel, ConnInv, TypeOK
  <1>1. CASE Drop
    BY <1>0, <1>1, DropKeeps
  <1>2. CASE Parsed(buf) /\ ~Drop
    <2>1. /\ i \in Numbers /\ taken - Len(buf) = First(i) /\ served < i /\ First(i) \in Nat
          /\ Rest \in Seq(ToSet(Stream)) /\ Len(Rest) + 2 = Len(buf)
          /\ \A k \in 1..Len(Rest) : Rest[k] = Stream[First(i) + 2 + k]
          /\ ~script.pipelines => i = served + 1
      BY <1>0, <1>2, HeadIs
    <2>2. Requests[i].body \in Nat /\ Len(Rest) \in Nat /\ Len(buf) \in Nat /\ taken \in Nat
      BY <2>1, Facts, RequestTypes
    <2>3. CASE /\ Requests[i].body > Len(Rest) /\ Requests[i].kind # "length"
               /\ Start("content") /\ req' = i /\ buf' = Rest
               /\ UNCHANGED <<client, taken, sock, content, answer, served>>
      <3>1. /\ script' = script /\ sent' = sent /\ got' = got /\ taken' = taken
            /\ served' = served /\ sock' = sock /\ out' = out /\ pos' = pos /\ more' = more
            /\ content' = content /\ req' = i /\ buf' = Rest
            /\ op' = "content" /\ ready' = "no" /\ timer' = "armed"
        BY <2>3 DEF Start, client, answer
      <3>2. Stream' = Stream /\ Numbers' = Numbers /\ Requests' = Requests /\ First(i)' = First(i)
        BY <3>1, Steady
      <3>3. TypeOK'
        BY <1>0, <2>1, <3>1, <3>2 DEF TypeOK, ConnInv
      <3>4. Shape'
        BY <2>1, <2>2, <2>3, <3>1, <3>2 DEF Shape
      <3>5. taken - Len(Rest) = First(i) + 2 /\ Len(Rest) <= taken
        BY <2>1, <2>2
      <3>6. Held'
        BY <2>1, <3>1, <3>2, <3>5 DEF Held
      <3>7. OwnPrefix' /\ Begun' /\ InStep'
        BY <2>1, <3>1, <3>2, Steady DEF OwnPrefix, Begun, InStep, ConnInv
      <3> QED  BY <3>3, <3>4, <3>6, <3>7 DEF ConnInv
    <2>4. CASE ~(Requests[i].body > Len(Rest)) /\ WriteResponse(i, Rest)
      <3>1. Requests[i].body <= Len(Rest)
        BY <2>2, <2>4
      <3>2. /\ IsPrefix(Body(i), Rest)
            /\ Len(Rest) = Requests[i].body => Rest = Body(i)
        BY <2>1, <3>1, Facts, OwnText
      <3>3. First(i) + 2 <= taken
        BY <2>1, <2>2
      <3>4. ASSUME ~script.pipelines PROVE Rest = Body(i) /\ taken = End(i)
        <4>1. ~(End(i) < sent)
          <5>1. ~(i <= served) /\ i \in Numbers
            BY <2>1, Facts
          <5> QED  BY <3>4, <5>1 DEF ConnInv, InStep
        <4>2. End(i) = First(i) + 2 + Requests[i].body
          BY <2>1, Facts, RequestIs
        <4>3. taken <= sent /\ sent \in Nat
          BY Facts
        <4>4. taken = End(i) /\ Len(Rest) = Requests[i].body
          <5>1. /\ First(i) \in Nat /\ taken - Len(buf) = First(i) /\ Len(Rest) + 2 = Len(buf)
            BY <2>1
          <5> QED  BY <2>2, <3>1, <4>1, <4>2, <4>3, <5>1
        <4> QED  BY <3>2, <4>4
      <3> QED  BY <1>0, <2>1, <2>4, <3>2, <3>3, <3>4, WriteResponseKeeps
    <2> QED  BY <1>2, <2>3, <2>4, HeadReadCases
  <1> QED  BY <1>1, <1>2, HeadReadCases

(* After the content.                                                      *)
LEMMA ContentReadKeeps == ASSUME ConnInv, ContentRead PROVE ConnInv'
  <1>0. op = "content" /\ ready = "ok" /\ late' \in BOOLEAN
    BY DEF ContentRead, Cancel, ConnInv, TypeOK
  <1>1. CASE Drop
    BY <1>0, <1>1, DropKeeps
  <1>2. CASE WriteResponse(req, buf)
    <2>1. /\ req \in Numbers /\ served < req /\ Len(buf) = Requests[req].body
          /\ taken - Len(buf) = First(req) + 2 /\ First(req) \in Nat
      BY <1>0, Facts, RequestIs DEF ConnInv, Shape, Held
    <2>2. \A k \in 1..Len(buf) : buf[k] = Stream[First(req) + 2 + k]
      BY <2>1 DEF ConnInv, Held
    <2>3. Len(buf) \in Nat /\ taken \in Nat /\ Requests[req].body <= Len(buf)
      BY <2>1, Facts
    <2>4. IsPrefix(Body(req), buf) /\ buf = Body(req)
      BY <2>1, <2>2, <2>3, Facts, OwnText
    <2>5. taken = End(req) /\ First(req) + 2 <= taken
      BY <2>1, <2>3, Facts, RequestIs
    <2>6. buf \in Seq(ToSet(Stream))
      BY Facts
    <2> QED  BY <1>0, <1>2, <2>1, <2>4, <2>5, <2>6, WriteResponseKeeps
  <1> QED  BY <1>1, <1>2 DEF ContentRead, FindResource

(* Bytes of a head, and perhaps of more, arrive.                           *)
LEMMA ReceiveHeadKeeps == ASSUME ConnInv, ReceiveHead PROVE ConnInv'
  <1>1. /\ op = "head" /\ sock = "open" /\ Receive(sent)
        /\ ready' = IF \E k \in DOMAIN buf' : buf'[k][2] = "end" THEN "ok" ELSE "no"
        /\ script' = script /\ sent' = sent /\ got' = got /\ served' = served /\ sock' = sock
        /\ op' = op /\ req' = req /\ content' = content /\ timer' = timer /\ late' = late
        /\ out' = out /\ pos' = pos /\ more' = more
    BY DEF ReceiveHead, Pending, client, answer, clock
  <1>2. /\ taken' \in Nat /\ taken < taken' /\ taken' <= sent
        /\ buf' \in Seq(ToSet(Stream)) /\ Len(buf') \in Nat /\ Len(buf') <= taken'
        /\ taken' - Len(buf') = taken - Len(buf)
        /\ \A k \in 1..Len(buf') : buf'[k] = Stream[taken - Len(buf) + k]
    <2>1. Len(buf) <= taken /\ \A k \in 1..Len(buf) : buf[k] = Stream[taken - Len(buf) + k]
      BY DEF ConnInv, Held
    <2>2. sent \in Int /\ sent <= Len(Stream)
      BY Facts
    <2> QED  BY <1>1, <2>1, <2>2, Facts, ReceivedIs
  <1>3. DOMAIN buf' = 1..Len(buf') /\ ready' \in {"ok", "no"}
    BY <1>1, <1>2, LenProperties
  <1>4. TypeOK'
    <2>1. taken' \in 0..sent
      BY <1>2, Facts
    <2> QED  BY <1>1, <1>2, <1>3, <2>1, Steady DEF TypeOK, ConnInv
  <1>5. Shape'
    BY <1>1, <1>3 DEF Shape
  <1>6. Held'
    <2>1. First(served)' = First(served) /\ Stream' = Stream
      BY <1>1, Steady
    <2>2. served # 0 => First(served) + 2 <= taken - Len(buf)
      BY <1>1 DEF ConnInv, Held
    <2>3. op' = "head" /\ ready' = "ok" => \E k \in 1..Len(buf') : buf'[k][2] = "end"
      BY <1>1, <1>3
    <2> QED  BY <1>1, <1>2, <2>1, <2>2, <2>3 DEF Held
  <1>7. OwnPrefix' /\ Begun'
    BY <1>1 DEF OwnPrefix, Begun, ConnInv
  <1>8. InStep'
    BY <1>1, <1>2, Steady DEF InStep, ConnInv
  <1> QED  BY <1>4, <1>5, <1>6, <1>7, <1>8 DEF ConnInv

(* Bytes of the content arrive, and of nothing else.                       *)
LEMMA ReceiveContentKeeps == ASSUME ConnInv, ReceiveContent PROVE ConnInv'
  <1> DEFINE u == Least(sent, taken + Requests[req].body - Len(buf))
  <1>1. /\ op = "content" /\ sock = "open" /\ Receive(u)
        /\ ready' = IF Len(buf') = Requests[req].body THEN "ok" ELSE "no"
        /\ script' = script /\ sent' = sent /\ got' = got /\ served' = served /\ sock' = sock
        /\ op' = op /\ req' = req /\ content' = content /\ timer' = timer /\ late' = late
        /\ out' = out /\ pos' = pos /\ more' = more
    BY DEF ReceiveContent, Pending, client, answer, clock
  <1>2. /\ req \in Numbers /\ Requests[req].body \in Nat /\ served < req
        /\ Requests[req].kind # "length" /\ taken - Len(buf) = First(req) + 2
    BY <1>1, Facts, RequestTypes DEF ConnInv, Shape, Held
  <1>3. u \in Int /\ u <= sent /\ u <= Len(Stream) /\ u <= taken + Requests[req].body - Len(buf)
    <2> DEFINE v == taken + Requests[req].body - Len(buf)
    <2>1. sent \in Nat /\ sent <= Len(Stream) /\ Len(Stream) \in Nat /\ v \in Int
      BY <1>2, Facts
    <2> HIDE DEF v
    <2>2. u = Least(sent, v)
      BY DEF v
    <2>3. u \in Int /\ u <= sent /\ u <= Len(Stream) /\ u <= v
      BY <2>1, <2>2 DEF Least
    <2> QED  BY <2>3 DEF v
  <1> HIDE DEF u
  <1>4. /\ taken' \in Nat /\ taken < taken' /\ taken' <= u
        /\ buf' \in Seq(ToSet(Stream)) /\ Len(buf') \in Nat /\ Len(buf') <= taken'
        /\ taken' - Len(buf') = taken - Len(buf)
        /\ \A k \in 1..Len(buf') : buf'[k] = Stream[taken - Len(buf) + k]
    <2>1. Len(buf) <= taken /\ \A k \in 1..Len(buf) : buf[k] = Stream[taken - Len(buf) + k]
      BY DEF ConnInv, Held
    <2>2. script \in Clients /\ taken \in Nat /\ buf \in Seq(ToSet(Stream))
      BY Facts
    <2> QED  BY <1>1, <1>3, <2>1, <2>2, ReceivedIs
  <1>5. Len(buf') <= Requests[req].body
    <2>1. taken \in Nat /\ Len(buf) \in Nat
      BY Facts
    <2> QED  BY <1>2, <1>3, <1>4, <2>1
  <1>6. TypeOK'
    <2>1. taken' \in 0..sent
      BY <1>3, <1>4, Facts
    <2> QED  BY <1>1, <1>4, <2>1, Steady DEF TypeOK, ConnInv
  <1>7. Shape'
    <2>1. Requests' = Requests /\ Numbers' = Numbers
      BY <1>1, Steady
    <2> QED  BY <1>1, <1>2, <1>5, <2>1 DEF Shape
  <1>8. Held'
    <2>1. First(req)' = First(req) /\ Stream' = Stream
      BY <1>1 DEF First, End, Upto, HeadOf, Body, Requests, Stream
    <2> QED  BY <1>1, <1>2, <1>4, <2>1 DEF Held
  <1>9. OwnPrefix' /\ Begun'
    BY <1>1 DEF OwnPrefix, Begun, ConnInv
  <1>10. InStep'
    BY <1>1, <1>4, Steady DEF InStep, ConnInv
  <1> QED  BY <1>6, <1>7, <1>8, <1>9, <1>10 DEF ConnInv

(* Steps that leave the request in hand and what was taken alone.          *)
LEMMA HandKeeps ==
    ASSUME ConnInv, script' = script, sent' = sent, taken' = taken, served' = served, buf' = buf,
           req' = req, content' = content,
           op' = op \/ (op = "handler" /\ op' = "write"),
           ready' # "ok" \/ ready = "ok" \/ op # "head",
           TypeOK', Shape', Begun'
    PROVE  ConnInv'
  <1>1. /\ Stream' = Stream /\ Numbers' = Numbers /\ Requests' = Requests
        /\ First(req)' = First(req) /\ End(req)' = End(req) /\ Body(req)' = Body(req)
        /\ First(served)' = First(served) /\ End(served)' = End(served)
        /\ \A i : End(i)' = End(i)
    BY DEF First, End, Upto, HeadOf, Body, Requests, Stream, Numbers
  <1>2. Held'
    <2>1. ready' = "ok" /\ op' = "head" => ready = "ok" /\ op = "head"
      OBVIOUS
    <2> QED  BY <1>1, <2>1 DEF Held, ConnInv
  <1>3. OwnPrefix'
    BY <1>1 DEF OwnPrefix, ConnInv
  <1>4. InStep'
    BY <1>1 DEF InStep, ConnInv
  <1> QED  BY <1>2, <1>3, <1>4 DEF ConnInv

(* A detached thread leaves its answer.                                    *)
LEMMA ThreadAnswersKeeps == ASSUME ConnInv, ThreadAnswers PROVE ConnInv'
  <1>1. /\ op = "handler" /\ op' = "write" /\ out' = Answer(req) /\ ready' = ready
        /\ script' = script /\ sent' = sent /\ got' = got /\ taken' = taken /\ sock' = sock
        /\ buf' = buf /\ req' = req /\ content' = content /\ pos' = pos /\ more' = more
        /\ timer' = timer /\ late' = late /\ served' = served
    BY DEF ThreadAnswers, client, request, clock
  <1>2. req \in Numbers /\ served = req /\ ready = "no" /\ ~more /\ buf = <<>>
    BY <1>1 DEF ConnInv, Shape
  <1>3. /\ out' \in Seq(Tokens) /\ \A k \in 1..Len(out') : out'[k][1] = req
        /\ req \in Nat
    <2>1. Answer(req) \in Seq(Tokens) /\ \A k \in 1..Len(Answer(req)) : Answer(req)[k][1] = req
      BY <1>2, Facts, AnswerIs
    <2>2. req \in Nat
      BY <1>2, Facts
    <2> QED  BY <1>1, <2>1, <2>2
  <1>4. TypeOK'
    BY <1>1, <1>3, Steady DEF TypeOK, ConnInv, Tokens
  <1>5. Shape'
    BY <1>1, <1>2, Steady DEF Shape
  <1>6. Begun'
    <2>1. \A k \in 1..Len(out') : out'[k][1] <= served
      BY <1>2, <1>3
    <2> QED  BY <1>1, <2>1 DEF Begun, ConnInv
  <1> QED  BY <1>1, <1>4, <1>5, <1>6, HandKeeps

(* The next chunk of a file is read.                                       *)
LEMMA NextChunkKeeps == ASSUME ConnInv, NextChunk PROVE ConnInv'
  <1>1. /\ op = "write" /\ ready = "ok" /\ more /\ SendChunk(req, <<>>, pos) /\ ready' = "no"
        /\ script' = script /\ sent' = sent /\ got' = got /\ taken' = taken /\ sock' = sock
        /\ op' = op /\ buf' = buf /\ req' = req /\ content' = content
        /\ timer' = timer /\ late' = late /\ served' = served
    BY DEF NextChunk, client, request, clock
  <1>2. /\ req \in Numbers /\ served = req /\ buf = <<>> /\ pos \in 0..Requests[req].size
    BY <1>1 DEF ConnInv, Shape
  <1>3. /\ out' \in Seq(Tokens) /\ \A k \in 1..Len(out') : out'[k][1] = req
        /\ pos' \in 0..Requests[req].size /\ more' \in BOOLEAN
    <2>1. <<>> \in Seq(Tokens) /\ \A k \in 1..Len(<<>>) : <<>>[k][1] = req
      BY EmptySeq
    <2> QED  BY <1>1, <1>2, <2>1, Facts, ChunkIs
  <1>4. req \in Nat /\ pos' \in Nat
    BY <1>2, <1>3, Facts, RequestTypes
  <1>5. TypeOK'
    BY <1>1, <1>3, <1>4, Steady DEF TypeOK, ConnInv, Tokens
  <1>6. Shape'
    BY <1>1, <1>2, <1>3, Steady DEF Shape
  <1>7. Begun'
    <2>1. \A k \in 1..Len(out') : out'[k][1] <= served
      BY <1>2, <1>3, <1>4
    <2> QED  BY <1>1, <2>1 DEF Begun, ConnInv
  <1> QED  BY <1>1, <1>5, <1>6, <1>7, HandKeeps

(* A token goes out.                                                       *)
LEMMA TransmitKeeps == ASSUME ConnInv, Transmit PROVE ConnInv'
  <1>1. /\ op = "write" /\ ready = "no" /\ out # <<>>
        /\ out' = Tail(out) /\ got' = Append(got, out[1])
        /\ script' = script /\ sent' = sent /\ taken' = taken /\ sock' = sock
        /\ op' = op /\ ready' = ready /\ buf' = buf /\ req' = req /\ content' = content
        /\ pos' = pos /\ more' = more /\ timer' = timer /\ late' = late /\ served' = served
    BY DEF Transmit, Pending, chain, request, clock
  <1>2. out \in Seq(Tokens) /\ got \in Seq(Tokens) /\ Len(out) \in Nat /\ Len(got) \in Nat
    BY Facts, LenProperties
  <1>3. Len(out) >= 1 /\ out[1] \in Tokens /\ out[1][1] <= served
    <2>1. Len(out) \in Nat \ {0}
      BY <1>1, <1>2, EmptySeq
    <2>2. 1 \in 1..Len(out)
      BY <2>1
    <2> QED  BY <1>2, <2>1, <2>2, ElementOfSeq DEF ConnInv, Begun
  <1>4. /\ out' \in Seq(Tokens) /\ Len(out') = Len(out) - 1
        /\ \A k \in 1..Len(out') : out'[k] = out[k + 1]
    BY <1>1, <1>2, HeadTailProperties
  <1>5. /\ got' \in Seq(Tokens) /\ Len(got') = Len(got) + 1
        /\ \A k \in 1..Len(got) : got'[k] = got[k]
        /\ got'[Len(got) + 1] = out[1]
    BY <1>1, <1>2, <1>3, AppendProperties
  <1>6. TypeOK'
    BY <1>1, <1>4, <1>5, Steady DEF TypeOK, ConnInv, Tokens
  <1>7. Shape'
    BY <1>1, Steady DEF Shape, ConnInv
  <1>8. Begun'
    <2>1. ASSUME NEW k \in 1..Len(out') PROVE out'[k][1] <= served
      <3>1. k + 1 \in 1..Len(out)
        BY <1>2, <1>4
      <3>2. out[k + 1][1] <= served
        BY <3>1 DEF ConnInv, Begun
      <3> QED  BY <1>4, <3>2
    <2>2. ASSUME NEW k \in 1..Len(got') PROVE got'[k][1] <= served
      <3>1. CASE k \in 1..Len(got)
        BY <1>5, <3>1 DEF ConnInv, Begun
      <3>2. CASE k = Len(got) + 1
        BY <1>3, <1>5, <3>2
      <3>3. k \in 1..Len(got) \/ k = Len(got) + 1
        BY <1>2, <1>5
      <3> QED  BY <3>1, <3>2, <3>3
    <2> QED  BY <1>1, <2>1, <2>2 DEF Begun
  <1> QED  BY <1>1, <1>6, <1>7, <1>8, HandKeeps

(* The steps of the network and of the timers that only change those.      *)
LEMMA QuietKeeps ==
    ASSUME ConnInv, Transmitted \/ Fail \/ Expire \/ Timeout
    PROVE  ConnInv'
  <1>1. /\ script' = script /\ sent' = sent /\ taken' = taken /\ served' = served /\ buf' = buf
        /\ req' = req /\ content' = content /\ op' = op /\ got' = got
        /\ out' = out /\ pos' = pos /\ more' = more
        /\ sock' \in {"open", "shut"} /\ timer' \in {"none", "armed", "queued"}
        /\ late' \in BOOLEAN
        /\ \/ ready' = "ok" /\ op = "write" /\ out = <<>> /\ sock' = sock
           \/ ready' = "error" /\ sock' = "shut" /\ op # "handler"
           \/ ready' = ready /\ sock' \in {sock, "shut"}
    BY DEF Transmitted, Fail, Expire, Timeout, Pending, client, request, answer, clock, chain,
           ConnInv, TypeOK
  <1>2. TypeOK'
    BY <1>1, Steady DEF TypeOK, ConnInv
  <1>3. Shape'
    BY <1>1, Steady DEF Shape, ConnInv
  <1>4. Begun'
    BY <1>1 DEF Begun, ConnInv
  <1> QED  BY <1>1, <1>2, <1>3, <1>4, HandKeeps

(* The client sends; one that waits has the answer to all before.          *)
LEMMA SendKeeps == ASSUME ConnInv, Send PROVE ConnInv'
  <1>1. /\ sent < Len(Stream) /\ sent' = sent + 1
        /\ script.pipelines \/ \A i \in Numbers : sent = End(i) => Done(i)
        /\ script' = script /\ got' = got /\ taken' = taken /\ sock' = sock /\ op' = op
        /\ ready' = ready /\ buf' = buf /\ req' = req /\ content' = content /\ out' = out
        /\ pos' = pos /\ more' = more /\ timer' = timer /\ late' = late /\ served' = served
    BY DEF Send, chain, request, answer, clock, End
  <1>2. TypeOK'
    <2>1. sent + 1 \in 0..Len(Stream) /\ taken \in 0..(sent + 1)
      BY <1>1, Facts
    <2> QED  BY <1>1, <2>1, Steady DEF TypeOK, ConnInv
  <1>3. Shape' /\ Begun'
    BY <1>1, Steady DEF Shape, Begun, ConnInv
  <1>4. /\ Stream' = Stream /\ Numbers' = Numbers
        /\ First(req)' = First(req) /\ End(req)' = End(req) /\ Body(req)' = Body(req)
        /\ First(served)' = First(served) /\ End(served)' = End(served)
        /\ \A i : End(i)' = End(i)
    BY <1>1 DEF First, End, Upto, HeadOf, Body, Requests, Stream, Numbers
  <1>5. Held' /\ OwnPrefix'
    BY <1>1, <1>4 DEF Held, OwnPrefix, ConnInv
  <1>6. InStep'
    <2>1. ASSUME ~script.pipelines, NEW i \in Numbers, End(i) < sent + 1 PROVE i <= served
      <3>1. CASE End(i) < sent
        BY <2>1, <3>1 DEF ConnInv, InStep
      <3>2. CASE sent = End(i)
        <4>1. Done(i)
          BY <1>1, <2>1, <3>2
        <4>2. /\ Answer(i) \in Seq(Tokens) /\ Answer(i) # <<>>
              /\ \A k \in 1..Len(Answer(i)) : Answer(i)[k][1] = i
          BY <4>1, Facts, AnswerIs DEF Done
        <4>3. Len(Answer(i)) \in 1..Len(Answer(i))
          BY <4>2, EmptySeq
        <4>4. Last(Answer(i))[1] = i
          BY <4>2, <4>3 DEF Last
        <4>5. PICK k \in 1..Len(got) : got[k] = Last(Answer(i))
          BY <4>1, Facts, Elements DEF Done
        <4> QED  BY <4>4, <4>5 DEF ConnInv, Begun
      <3>3. End(i) < sent \/ sent = End(i)
        <4>1. script \in Clients /\ sent \in Nat /\ i \in 0..Len(Requests)
          BY Facts
        <4>2. End(i) \in Nat
          BY <4>1, UptoIs
        <4> QED  BY <2>1, <4>1, <4>2
      <3> QED  BY <3>1, <3>2, <3>3
    <2> QED  BY <1>1, <1>4, <2>1 DEF InStep, ConnInv
  <1> QED  BY <1>2, <1>3, <1>5, <1>6 DEF ConnInv

(* Every step keeps the invariant.                                         *)
LEMMA ConnStep == ConnInv /\ [Next]_vars => ConnInv'
  <1> SUFFICES ASSUME ConnInv, [Next]_vars PROVE ConnInv'
    OBVIOUS
  <1>1. CASE Accept
    <2>1. op = "accept" /\ late' \in BOOLEAN
      BY <1>1 DEF Accept, ConnInv, TypeOK
    <2> QED  BY <1>1, <2>1, ReadRequestKeeps, DropKeeps DEF Accept
  <1>2. CASE Written
    <2>1. op = "write" /\ late' \in BOOLEAN
      BY <1>2 DEF Written, Cancel, ConnInv, TypeOK
    <2> QED  BY <1>2, <2>1, ReadRequestKeeps, DropKeeps DEF Written
  <1>3. CASE Failed
    <2>1. late' \in BOOLEAN
      BY <1>3 DEF Failed, Cancel, ConnInv, TypeOK
    <2> QED  BY <1>3, <2>1, DropKeeps DEF Failed
  <1>4. CASE UNCHANGED vars
    <2>1. /\ script' = script /\ sent' = sent /\ got' = got /\ taken' = taken /\ sock' = sock
          /\ op' = op /\ ready' = ready /\ buf' = buf /\ req' = req /\ content' = content
          /\ out' = out /\ pos' = pos /\ more' = more /\ timer' = timer /\ late' = late
          /\ served' = served
      BY <1>4 DEF vars, client, chain, request, answer, clock
    <2>2. TypeOK' /\ Shape' /\ Begun'
      BY <2>1, Steady DEF TypeOK, Shape, Begun, ConnInv
    <2> QED  BY <2>1, <2>2, HandKeeps
  <1>5. CASE HeadRead \/ ContentRead \/ ThreadAnswers \/ NextChunk
    BY <1>5, HeadReadKeeps, ContentReadKeeps, ThreadAnswersKeeps, NextChunkKeeps
  <1>6. CASE ReceiveHead \/ ReceiveContent \/ Transmit \/ Send
    BY <1>6, ReceiveHeadKeeps, ReceiveContentKeeps, TransmitKeeps, SendKeeps
  <1>7. CASE Transmitted \/ Abort \/ Hangup \/ Expire \/ Timeout
    BY <1>7, QuietKeeps DEF Abort, Hangup
  <1> QED  BY <1>1, <1>2, <1>3, <1>4, <1>5, <1>6, <1>7 DEF Next, Handler, Service

(* The invariant holds of a connection about to be accepted.               *)
LEMMA ConnInit == Init => ConnInv
  <1> SUFFICES ASSUME Init PROVE ConnInv
    OBVIOUS
  <1>1. /\ script \in Clients /\ sent = 0 /\ got = <<>> /\ taken = 0 /\ sock = "open"
        /\ op = "accept" /\ ready = "ok" /\ buf = <<>> /\ req = 0 /\ content = <<>>
        /\ out = <<>> /\ pos = 0 /\ more = FALSE /\ timer = "none" /\ late = FALSE
        /\ served = 0
    BY DEF Init
  <1>2. Len(<<>>) = 0 /\ <<>> \in Seq(ToSet(Stream)) /\ <<>> \in Seq(Numbers \X Nat)
    BY EmptySeq
  <1>3. TypeOK
    <2>1. 0 \in 0..Len(Stream) /\ 0 \in 0..0
      BY <1>1, StreamIs
    <2> QED  BY <1>1, <1>2, <2>1 DEF TypeOK
  <1>4. Shape /\ OwnPrefix
    BY <1>1 DEF Shape, OwnPrefix
  <1>5. Held
    BY <1>1, <1>2 DEF Held
  <1>6. Begun
    BY <1>1, <1>2 DEF Begun
  <1>7. InStep
    <2>1. End(0) = 0
      BY <1>1, <1>2, UptoIs DEF End
    <2>2. ASSUME NEW i \in Numbers PROVE ~(End(i) < sent)
      <3>1. End(i) \in Nat
        BY <1>1, RequestIs
      <3> QED  BY <1>1, <3>1
    <2> QED  BY <1>1, <1>2, <2>1, <2>2 DEF InStep
  <1> QED  BY <1>3, <1>4, <1>5, <1>6, <1>7 DEF ConnInv

(* The invariant holds always.                                             *)
LEMMA ConnInvariance == Spec => []ConnInv
  BY ConnInit, ConnStep, PTL DEF Spec

-----------------------------------------------------------------------------
(* Every value keeps its type: what a connection takes was sent to it, and *)
(* what it sends are tokens of answers to its requests.                    *)
THEOREM TypeCorrect == Spec => []TypeOK
  <1>1. ConnInv => TypeOK
    BY DEF ConnInv
  <1> QED  BY ConnInvariance, <1>1, PTL

(* A resource function finds its own content first, and nothing else when  *)
(* the client waits, however the bytes arrive and whatever times out.      *)
THEOREM ContentIsOwn == Spec => []OwnContent
  <1>1. ConnInv => OwnContent
    BY DEF ConnInv, OwnPrefix, InStep, OwnContent
  <1> QED  BY ConnInvariance, <1>1, PTL

(* A client that waits never has its bytes garbled: at the end of a head   *)
(* the buffer begins with one.                                             *)
LEMMA PatientParsed ==
    ASSUME ConnInv, ~script.pipelines, op = "head", ready = "ok"
    PROVE  Parsed(buf)
  <1> DEFINE i == served + 1
  <1>1. /\ taken - Len(buf) = End(served) /\ taken <= Len(Stream) /\ taken \in Nat
        /\ served \in Nat /\ served <= Len(Requests) /\ Len(Requests) \in Nat
        /\ Len(buf) \in Nat /\ script \in Clients /\ Len(Stream) \in Nat
    BY Facts DEF ConnInv, InStep
  <1>2. PICK k \in 1..Len(buf) : buf[k][2] = "end"
    BY DEF ConnInv, Held
  <1>3. i \in Numbers
    <2>1. Len(Stream) = End(Len(Requests)) /\ Len(buf) >= 1
      BY <1>1, <1>2, StreamIs
    <2>2. served # Len(Requests)
      BY <1>1, <2>1
    <2> QED  BY <1>1, <2>2, Facts
  <1>4. First(i) = End(served) /\ First(i) = taken - Len(buf)
    <2>1. i - 1 = served
      BY <1>1
    <2> QED  BY <1>1, <2>1 DEF First
  <1> HIDE DEF i
  <1>5. /\ First(i) \in Nat /\ Stream[First(i) + 1] = <<i, "head">>
        /\ Stream[First(i) + 2] = <<i, "end">>
    BY <1>1, <1>3, RequestIs
  <1>6. \A j \in 1..Len(buf) : buf[j] = Stream[First(i) + j]
    BY <1>4 DEF ConnInv, Held
  <1>7. buf[1] = <<i, "head">> /\ k # 1
    <2>1. 1 \in 1..Len(buf)
      BY <1>1, <1>2
    <2>2. buf[1] = <<i, "head">>
      BY <1>5, <1>6, <2>1
    <2> QED  BY <1>2, <2>2
  <1>8. 2 \in 1..Len(buf) /\ 2 <= Len(buf)
    BY <1>1, <1>2, <1>7
  <1>9. buf[2] = <<i, "end">>
    BY <1>5, <1>6, <1>8
  <1>10. /\ HeadOf(i) \in Seq(Token) /\ Len(HeadOf(i)) = 2
         /\ HeadOf(i)[1] = <<i, "head">> /\ HeadOf(i)[2] = <<i, "end">>
    BY <1>3, Facts DEF HeadOf, Token
  <1>11. \A j \in 1..Len(HeadOf(i)) : buf[j] = HeadOf(i)[j]
    <2> SUFFICES ASSUME NEW j \in 1..Len(HeadOf(i)) PROVE buf[j] = HeadOf(i)[j]
      OBVIOUS
    <2>1. j = 1 \/ j = 2
      BY <1>10
    <2> QED  BY <1>7, <1>9, <1>10, <2>1
  <1>12. IsPrefix(HeadOf(i), buf)
    BY <1>8, <1>10, <1>11, Facts, PrefixIs
  <1> QED  BY <1>3, <1>12 DEF Parsed

(* The connection of a client that waits ends only because the socket is   *)
(* shut or the program has a reason to end it.                             *)
THEOREM EndsForCauseOnly == Spec => EndsForCause
  <1>1. ASSUME ConnInv, [Next]_vars, op' = "none", op # "none", ~script.pipelines
        PROVE  \/ sock = "shut" \/ op = "accept"
               \/ op = "write" /\ ~Requests[req].keep
               \/ op = "head" /\ Requests[buf[1][1]].kind \in {"none", "length"}
               \/ op = "content" /\ Requests[req].kind = "none"
    <2>1. CASE HeadRead
      <3>1. op = "head" /\ ready = "ok"
        BY <2>1 DEF HeadRead
      <3>2. Parsed(buf)
        BY <1>1, <3>1, PatientParsed
      <3>3. PICK i : i = buf[1][1]
        OBVIOUS
      <3>4. Drop
        BY <1>1, <2>1, <3>3, HeadReadCases DEF Start, WriteResponse
      <3>5. Requests[i].kind \in {"none", "length"}
        BY <1>1, <2>1, <3>2, <3>3, <3>4, HeadReadCases DEF Start, WriteResponse
      <3> QED  BY <3>1, <3>3, <3>5
    <2>2. CASE ContentRead
      BY <1>1, <2>2 DEF ContentRead, FindResource, WriteResponse, Start
    <2>3. CASE Written
      BY <1>1, <2>3 DEF Written, ReadRequest, Start
    <2>4. CASE Failed
      BY <1>1, <2>4 DEF Failed, ConnInv, Shape
    <2>5. CASE Accept
      BY <2>5 DEF Accept
    <2>6. op' # "none" \/ HeadRead \/ ContentRead \/ Written \/ Failed \/ Accept
      BY <1>1 DEF Next, Handler, Service, ThreadAnswers, NextChunk, Timeout, ReceiveHead,
         ReceiveContent, Transmit, Transmitted, Abort, Hangup, Fail, Expire, Send, vars, chain
    <2> QED  BY <1>1, <2>1, <2>2, <2>3, <2>4, <2>5, <2>6
  <1>2. ConnInv /\ [Next]_vars =>
          [op' = "none" /\ op # "none" /\ ~script.pipelines =>
             \/ sock = "shut" \/ op = "accept"
             \/ op = "write" /\ ~Requests[req].keep
             \/ op = "head" /\ Requests[buf[1][1]].kind \in {"none", "length"}
             \/ op = "content" /\ Requests[req].kind = "none"]_vars
    BY <1>1
  <1> QED  BY ConnInvariance, <1>2, PTL DEF Spec, EndsForCause

-----------------------------------------------------------------------------
(* The refinement: every step of a connection is one of HttpExchange or    *)
(* leaves its variables alone.                                             *)

(* A step that HttpExchange allows.                                        *)
Promised == [Exchange!Next]_(Exchange!evars)

(* Nothing of the answer is lost, or the socket has been shut.             *)
LEMMA StillOrShut ==
    ASSUME ConnInv, script' = script, got' = got, served' = served, sock' \in {"open", "shut"},
           (sock' = sock /\ Remaining' = Remaining) \/ sock' = "shut"
    PROVE  Promised
  <1>1. Answers(script)' = Answers(script)
    BY DEF Answers
  <1>2. sock = "open" \/ sock = "shut"
    BY DEF ConnInv, TypeOK
  <1>3. CASE sock' = sock /\ Remaining' = Remaining
    BY <1>1, <1>3 DEF Promised, Exchange!evars
  <1>4. CASE sock' = "shut"
    <2>1. Remaining' = <<>>
      BY <1>4 DEF Remaining
    <2>2. CASE sock = "shut"
      <3>1. Remaining = <<>>
        BY <2>2 DEF Remaining
      <3> QED  BY <1>1, <1>4, <2>1, <2>2, <3>1 DEF Promised, Exchange!evars
    <2>3. CASE sock = "open"
      <3>1. Exchange!Shut
        BY <1>1, <1>4, <2>1, <2>3 DEF Exchange!Shut
      <3> QED  BY <3>1 DEF Promised, Exchange!Next
    <2> QED  BY <1>2, <2>2, <2>3
  <1> QED  BY <1>3, <1>4

(* Between answers nothing is left to be sent.                             *)
LEMMA NothingLeft ==
    ASSUME ConnInv, op # "handler",
           op = "write" => (ready = "ok" /\ ~more) \/ ready = "error"
    PROVE  Remaining = <<>>
  <1>1. CASE op = "write" /\ ready = "ok" /\ ~more
    <2>1. out = <<>> /\ <<>> \in Seq(Tokens) /\ out \o <<>> = out
      BY <1>1, Facts, EmptySeq, ConcatEmptySeq DEF ConnInv, Shape
    <2> QED  BY <1>1, <2>1 DEF Remaining
  <1>2. CASE op = "write" /\ ready = "error"
    BY <1>2 DEF Remaining, ConnInv, Shape
  <1>3. CASE op # "write"
    BY <1>3 DEF Remaining
  <1> QED  BY <1>1, <1>2, <1>3

(* A connection is given up between answers.                               *)
LEMMA DropShuts ==
    ASSUME ConnInv, Drop, Remaining = <<>>
    PROVE  Promised
  <1>1. /\ script' = script /\ got' = got /\ served' = served /\ sock' \in {"open", "shut"}
        /\ sock' = sock \/ sock' = "shut"
        /\ op' = "none"
    BY DEF Drop, client, ConnInv, TypeOK
  <1>2. Remaining' = <<>>
    BY <1>1 DEF Remaining
  <1> QED  BY <1>1, <1>2, StillOrShut

(* The next head is awaited between answers.                               *)
LEMMA ReadRequestStills ==
    ASSUME ConnInv, ReadRequest, Remaining = <<>>
    PROVE  Promised
  <1>1. /\ script' = script /\ got' = got /\ served' = served /\ sock' = sock
        /\ sock \in {"open", "shut"} /\ op' = "head"
    BY DEF ReadRequest, Start, client, ConnInv, TypeOK
  <1>2. Remaining' = <<>>
    BY <1>1 DEF Remaining
  <1> QED  BY <1>1, <1>2, StillOrShut

(* What the resource function leaves to be sent is the whole answer.       *)
LEMMA WriteResponseBegins ==
    ASSUME ConnInv, ConnInv', op \in {"head", "content"}, NEW i \in Numbers, served < i,
           NEW text, WriteResponse(i, text), Requests[i].kind \notin {"none", "length"}
    PROVE  Promised
  <1>1. /\ script' = script /\ got' = got /\ served' = i /\ sock' = sock /\ req' = i
        /\ op' = IF Requests[i].kind = "thread" THEN "handler" ELSE "write"
    BY DEF WriteResponse, client, Start
  <1>2. /\ Answers(script)' = Answers(script) /\ Answer(i)' = Answer(i)
        /\ Answer(req)' = Answer(i) /\ Requests' = Requests
        /\ Pieces(req, pos, Requests[req].size)' = Pieces(i, pos', Requests[i].size)
    BY <1>1 DEF Answers, Answer, Requests, Pieces
  <1>3. Remaining = <<>>
    BY NothingLeft
  <1>4. ASSUME sock = "open" PROVE Remaining' = Answer(i)
    <2>1. CASE Requests[i].kind = "thread"
      BY <1>1, <1>2, <1>4, <2>1 DEF Remaining
    <2>2. CASE Requests[i].kind # "thread"
      <3>1. Remaining' = out' \o (IF more' THEN Pieces(i, pos', Requests[i].size) ELSE <<>>)
        BY <1>1, <1>2, <1>4, <2>2 DEF Remaining
      <3>2. CASE Requests[i].kind = "page"
        <4>1. out' = Answer(i) /\ ~more'
          BY <3>2 DEF WriteResponse
        <4>2. Answer(i) \o <<>> = Answer(i)
          BY Facts, AnswerIs, ConcatEmptySeq
        <4> QED  BY <3>1, <4>1, <4>2
      <3>3. CASE Requests[i].kind = "file"
        <4>1. SendChunk(i, <<<<i, 0>>>>, 0)
          BY <3>3 DEF WriteResponse
        <4>2. /\ <<<<i, 0>>>> \in Seq(Tokens)
              /\ \A k \in 1..Len(<<<<i, 0>>>>) : <<<<i, 0>>>>[k][1] = i
          BY DEF Tokens
        <4>3. 0 \in 0..Requests[i].size
          BY Facts, RequestTypes
        <4>4. Answer(i) = <<<<i, 0>>>> \o Pieces(i, 0, Requests[i].size)
          BY <3>3, Facts, AnswerIs
        <4> QED  BY <3>1, <4>1, <4>2, <4>3, <4>4, Facts, ChunkIs
      <3>4. CASE Requests[i].kind = "throws"
        <4>1. out' = <<>> /\ ~more'
          BY <3>4 DEF WriteResponse, NoAnswer
        <4>2. Answer(i) = <<>> /\ <<>> \o <<>> = <<>>
          BY <3>4, Facts, AnswerIs, ConcatEmptySeq, EmptySeq
        <4> QED  BY <3>1, <4>1, <4>2
      <3>5. Requests[i].kind \in Kinds
        BY Facts, RequestTypes
      <3> QED  BY <2>2, <3>2, <3>3, <3>4, <3>5 DEF Kinds
    <2> QED  BY <2>1, <2>2
  <1>5. ASSUME sock # "open" PROVE Remaining' = <<>>
    BY <1>1, <1>5 DEF Remaining, ConnInv, TypeOK
  <1>6. i \in DOMAIN Answers(script) /\ Answers(script)[i] = Answer(i)
    BY DEF Answers, Answer, Numbers, Requests
  <1>7. i > served
    BY Facts
  <1>8. Exchange!Begin(i)
    BY <1>1, <1>2, <1>3, <1>4, <1>5, <1>6, <1>7 DEF Exchange!Begin
  <1> QED  BY <1>6, <1>8 DEF Promised, Exchange!Next

(* The next chunk comes out of what is left of the file.                   *)
LEMMA NextChunkStills == ASSUME ConnInv, NextChunk PROVE Promised
  <1>1. /\ op = "write" /\ ready = "ok" /\ more /\ SendChunk(req, <<>>, pos)
        /\ script' = script /\ got' = got /\ sock' = sock /\ op' = op /\ req' = req
        /\ served' = served
    BY DEF NextChunk, client, request
  <1>2. /\ req \in Numbers /\ pos \in 0..Requests[req].size /\ out = <<>>
        /\ sock \in {"open", "shut"} /\ Requests[req].size \in Nat
    BY <1>1, Facts, RequestTypes DEF ConnInv, Shape, TypeOK
  <1>3. /\ Requests' = Requests
        /\ Pieces(req, pos, Requests[req].size)' = Pieces(req, pos', Requests[req].size)
    BY <1>1 DEF Pieces, Requests
  <1>4. <<>> \in Seq(Tokens) /\ \A k \in 1..Len(<<>>) : <<>>[k][1] = req
    BY EmptySeq
  <1>5. out' \o (IF more' THEN Pieces(req, pos', Requests[req].size) ELSE <<>>)
          = <<>> \o Pieces(req, pos, Requests[req].size)
    BY <1>1, <1>2, <1>4, Facts, ChunkIs
  <1>6. Remaining' = Remaining
    BY <1>1, <1>2, <1>3, <1>5 DEF Remaining
  <1> QED  BY <1>1, <1>2, <1>6, StillOrShut

(* A token that goes out is the next of the answer.                        *)
LEMMA TransmitDelivers == ASSUME ConnInv, Transmit PROVE Promised
  <1> DEFINE rest == IF more THEN Pieces(req, pos, Requests[req].size) ELSE <<>>
  <1>1. /\ op = "write" /\ sock = "open" /\ out # <<>>
        /\ out' = Tail(out) /\ got' = Append(got, out[1])
        /\ script' = script /\ sock' = sock /\ op' = op /\ req' = req
        /\ pos' = pos /\ more' = more /\ served' = served
    BY DEF Transmit, Pending, chain, request
  <1>2. req \in Numbers /\ (more => pos \in 0..Requests[req].size) /\ Requests[req].size \in Nat
    BY <1>1, Facts, RequestTypes DEF ConnInv, Shape
  <1>3. rest \in Seq(Tokens)
    <2>1. CASE more
      <3>1. pos \in Nat /\ pos <= Requests[req].size
        BY <1>2, <2>1
      <3> QED  BY <1>2, <2>1, <3>1, Facts, PiecesIs
    <2>2. CASE ~more
      BY <2>2, EmptySeq
    <2> QED  BY <2>1, <2>2
  <1>4. Remaining = out \o rest
    BY <1>1 DEF Remaining
  <1>5. rest' = rest
    BY <1>1 DEF Pieces, Requests
  <1>6. Remaining' = Tail(out) \o rest
    BY <1>1, <1>5 DEF Remaining
  <1> HIDE DEF rest
  <1>7. /\ out \o rest # <<>> /\ (out \o rest)[1] = out[1]
        /\ Tail(out \o rest) = Tail(out) \o rest
    <2>1. out \in Seq(Tokens) /\ Len(out) \in Nat \ {0} /\ Len(rest) \in Nat
      BY <1>1, <1>3, Facts, EmptySeq, LenProperties
    <2> DEFINE s == out \o rest
    <2>2. /\ s \in Seq(Tokens) /\ Len(s) = Len(out) + Len(rest)
          /\ \A k \in 1..(Len(out) + Len(rest)) :
                s[k] = IF k <= Len(out) THEN out[k] ELSE rest[k - Len(out)]
      BY <1>3, <2>1, ConcatProperties
    <2>3. /\ Tail(out) \in Seq(Tokens) /\ Len(Tail(out)) = Len(out) - 1
          /\ \A k \in 1..Len(Tail(out)) : Tail(out)[k] = out[k + 1]
      BY <1>1, <2>1, HeadTailProperties
    <2> DEFINE t == Tail(out) \o rest
    <2>4. /\ t \in Seq(Tokens) /\ Len(t) = Len(Tail(out)) + Len(rest)
          /\ \A k \in 1..(Len(Tail(out)) + Len(rest)) :
                t[k] = IF k <= Len(Tail(out)) THEN Tail(out)[k] ELSE rest[k - Len(Tail(out))]
      BY <1>3, <2>3, ConcatProperties
    <2> HIDE DEF s, t
    <2>5. s # <<>> /\ s[1] = out[1]
      <3>1. Len(s) >= 1 /\ 1 \in 1..(Len(out) + Len(rest)) /\ 1 <= Len(out)
        BY <2>1, <2>2
      <3>2. s # <<>>
        BY <3>1, EmptySeq
      <3> QED  BY <2>2, <3>1, <3>2
    <2>6. /\ Tail(s) \in Seq(Tokens) /\ Len(Tail(s)) = Len(s) - 1
          /\ \A k \in 1..Len(Tail(s)) : Tail(s)[k] = s[k + 1]
      BY <2>2, <2>5, HeadTailProperties
    <2>7. Len(Tail(s)) = Len(t)
      BY <2>1, <2>2, <2>3, <2>4, <2>6
    <2>8. ASSUME NEW k \in 1..Len(Tail(s)) PROVE Tail(s)[k] = t[k]
      <3>1. /\ k + 1 \in 1..(Len(out) + Len(rest)) /\ k \in Nat
            /\ k \in 1..(Len(Tail(out)) + Len(rest))
        BY <2>1, <2>2, <2>3, <2>6
      <3>2. Tail(s)[k] = s[k + 1]
        BY <2>6
      <3>3. CASE k <= Len(Tail(out))
        <4>1. k + 1 <= Len(out) /\ k \in 1..Len(Tail(out))
          BY <2>1, <2>3, <3>1, <3>3
        <4>2. s[k + 1] = out[k + 1]
          BY <2>2, <3>1, <4>1
        <4>3. t[k] = out[k + 1]
          BY <2>3, <2>4, <3>1, <3>3, <4>1
        <4> QED  BY <3>2, <4>2, <4>3
      <3>4. CASE ~(k <= Len(Tail(out)))
        <4>1. ~(k + 1 <= Len(out)) /\ k + 1 - Len(out) = k - Len(Tail(out))
          BY <2>1, <2>3, <3>1, <3>4
        <4>2. s[k + 1] = rest[k + 1 - Len(out)]
          BY <2>2, <3>1, <4>1
        <4>3. t[k] = rest[k - Len(Tail(out))]
          BY <2>4, <3>1, <3>4
        <4> QED  BY <3>2, <4>1, <4>2, <4>3
      <3> QED  BY <3>3, <3>4
    <2>9. Tail(s) = t
      BY <2>4, <2>6, <2>7, <2>8, SeqEqual
    <2> QED  BY <2>5, <2>9 DEF s, t
  <1>8. Answers(script)' = Answers(script)
    BY <1>1 DEF Answers
  <1>9. Exchange!Deliver
    BY <1>1, <1>4, <1>6, <1>7, <1>8 DEF Exchange!Deliver
  <1> QED  BY <1>9 DEF Promised, Exchange!Next

(* Steps that leave what is to be sent alone, or shut the socket.          *)
LEMMA QuietStills ==
    ASSUME ConnInv, \/ ReceiveHead \/ ReceiveContent \/ Transmitted \/ Fail \/ Expire \/ Timeout
                    \/ Send \/ ThreadAnswers \/ UNCHANGED vars
    PROVE  Promised
  <1>1. /\ script' = script /\ got' = got /\ served' = served /\ sock' \in {"open", "shut"}
        /\ req' = req
        /\ sock' = sock \/ sock' = "shut"
        /\ \/ op' = op /\ out' = out /\ pos' = pos /\ more' = more
           \/ op = "handler" /\ op' = "write" /\ out' = Answer(req) /\ more' = more
    BY DEF ReceiveHead, ReceiveContent, Transmitted, Fail, Expire, Timeout, Send, ThreadAnswers,
           vars, client, chain, request, answer, clock, ConnInv, TypeOK
  <1>2. /\ Answer(req)' = Answer(req)
        /\ Requests' = Requests
        /\ pos' = pos =>
              Pieces(req, pos, Requests[req].size)' = Pieces(req, pos, Requests[req].size)
    BY <1>1 DEF Answer, Answers, Pieces, Requests
  <1>3. CASE sock' = sock /\ op' = op /\ out' = out /\ pos' = pos /\ more' = more
    <2>1. Remaining' = Remaining
      BY <1>1, <1>2, <1>3 DEF Remaining
    <2> QED  BY <1>1, <1>3, <2>1, StillOrShut
  <1>4. CASE /\ sock' = sock /\ op = "handler" /\ op' = "write"
             /\ out' = Answer(req) /\ more' = more
    <2>1. ~more' /\ req \in Numbers
      BY <1>4 DEF ConnInv, Shape
    <2>2. Answer(req) \o <<>> = Answer(req)
      BY <2>1, Facts, AnswerIs, ConcatEmptySeq
    <2>3. Remaining' = Remaining
      BY <1>1, <1>4, <2>1, <2>2 DEF Remaining
    <2> QED  BY <1>1, <1>4, <2>3, StillOrShut
  <1> QED  BY <1>1, <1>3, <1>4, StillOrShut

(* Every step is allowed.                                                  *)
LEMMA StepsPromised == ConnInv /\ ConnInv' /\ [Next]_vars => Promised
  <1> SUFFICES ASSUME ConnInv, ConnInv', [Next]_vars PROVE Promised
    OBVIOUS
  <1>1. CASE Accept
    <2>1. Remaining = <<>>
      BY <1>1, NothingLeft DEF Accept
    <2> QED  BY <1>1, <2>1, DropShuts, ReadRequestStills DEF Accept
  <1>2. CASE HeadRead
    <2>1. op = "head" /\ Remaining = <<>>
      BY <1>2, NothingLeft DEF HeadRead
    <2>2. PICK i : i = buf[1][1]
      OBVIOUS
    <2>3. CASE Drop
      BY <2>1, <2>3, DropShuts
    <2>4. CASE /\ Parsed(buf) /\ WriteResponse(i, Rest)
               /\ Requests[i].kind \notin {"none", "length"}
      <3>1. i \in Numbers /\ served < i
        BY <2>1, <2>2, <2>4, HeadIs
      <3> QED  BY <2>1, <2>4, <3>1, WriteResponseBegins
    <2>5. CASE Start("content") /\ UNCHANGED <<client, taken, sock, content, answer, served>>
      <3>1. /\ script' = script /\ got' = got /\ served' = served /\ sock' = sock
            /\ sock \in {"open", "shut"} /\ op' = "content"
        BY <2>5 DEF Start, client, ConnInv, TypeOK
      <3>2. Remaining' = <<>>
        BY <3>1 DEF Remaining
      <3> QED  BY <2>1, <3>1, <3>2, StillOrShut
    <2> QED  BY <1>2, <2>2, <2>3, <2>4, <2>5, HeadReadCases
  <1>3. CASE ContentRead
    <2>1. /\ op = "content" /\ Remaining = <<>> /\ req \in Numbers /\ served < req
          /\ Requests[req].kind # "length"
      BY <1>3, NothingLeft DEF ContentRead, ConnInv, Shape
    <2>2. CASE Drop
      BY <2>1, <2>2, DropShuts
    <2>3. CASE WriteResponse(req, buf) /\ Requests[req].kind # "none"
      <3>1. PICK i : i = req
        OBVIOUS
      <3> QED  BY <2>1, <2>3, <3>1, WriteResponseBegins
    <2> QED  BY <1>3, <2>2, <2>3 DEF ContentRead, FindResource
  <1>4. CASE Written
    <2>1. Remaining = <<>>
      BY <1>4, NothingLeft DEF Written
    <2> QED  BY <1>4, <2>1, DropShuts, ReadRequestStills DEF Written
  <1>5. CASE Failed
    <2>1. Remaining = <<>>
      BY <1>5, NothingLeft DEF Failed
    <2> QED  BY <1>5, <2>1, DropShuts DEF Failed
  <1>6. CASE NextChunk
    BY <1>6, NextChunkStills
  <1>7. CASE Transmit
    BY <1>7, TransmitDelivers
  <1>8. CASE \/ ReceiveHead \/ ReceiveContent \/ Transmitted \/ Abort \/ Hangup \/ Expire
             \/ Timeout \/ Send \/ ThreadAnswers \/ UNCHANGED vars
    BY <1>8, QuietStills DEF Abort, Hangup
  <1> QED  BY <1>1, <1>2, <1>3, <1>4, <1>5, <1>6, <1>7, <1>8 DEF Next, Handler, Service

(* A connection implements HttpExchange: answers reach the client whole,   *)
(* once and in order, however a file is cut and whatever times out.        *)
THEOREM ExchangeImplemented == Spec => AnswersWholeInOrder
  <1>1. Init => Exchange!Init
    <2> SUFFICES ASSUME Init PROVE Exchange!Init
      OBVIOUS
    <2>1. /\ script \in Clients /\ got = <<>> /\ served = 0 /\ op = "accept" /\ sock = "open"
      BY DEF Init
    <2>2. Remaining = <<>>
      BY <2>1 DEF Remaining
    <2> QED  BY <2>1, <2>2 DEF Exchange!Init
  <1>2. ConnInv /\ ConnInv' /\ [Next]_vars => [Exchange!Next]_(Exchange!evars)
    BY StepsPromised DEF Promised
  <1> QED  BY ConnInvariance, <1>1, <1>2, PTL DEF Spec, AnswersWholeInOrder, Exchange!Spec
=============================================================================
