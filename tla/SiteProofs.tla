-------------------------------- MODULE SiteProofs --------------------------------
(***************************************************************************)
(* What holds of Site for every size of the pages, number of posts and     *)
(* choice of what is typed: a client that asks for page after page misses  *)
(* no post; what is typed arrives as it was typed; and a link leads to its *)
(* post.                                                                   *)
(***************************************************************************)
EXTENDS Site, SequenceFacts, FiniteSetTheorems, TLAPS

(* The table: ids are below the next one, so there are at most MaxId.      *)
Table ==
    /\ nextId \in 1..(MaxId + 1)
    /\ IsFiniteSet(posts)
    /\ IdsOf(posts) \subseteq 1..(nextId - 1)
    /\ at \in Nat

(* What the client has not been given of what there was when it began is   *)
(* still ahead of it: a page's worth of newer posts for every page it has  *)
(* had, and a button that says there is more.                              *)
Unseen == due \ seen
StillAhead ==
    calm => \A i \in Unseen :
                /\ i \in IdsOf(posts)
                /\ Cardinality(NewerThan(posts, i)) >= (at + 1) * PageSize
                /\ "Next" \in nav

(* The invariant of reading.                                               *)
Inv == Table /\ StillAhead

-----------------------------------------------------------------------------

(* The posts newer than one, counted: a part of 1..MaxId, and fewer than   *)
(* the rows of the table, which has that one as well.                      *)
LEMMA NewerCounted ==
    ASSUME Table, NEW i \in IdsOf(posts)
    PROVE  /\ Cardinality(NewerThan(posts, i)) \in Nat
           /\ Cardinality(NewerThan(posts, i)) <= MaxInt
           /\ Cardinality(posts) \in Nat
           /\ Cardinality(NewerThan(posts, i)) + 1 <= Cardinality(posts)
  <1> USE PagingAssumption
  <1> DEFINE N == NewerThan(posts, i)
             f == [r \in posts |-> r.id]
  <1>1. /\ f \in Surjection(posts, IdsOf(posts))
        /\ IsFiniteSet(posts)
    BY DEF Surjection, IdsOf, Table
  <1>2. /\ IsFiniteSet(IdsOf(posts))
        /\ Cardinality(IdsOf(posts)) <= Cardinality(posts)
    BY <1>1, FS_Surjection
  <1>3. /\ IsFiniteSet(1..MaxId) /\ Cardinality(1..MaxId) = MaxId
        /\ IdsOf(posts) \subseteq 1..MaxId
    BY FS_Interval DEF Table
  <1>4. N \subseteq 1..MaxId /\ i \notin N /\ N \cup {i} \subseteq IdsOf(posts)
    BY <1>3 DEF NewerThan
  <1>5. IsFiniteSet(N) /\ Cardinality(N) <= MaxId
    BY <1>3, <1>4, FS_Subset
  <1>6. Cardinality(N) \in Nat /\ Cardinality(posts) \in Nat
        /\ Cardinality(IdsOf(posts)) \in Nat
    BY <1>1, <1>2, <1>5, FS_CardinalityType
  <1>7. Cardinality(N \cup {i}) = Cardinality(N) + 1
    BY <1>4, <1>5, FS_AddElement
  <1>8. Cardinality(N \cup {i}) <= Cardinality(IdsOf(posts))
    BY <1>2, <1>4, FS_Subset
  <1> QED
    BY <1>2, <1>5, <1>6, <1>7, <1>8

(* A table that has these ids and perhaps more has no fewer newer ones.    *)
LEMMA NewerGrow ==
    ASSUME NEW P, NEW Q, IsFiniteSet(IdsOf(Q)), IdsOf(P) \subseteq IdsOf(Q), NEW i
    PROVE  /\ Cardinality(NewerThan(P, i)) \in Nat
           /\ Cardinality(NewerThan(Q, i)) \in Nat
           /\ Cardinality(NewerThan(P, i)) <= Cardinality(NewerThan(Q, i))
  <1>1. NewerThan(P, i) \subseteq NewerThan(Q, i) /\ NewerThan(Q, i) \subseteq IdsOf(Q)
    BY DEF NewerThan
  <1>2. IsFiniteSet(NewerThan(Q, i)) /\ IsFiniteSet(NewerThan(P, i))
    BY <1>1, FS_Subset
  <1> QED
    BY <1>1, <1>2, FS_Subset, FS_CardinalityType

-----------------------------------------------------------------------------

(* What the client is not given of page p, although a page's worth of      *)
(* posts for every page before it are newer, comes after it; and then the  *)
(* page has a button Next.  The product of p cannot have overflowed, for   *)
(* there are no more posts than MaxInt.                                    *)
LEMMA NotOnPage ==
    ASSUME Table, NEW p \in Nat, get_posts(p), NEW i \in IdsOf(posts), i \notin IdsOf(shown'),
           Cardinality(NewerThan(posts, i)) >= p * PageSize
    PROVE  /\ Cardinality(NewerThan(posts, i)) >= (p + 1) * PageSize
           /\ "Next" \in nav'
  <1> USE PagingAssumption
  <1> DEFINE n == Cardinality(NewerThan(posts, i))
             c == Cardinality(posts)
             k == p * PageSize
  <1>1. n \in Nat /\ n <= MaxInt /\ c \in Nat /\ n + 1 <= c
    BY NewerCounted
  <1>2. k \in Nat /\ (p + 1) * PageSize = k + PageSize
    OBVIOUS
  <1>3. k <= n
    BY <1>1, <1>2
  <1>4. ~(k > MaxInt) /\ k <= MaxInt
    BY <1>1, <1>2, <1>3
  <1>5. Offset(p) = k
    BY <1>2, <1>4 DEF Offset, Product
  <1>6. PICK r \in posts : r.id = i
    BY DEF IdsOf
  <1>7. posts # {} /\ shown' = Rows(posts, p) /\ nav' \in Buttons(p, c)
    BY <1>6 DEF get_posts
  <1>8. r \notin Rows(posts, p)
    BY <1>6, <1>7 DEF IdsOf
  <1>9. ~(n < k + PageSize)
    <2>1. ~(Offset(p) <= n /\ n < Offset(p) + PageSize)
      BY <1>6, <1>8 DEF Rows
    <2> QED  BY <2>1, <1>3, <1>5
  <1>10. n >= k + PageSize
    BY <1>1, <1>2, <1>9
  <1>11. c > k + PageSize /\ c > PageSize /\ c - k > PageSize
    BY <1>1, <1>2, <1>10
  <1>12. "Next" \in nav'
    <2>1. ~(c <= PageSize)
      BY <1>1, <1>11
    <2>2. CASE p = 0
      BY <1>4, <1>7, <2>1, <2>2 DEF Buttons
    <2>3. CASE p # 0
      BY <1>4, <1>7, <1>11, <2>1, <2>3 DEF Buttons
    <2> QED  BY <2>2, <2>3
  <1> QED
    BY <1>2, <1>10, <1>12

(* Reading leaves the table as it is.                                      *)
LEMMA ReadingKeepsTable ==
    ASSUME Table, NEW p \in Nat, get_posts(p)
    PROVE  Table'
  BY DEF Table, get_posts, table, IdsOf

(* /api/home begins anew: what it does not show is a page further on.      *)
LEMMA HomeKeeps == Inv /\ view_home => Inv'
  <1> USE PagingAssumption
  <1> SUFFICES ASSUME Inv, view_home PROVE Inv'
    OBVIOUS
  <1>1. Table /\ get_posts(0) /\ at' = 0 /\ posts' = posts
    BY DEF Inv, view_home, get_posts, table
  <1>2. Table'
    BY <1>1, ReadingKeepsTable
  <1>3. ASSUME NEW i \in Unseen'
        PROVE  /\ i \in IdsOf(posts)'
               /\ Cardinality(NewerThan(posts, i))' >= (at' + 1) * PageSize
               /\ "Next" \in nav'
    <2>1. i \in IdsOf(posts) /\ i \notin IdsOf(shown')
      BY <1>3 DEF Unseen, view_home
    <2>2. Cardinality(NewerThan(posts, i)) >= 0 * PageSize
      BY <1>1, <2>1, NewerCounted
    <2>3. /\ Cardinality(NewerThan(posts, i)) >= (0 + 1) * PageSize
          /\ "Next" \in nav'
      BY <1>1, <2>1, <2>2, NotOnPage
    <2> QED  BY <1>1, <2>1, <2>3 DEF NewerThan, IdsOf
  <1> QED
    BY <1>2, <1>3 DEF Inv, StillAhead

(* The next page is at most one further, so what is left is still ahead.   *)
LEMMA ContinueKeeps == Inv /\ Continue => Inv'
  <1> USE PagingAssumption
  <1> SUFFICES ASSUME Inv, Continue PROVE Inv'
    OBVIOUS
  <1>1. at \in Nat
    BY DEF Inv, Table
  <1>2. PICK p \in 0..MaxPage : Turn(p) /\ p <= at + 1
    BY <1>1 DEF Continue, Turn
  <1>3. p \in Nat /\ Table /\ get_posts(p) /\ at' = p /\ posts' = posts
    BY <1>2 DEF Inv, Turn, get_posts, table
  <1>4. Table'
    BY <1>3, ReadingKeepsTable
  <1>5. ASSUME calm', NEW i \in Unseen'
        PROVE  /\ i \in IdsOf(posts)'
               /\ Cardinality(NewerThan(posts, i))' >= (at' + 1) * PageSize
               /\ "Next" \in nav'
    <2>1. calm /\ i \in Unseen /\ i \notin IdsOf(shown')
      BY <1>2, <1>5 DEF Unseen, Turn
    <2>2. i \in IdsOf(posts) /\ Cardinality(NewerThan(posts, i)) >= (at + 1) * PageSize
      BY <2>1 DEF Inv, StillAhead
    <2>3. (at + 1) * PageSize >= p * PageSize
      <3>1. PICK d \in Nat : at + 1 = p + d
        <4>1. (at + 1) - p \in Nat /\ at + 1 = p + ((at + 1) - p)
          BY <1>1, <1>2
        <4> QED  BY <4>1
      <3>2. (p + d) * PageSize = p * PageSize + d * PageSize
        BY <1>3
      <3>3. d * PageSize \in Nat /\ p * PageSize \in Nat
        BY <1>3
      <3> QED  BY <3>1, <3>2, <3>3
    <2>4. Cardinality(NewerThan(posts, i)) >= p * PageSize
      <3>1. Cardinality(NewerThan(posts, i)) \in Nat
        BY <1>3, <2>2, NewerCounted
      <3>2. p * PageSize \in Nat /\ (at + 1) * PageSize \in Nat
        BY <1>1, <1>3
      <3> QED  BY <2>2, <2>3, <3>1, <3>2
    <2>5. /\ Cardinality(NewerThan(posts, i)) >= (p + 1) * PageSize
          /\ "Next" \in nav'
      BY <1>3, <2>1, <2>2, <2>4, NotOnPage
    <2> QED  BY <1>3, <2>2, <2>5 DEF NewerThan, IdsOf
  <1> QED
    BY <1>4, <1>5 DEF Inv, StillAhead

(* A client that jumps begins anew, with nothing it is bound to be given.  *)
LEMMA JumpKeeps == \A p : Inv /\ Jump(p) => Inv'
  <1> SUFFICES ASSUME NEW p, Inv, Jump(p) PROVE Inv'
    OBVIOUS
  <1>1. p \in Nat /\ get_posts(p)
    BY PagingAssumption DEF Jump
  <1>2. Table'
    BY <1>1, ReadingKeepsTable DEF Inv
  <1>3. Unseen' = {}
    BY DEF Unseen, Jump
  <1> QED
    BY <1>2, <1>3 DEF Inv, StillAhead

-----------------------------------------------------------------------------

(* A write leaves the client where it is; unless it deletes, every post    *)
(* ahead of the client stays, with no fewer posts newer than it.           *)
LEMMA WritingKeepsAhead ==
    ASSUME Inv, Table', UNCHANGED reader, IdsOf(posts) \subseteq IdsOf(posts')
    PROVE  StillAhead'
  <1> USE PagingAssumption
  <1> SUFFICES ASSUME calm', NEW i \in Unseen'
               PROVE  /\ i \in IdsOf(posts')
                      /\ Cardinality(NewerThan(posts', i)) >= (at' + 1) * PageSize
                      /\ "Next" \in nav'
    BY DEF StillAhead, NewerThan, IdsOf
  <1>1. calm /\ i \in Unseen /\ at' = at /\ nav' = nav /\ at \in Nat
    BY DEF reader, Unseen, Inv, Table
  <1>2. /\ i \in IdsOf(posts) /\ "Next" \in nav
        /\ Cardinality(NewerThan(posts, i)) >= (at + 1) * PageSize
    BY <1>1 DEF Inv, StillAhead
  <1>3. IsFiniteSet(IdsOf(posts'))
    <2>1. /\ nextId' \in 1..(MaxId + 1)
          /\ IdsOf(posts') \subseteq 1..(nextId' - 1)
      BY DEF Table, IdsOf
    <2>2. IsFiniteSet(1..(nextId' - 1))
      BY <2>1, FS_Interval
    <2> QED  BY <2>1, <2>2, FS_Subset
  <1>4. /\ Cardinality(NewerThan(posts, i)) \in Nat
        /\ Cardinality(NewerThan(posts', i)) \in Nat
        /\ Cardinality(NewerThan(posts, i)) <= Cardinality(NewerThan(posts', i))
    BY <1>3, NewerGrow
  <1>5. (at + 1) * PageSize \in Nat
    BY <1>1
  <1> QED
    BY <1>1, <1>2, <1>4, <1>5

(* The writes: a post is added with the next id, changed in place,         *)
(* withdrawn.                                                              *)
LEMMA AddKeeps == \A text : Inv /\ Add(text) => Inv'
  <1> USE PagingAssumption
  <1> SUFFICES ASSUME NEW text, Inv, Add(text) PROVE Inv'
    OBVIOUS
  <1>1. IdsOf(posts') = IdsOf(posts) \cup {nextId}
    <2> DEFINE r == [id |-> nextId, text |-> text]
    <2>1. posts' = posts \cup {r} /\ r.id = nextId
      BY DEF Add
    <2> QED  BY <2>1 DEF IdsOf
  <1>2. IsFiniteSet(posts')
    BY FS_AddElement DEF Add, Inv, Table
  <1>3. Table'
    <2>1. nextId \in 1..(MaxId + 1) /\ nextId' = nextId + 1 /\ nextId <= MaxId /\ at' = at
      BY DEF Add, Inv, Table, reader
    <2>2. IdsOf(posts') \subseteq 1..(nextId' - 1)
      BY <1>1, <2>1 DEF Inv, Table
    <2> QED  BY <1>2, <2>1, <2>2 DEF Inv, Table, IdsOf
  <1>4. StillAhead'
    BY <1>1, <1>3, WritingKeepsAhead DEF Add
  <1> QED
    BY <1>3, <1>4 DEF Inv

LEMMA ChangeKeeps == \A i, text : Inv /\ Change(i, text) => Inv'
  <1> SUFFICES ASSUME NEW i, NEW text, Inv, Change(i, text) PROVE Inv'
    OBVIOUS
  <1> DEFINE new(r) == IF r.id = i THEN [id |-> i, text |-> text] ELSE r
             f == [r \in posts |-> new(r)]
  <1>1. posts' = {new(r) : r \in posts}
    BY DEF Change
  <1>2. IdsOf(posts') = IdsOf(posts)
    <2>1. \A r \in posts : new(r).id = r.id
      OBVIOUS
    <2> QED  BY <1>1, <2>1 DEF IdsOf
  <1>3. IsFiniteSet(posts')
    <2>1. f \in Surjection(posts, posts')
      BY <1>1 DEF Surjection
    <2> QED  BY <2>1, FS_Surjection DEF Inv, Table
  <1>4. Table'
    <2>1. nextId' = nextId /\ at' = at
      BY DEF Change, reader
    <2> QED  BY <1>2, <1>3, <2>1 DEF Inv, Table, IdsOf
  <1>5. StillAhead'
    BY <1>2, <1>4, WritingKeepsAhead DEF Change
  <1> QED
    BY <1>4, <1>5 DEF Inv

LEMMA WithdrawKeeps == \A i : Inv /\ Withdraw(i) => Inv'
  <1> SUFFICES ASSUME NEW i, Inv, Withdraw(i) PROVE Inv'
    OBVIOUS
  <1>1. posts' \subseteq posts /\ IsFiniteSet(posts')
    BY FS_Subset DEF Withdraw, Inv, Table
  <1>2. Table'
    BY <1>1 DEF Withdraw, Inv, Table, IdsOf
  <1>3. ~calm'
    BY DEF Withdraw
  <1> QED
    BY <1>2, <1>3 DEF Inv, StillAhead

(* What does not touch the table or the pages.                             *)
LEMMA IdleKeeps == Inv /\ UNCHANGED pvars => Inv'
  <1> SUFFICES ASSUME Inv, UNCHANGED pvars PROVE Inv'
    OBVIOUS
  <1>1. /\ posts' = posts /\ nextId' = nextId /\ at' = at /\ nav' = nav
        /\ due' = due /\ seen' = seen /\ calm' = calm
    BY DEF pvars
  <1>2. Table'
    BY <1>1 DEF Inv, Table, IdsOf
  <1>3. StillAhead'
    BY <1>1 DEF Inv, StillAhead, Unseen, IdsOf, NewerThan
  <1> QED
    BY <1>2, <1>3 DEF Inv

-----------------------------------------------------------------------------

(* What a step of the site does to the table and the reader's pages.       *)
LEMMA StepKeeps == Inv /\ [SiteNext]_svars => Inv'
  <1> SUFFICES ASSUME Inv, [SiteNext]_svars PROVE Inv'
    OBVIOUS
  <1>1. CASE \E f \in Forms : Submit(f)
    BY <1>1, IdleKeeps DEF Submit
  <1>2. CASE Process
    <2>1. \/ UNCHANGED pvars
          \/ \E title, content : create_post(title, content)
          \/ \E i, title, content : update_post(i, title, content)
          \/ \E i : delete_post(i)
      BY <1>2 DEF Process
    <2>2. ASSUME NEW title, NEW content, create_post(title, content) PROVE Inv'
      BY <2>2, IdleKeeps, AddKeeps DEF create_post
    <2>3. ASSUME NEW i, NEW title, NEW content, update_post(i, title, content) PROVE Inv'
      BY <2>3, IdleKeeps, ChangeKeeps DEF update_post
    <2>4. ASSUME NEW i, delete_post(i) PROVE Inv'
      BY <2>4, IdleKeeps, WithdrawKeeps DEF delete_post
    <2> QED  BY <2>1, <2>2, <2>3, <2>4, IdleKeeps
  <1>3. CASE Acknowledge
    BY <1>3, IdleKeeps DEF Acknowledge
  <1>4. CASE \E r \in shown : Click(r)
    BY <1>4, IdleKeeps DEF Click
  <1>5. CASE \E client \in run.clients : Ask(client)
    BY <1>5, IdleKeeps DEF Ask
  <1>6. CASE \E value \in run.values : Search(value)
    BY <1>6, IdleKeeps DEF Search
  <1>7. CASE TurnPages
    <2>1. view_home \/ Continue \/ \E p \in run.jumps : Jump(p)
      BY <1>7, Zenon DEF TurnPages
    <2> QED  BY <2>1, HomeKeeps, ContinueKeeps, JumpKeeps
  <1>8. CASE Leave
    BY <1>8, IdleKeeps DEF Leave
  <1>9. CASE \E button \in nav : Press(button)
    BY <1>9, IdleKeeps DEF Press
  <1>10. CASE UNCHANGED svars
    BY <1>10, IdleKeeps DEF svars, pvars
  <1> QED
    BY <1>1, <1>2, <1>3, <1>4, <1>5, <1>6, <1>7, <1>8, <1>9, <1>10 DEF SiteNext

-----------------------------------------------------------------------------
(* uri_decode, place after place, and what the scripts escape.             *)

(* The provers do not know that a text in quotes is one of STRING, so the  *)
(* characters the model itself writes are added to it.                     *)
Characters == STRING \cup Hex \cup Marks \cup {Other, "title", "content", "post_id"}
Plains     == Characters \ Marks

(* What stands for a mark when it is escaped: a percent sign and two       *)
(* characters that are no marks, from which uri_decode has the mark back.  *)
EscapeIs(c, h, l) ==
    /\ h \in Plains /\ l \in Plains
    /\ Escape(c) = <<"%", h, l>> /\ Reads(h, l) /\ Byte(h, l) = c

(* The marks, and the escape each has.                                     *)
LEMMA EscapeOf ==
    /\ Marks = {"sp", "!", "%", "&", "+", "-", ".", "="}
    /\ Marks \subseteq Characters /\ Hex \subseteq Plains
    /\ \A c \in Marks : \E h, l \in Plains : EscapeIs(c, h, l)
  <1>1. Marks = {"sp", "!", "%", "&", "+", "-", ".", "="}
    <2>1. Marks \subseteq {"sp", "!", "%", "&", "+", "-", ".", "="}
      BY DEF Marks, ascii
    <2>2. \A e \in ascii : e[1] \in Marks
      BY DEF Marks
    <2>3. {"sp", "!", "%", "&", "+", "-", ".", "="} \subseteq Marks
      BY <2>2 DEF ascii
    <2> QED  BY <2>1, <2>3
  <1>2. Marks \subseteq Characters
    BY DEF Characters
  <1>3. Hex \subseteq Plains
    BY <1>1 DEF Plains, Characters, Hex
  <1>4. ASSUME NEW c \in Marks PROVE \E h, l \in Plains : EscapeIs(c, h, l)
    <2>1. PICK e \in ascii : c = e[1]
      BY <1>4 DEF Marks
    <2>2. \A d \in ascii : d[1] = e[1] => d = e
      BY DEF ascii
    <2>3. \A d \in ascii : d[2] = e[2] /\ d[3] = e[3] => d = e
      BY DEF ascii
    <2>4. e[2] \in Hex /\ e[3] \in Hex
      BY DEF ascii, Hex
    <2> HIDE DEF ascii
    <2>5. (CHOOSE d \in ascii : d[1] = e[1]) = e
      BY <2>2
    <2>6. (CHOOSE d \in ascii : d[2] = e[2] /\ d[3] = e[3]) = e
      BY <2>3
    <2>7. Escape(c) = <<"%", e[2], e[3]>>
      BY <2>1, <2>5 DEF Escape
    <2>8. Byte(e[2], e[3]) = c
      BY <2>1, <2>6 DEF Byte
    <2>9. Reads(e[2], e[3])
      BY <2>4 DEF Reads
    <2> QED  BY <1>3, <2>4, <2>7, <2>8, <2>9 DEF EscapeIs
  <1> QED  BY <1>1, <1>2, <1>3, <1>4

(* The escape a script makes of a blank.                                   *)
LEMMA EscapeSp == EscapeIs("sp", "2", "0")
  <1>1. PICK h, l \in Plains : EscapeIs("sp", h, l)
    BY EscapeOf
  <1>2. <<"sp", "2", "0">> \in ascii /\ \A d \in ascii : d[1] = "sp" => d = <<"sp", "2", "0">>
    BY DEF ascii
  <1> DEFINE e == <<"sp", "2", "0">>
  <1>3. e \in ascii /\ (\A d \in ascii : d[1] = "sp" => d = e)
        /\ e[1] = "sp" /\ e[2] = "2" /\ e[3] = "0"
    BY <1>2
  <1> HIDE DEF e
  <1>4. (CHOOSE d \in ascii : d[1] = "sp") = e
    BY <1>3
  <1>6. Escape("sp") = <<"%", "2", "0">>
    BY <1>3, <1>4 DEF Escape
  <1>5. h = "2" /\ l = "0"
    <2>1. <<"%", h, l>> = <<"%", "2", "0">>
      BY <1>1, <1>6 DEF EscapeIs
    <2> QED  BY <2>1
  <1> QED  BY <1>1, <1>5

-----------------------------------------------------------------------------
(* uri_decode, character after character.                                  *)
Begun == [out |-> <<>>, next |-> 1]

(* A character of the text: it is passed over when an escape has taken it. *)
DecodeStep(in, done, i) ==
    IF i < done.next THEN done
    ELSE IF in[i] # "%"
    THEN [out |-> Append(done.out, IF in[i] = "+" THEN "sp" ELSE in[i]), next |-> i + 1]
    ELSE IF i + 2 <= Len(in) /\ Reads(in[i + 1], in[i + 2])
    THEN [out |-> Append(done.out, Byte(in[i + 1], in[i + 2])), next |-> i + 3]
    ELSE [out |-> done.out, next |-> Len(in) + 1]

(* The sequence of the places, which is what the fold is over.             *)
Places(in) == [i \in 1..Len(in) |-> i]

(* The fold goes through the sets of places, the greatest last.            *)
Folds(f, in, n) ==
    f = [s \in SUBSET (1..n) |->
            IF s = {} THEN Begun ELSE DecodeStep(in, f[s \ {Max(s)}], Places(in)[Max(s)])]

(* What has been decoded at each place.                                    *)
Decodes(g, in) == g[0] = Begun /\ \A i \in 1..Len(in) : g[i] = DecodeStep(in, g[i - 1], i)

(* The greatest of a set of places is the one that is.                     *)
LEMMA MaxIs ==
    ASSUME NEW n \in Nat, NEW s \in SUBSET (1..n), NEW m \in s, \A k \in s : m >= k
    PROVE  Max(s) = m
  <1>1. \A x \in s : x \in Nat
    OBVIOUS
  <1>2. ASSUME NEW x \in s, \A k \in s : x >= k PROVE x = m
    <2>1. x >= m /\ m >= x
      BY <1>2
    <2> QED  BY <1>1, <2>1
  <1> QED  BY <1>2 DEF Max

(* The fold over any number of places exists, so that CHOOSE has one.      *)
LEMMA FoldsExist ==
    ASSUME NEW in, NEW n \in Nat
    PROVE  \E f : Folds(f, in, n)
  <1> DEFINE D == {m \in Nat : \E f : Folds(f, in, m)}
  <1>1. 0 \in D
    <2> DEFINE f == [s \in SUBSET (1..0) |-> Begun]
    <2>1. \A s \in SUBSET (1..0) : s = {}
      OBVIOUS
    <2>2. f = [s \in SUBSET (1..0) |->
                 IF s = {} THEN Begun ELSE DecodeStep(in, f[s \ {Max(s)}], Places(in)[Max(s)])]
      BY <2>1
    <2>3. Folds(f, in, 0)
      BY <2>2 DEF Folds
    <2> HIDE DEF f
    <2> QED  BY <2>3
  <1>2. ASSUME NEW m \in Nat, m \in D PROVE m + 1 \in D
    <2>1. PICK f : Folds(f, in, m)
      BY <1>2
    <2> DEFINE Next1(s, x) == DecodeStep(in, f[s \ {x}], Places(in)[x])
               h == [s \in SUBSET (1..m + 1) |-> IF m + 1 \in s THEN Next1(s, m + 1) ELSE f[s]]
    <2>2. ASSUME NEW s \in SUBSET (1..m + 1)
          PROVE  h[s] = IF s = {} THEN Begun
                        ELSE DecodeStep(in, h[s \ {Max(s)}], Places(in)[Max(s)])
      <3>1. CASE m + 1 \in s
        <4>1. Max(s) = m + 1
          <5>1. \A k \in s : m + 1 >= k
            OBVIOUS
          <5>2. m + 1 \in Nat
            OBVIOUS
          <5> QED  BY <3>1, <5>1, <5>2, MaxIs
        <4>2. s \ {m + 1} \in SUBSET (1..m + 1) /\ m + 1 \notin s \ {m + 1}
          OBVIOUS
        <4>3. h[s \ {m + 1}] = f[s \ {m + 1}]
          BY <4>2
        <4>4. h[s] = Next1(s, m + 1)
          BY <3>1
        <4> HIDE DEF h
        <4> QED  BY <3>1, <4>1, <4>3, <4>4
      <3>2. CASE m + 1 \notin s
        <4>1. s \in SUBSET (1..m)
          BY <3>2
        <4>2. h[s] = f[s]
          BY <3>2
        <4>3. f[s] = IF s = {} THEN Begun
                     ELSE DecodeStep(in, f[s \ {Max(s)}], Places(in)[Max(s)])
          BY <2>1, <4>1 DEF Folds
        <4>4. h[s \ {Max(s)}] = f[s \ {Max(s)}]
          BY <3>2
        <4> HIDE DEF h
        <4> QED  BY <4>2, <4>3, <4>4
      <3> QED  BY <3>1, <3>2
    <2>3. Folds(h, in, m + 1)
      <3> HIDE DEF Next1
      <3> DEFINE e == [s \in SUBSET (1..m + 1) |->
                 IF s = {} THEN Begun ELSE DecodeStep(in, h[s \ {Max(s)}], Places(in)[Max(s)])]
      <3>1. \A s \in SUBSET (1..m + 1) : h[s] = e[s]
        BY <2>2
      <3>2. DOMAIN h = SUBSET (1..m + 1) /\ DOMAIN e = SUBSET (1..m + 1)
        OBVIOUS
      <3>3. h = e
        BY <3>1, <3>2
      <3> QED  BY <3>3 DEF Folds
    <2> HIDE DEF h
    <2> QED  BY <2>3
  <1> HIDE DEF D
  <1>3. n \in D
    BY <1>1, <1>2, SetInduction
  <1> QED  BY <1>3 DEF D

(* What uri_decode returns is what its steps have put out at the end.      *)
LEMMA DecodeIs ==
    ASSUME NEW in, Len(in) \in Nat
    PROVE  \E g : Decodes(g, in) /\ uri_decode(in) = g[Len(in)].out
  <1> DEFINE n == Len(in)
             f == CHOOSE h : Folds(h, in, n)
             g == [m \in 0..n |-> f[1..m]]
  <1>1. Folds(f, in, n)
    BY FoldsExist
  <1>2. uri_decode(in) = f[1..n].out
    <2>1. uri_decode(in)
            = (CHOOSE h : h = [s \in SUBSET DOMAIN Places(in) |->
                 IF s = {} THEN Begun
                 ELSE DecodeStep(in, h[s \ {Max(s)}], Places(in)[Max(s)])])[DOMAIN Places(in)].out
      BY DEF uri_decode, FoldLeft, MapThenFoldSet, DecodeStep, Places, Begun
    <2>2. DOMAIN Places(in) = 1..n
      BY DEF Places
    <2> QED  BY <2>1, <2>2 DEF Folds
  <1> HIDE DEF f
  <1>3. g[0] = Begun
    <2>1. 1..0 = {} /\ 1..0 \in SUBSET (1..n)
      OBVIOUS
    <2>2. f[1..0] = Begun
      BY <1>1, <2>1 DEF Folds
    <2> QED  BY <2>2
  <1>4. ASSUME NEW i \in 1..n PROVE g[i] = DecodeStep(in, g[i - 1], i)
    <2>1. Max(1..i) = i
      <3> DEFINE K == 1..i
      <3>1. K \in SUBSET (1..i) /\ i \in K /\ i \in Nat /\ \A k \in K : i >= k
        OBVIOUS
      <3> HIDE DEF K
      <3>2. Max(K) = i
        BY <3>1, MaxIs
      <3> QED  BY <3>2 DEF K
    <2>2. (1..i) \ {i} = 1..(i - 1) /\ 1..i # {} /\ 1..i \in SUBSET (1..n)
      OBVIOUS
    <2>3. Places(in)[i] = i
      BY DEF Places
    <2>4. f[1..i] = DecodeStep(in, f[1..(i - 1)], i)
      BY <1>1, <2>1, <2>2, <2>3 DEF Folds
    <2>5. g[i] = f[1..i] /\ g[i - 1] = f[1..(i - 1)]
      OBVIOUS
    <2> QED  BY <2>4, <2>5
  <1>5. g[n] = f[1..n]
    OBVIOUS
  <1> HIDE DEF g
  <1> QED  BY <1>2, <1>3, <1>4, <1>5 DEF Decodes

(* Byte gives a character for any two.                                     *)
LEMMA ByteType == \A h, l : Byte(h, l) \in Characters
  <1> SUFFICES ASSUME NEW h, NEW l PROVE Byte(h, l) \in Characters
    OBVIOUS
  <1>1. Marks \subseteq Characters /\ Other \in Characters
    BY EscapeOf DEF Characters
  <1>2. CASE \E e \in ascii : e[2] = h /\ e[3] = l
    <2> DEFINE d == CHOOSE e \in ascii : e[2] = h /\ e[3] = l
    <2>1. d \in ascii
      BY <1>2
    <2>2. d[1] \in Marks
      BY <2>1 DEF Marks
    <2> HIDE DEF d
    <2>3. Byte(h, l) = d[1]
      BY <1>2 DEF Byte, d
    <2> QED  BY <1>1, <2>2, <2>3
  <1>3. CASE ~\E e \in ascii : e[2] = h /\ e[3] = l
    BY <1>1, <1>3 DEF Byte
  <1> QED  BY <1>2, <1>3

(* What a step puts out, if anything.                                      *)
LEMMA StepPutsOut ==
    ASSUME NEW in, NEW done, NEW i
    PROVE  DecodeStep(in, done, i).out \in
               {done.out, Append(done.out, "sp"), Append(done.out, in[i]),
                Append(done.out, Byte(in[i + 1], in[i + 2]))}
  <1>1. CASE i < done.next
    BY <1>1 DEF DecodeStep
  <1>2. CASE ~(i < done.next) /\ in[i] # "%"
    <2>1. DecodeStep(in, done, i).out = Append(done.out, IF in[i] = "+" THEN "sp" ELSE in[i])
      BY <1>2 DEF DecodeStep
    <2>2. CASE in[i] = "+"
      BY <2>1, <2>2
    <2>3. CASE in[i] # "+"
      BY <2>1, <2>3
    <2> QED  BY <2>2, <2>3
  <1>3. CASE ~(i < done.next) /\ in[i] = "%"
    <2>1. CASE i + 2 <= Len(in) /\ Reads(in[i + 1], in[i + 2])
      BY <1>3, <2>1 DEF DecodeStep
    <2>2. CASE ~(i + 2 <= Len(in) /\ Reads(in[i + 1], in[i + 2]))
      BY <1>3, <2>2 DEF DecodeStep
    <2> QED  BY <2>1, <2>2
  <1> QED  BY <1>1, <1>2, <1>3

(* What is decoded is text.                                                *)
LEMMA DecodedType ==
    ASSUME NEW in \in Seq(Characters)
    PROVE  uri_decode(in) \in Seq(Characters)
  <1> DEFINE n == Len(in)
  <1>1. PICK g : Decodes(g, in) /\ uri_decode(in) = g[n].out
    BY DecodeIs
  <1> DEFINE D == {m \in Nat : m <= n => g[m].out \in Seq(Characters)}
  <1>2. 0 \in D
    <2>1. g[0].out = <<>>
      BY <1>1 DEF Decodes, Begun
    <2>2. <<>> \in Seq(Characters)
      OBVIOUS
    <2>3. g[0].out \in Seq(Characters)
      BY <2>1, <2>2
    <2> QED  BY <2>3
  <1>3. ASSUME NEW m \in Nat, m \in D PROVE m + 1 \in D
    <2>1. SUFFICES ASSUME m + 1 <= n PROVE g[m + 1].out \in Seq(Characters)
      OBVIOUS
    <2>2. g[m].out \in Seq(Characters)
      BY <1>3, <2>1
    <2>3. m + 1 \in 1..n /\ m + 1 - 1 = m
      BY <2>1
    <2>4. g[m + 1] = DecodeStep(in, g[m], m + 1)
      BY <1>1, <2>3 DEF Decodes
    <2>5. in[m + 1] \in Characters /\ "sp" \in Characters
      BY <2>3, EscapeOf
    <2> DEFINE a == in[m + 1]
               b == Byte(in[m + 1 + 1], in[m + 1 + 2])
               o == g[m].out
    <2>6. a \in Characters /\ b \in Characters
      BY <2>5, ByteType
    <2>7. g[m + 1].out \in {o, Append(o, "sp"), Append(o, a), Append(o, b)}
      BY <2>4, StepPutsOut
    <2>8. o \in Seq(Characters)
      BY <2>2
    <2> HIDE DEF a, b, o
    <2>9. /\ Append(o, a) \in Seq(Characters) /\ Append(o, b) \in Seq(Characters)
          /\ Append(o, "sp") \in Seq(Characters)
      BY <2>5, <2>6, <2>8
    <2> QED  BY <2>7, <2>8, <2>9
  <1> HIDE DEF D
  <1>4. n \in D
    BY <1>2, <1>3, SetInduction
  <1> QED  BY <1>1, <1>4 DEF D

-----------------------------------------------------------------------------
(* p follows a in all, and both together are b.                            *)
Within(S, a, p, b, all) ==
    /\ a \in Seq(S) /\ b \in Seq(S) /\ all \in Seq(S)
    /\ Len(b) = Len(a) + Len(p) /\ Len(b) <= Len(all)
    /\ \A j \in 1..Len(p) : all[Len(a) + j] = p[j]

(* Where the second of three parts stands.                                 *)
LEMMA MiddlePart ==
    ASSUME NEW S, NEW a \in Seq(S), NEW p \in Seq(S), NEW c \in Seq(S),
           NEW b, b = a \o p, NEW all, all = b \o c
    PROVE  Within(S, a, p, b, all)
  <1>1. /\ b \in Seq(S) /\ Len(b) = Len(a) + Len(p)
        /\ \A i \in 1..Len(a) + Len(p) : b[i] = IF i <= Len(a) THEN a[i] ELSE p[i - Len(a)]
    BY ConcatProperties
  <1>2. /\ all \in Seq(S) /\ Len(all) = Len(b) + Len(c)
        /\ \A i \in 1..Len(b) + Len(c) : all[i] = IF i <= Len(b) THEN b[i] ELSE c[i - Len(b)]
    BY <1>1, ConcatProperties
  <1>3. Len(a) \in Nat /\ Len(b) \in Nat /\ Len(c) \in Nat /\ Len(p) \in Nat
    BY <1>1
  <1>4. Len(b) <= Len(all)
    BY <1>2, <1>3
  <1>5. ASSUME NEW j \in 1..Len(p) PROVE all[Len(a) + j] = p[j]
    <2>1. /\ Len(a) + j \in 1..Len(a) + Len(p) /\ Len(a) + j - Len(a) = j
          /\ ~(Len(a) + j <= Len(a)) /\ Len(a) + j <= Len(b) /\ Len(a) + j \in 1..Len(b) + Len(c)
      BY <1>1, <1>3
    <2>2. b[Len(a) + j] = p[j]
      BY <1>1, <2>1
    <2>3. all[Len(a) + j] = b[Len(a) + j]
      BY <1>2, <2>1
    <2> QED  BY <2>2, <2>3
  <1> QED  BY <1>1, <1>2, <1>4, <1>5 DEF Within

(* Where part k + 1 of a sequence joined from parts stands in it.          *)
LEMMA PartAt ==
    ASSUME NEW S, NEW ss \in Seq(Seq(S)), NEW k \in Nat, k + 1 <= Len(ss)
    PROVE  Within(S, FlattenSeq(SubSeq(ss, 1, k)), ss[k + 1],
                  FlattenSeq(SubSeq(ss, 1, k + 1)), FlattenSeq(ss))
  <1> DEFINE a == FlattenSeq(SubSeq(ss, 1, k))
             b == FlattenSeq(SubSeq(ss, 1, k + 1))
             all == FlattenSeq(ss)
             u == SubSeq(ss, 1, k)
             v == SubSeq(ss, 1, k + 1)
             w == SubSeq(ss, k + 1 + 1, Len(ss))
             p == ss[k + 1]
             c == FlattenSeq(w)
  <1>1. u \in Seq(Seq(S)) /\ v \in Seq(Seq(S)) /\ w \in Seq(Seq(S)) /\ p \in Seq(S)
    OBVIOUS
  <1>2. v = Append(u, p)
    <2>1. v = u \o <<p>>
      BY OneMore
    <2> QED  BY <1>1, <2>1
  <1>3. ss = v \o w
    <2>1. 1 \in 1..Len(ss) + 1 /\ k + 1 \in 1 - 1..Len(ss) /\ Len(ss) \in k + 1..Len(ss)
      OBVIOUS
    <2>2. v \o w = SubSeq(ss, 1, Len(ss))
      BY <2>1, ConcatAdjacentSubSeq
    <2> QED  BY <2>2, SubSeqFull
  <1>4. a \in Seq(S) /\ b \in Seq(S) /\ c \in Seq(S)
    BY <1>1, FlattenType
  <1> HIDE DEF u, v, w, p
  <1>5. b = a \o p
    BY <1>1, <1>2, FlattenAppend DEF u, v
  <1>6. all = b \o c
    BY <1>1, <1>3, FlattenConcat DEF v
  <1> HIDE DEF c
  <1> HIDE DEF a, b, all
  <1>7. Within(S, a, p, b, all)
    BY <1>1, <1>4, <1>5, <1>6, MiddlePart, Zenon
  <1> QED  BY <1>7 DEF p, a, b, all

(* A part of an encoded text that stands for a character.                  *)
Spells(p, c) ==
    \/ \E x \in Characters \ {"%"} : p = <<x>> /\ c = IF x = "+" THEN "sp" ELSE x
    \/ \E h, l \in Plains : p = <<"%", h, l>> /\ EscapeIs(c, h, l)

(* So far the decoder has made the first k characters of v of the parts of *)
(* them, and goes on with the next.                                        *)
Reached(g, v, o, k) == g[o] = [out |-> SubSeq(v, 1, k), next |-> o + 1]

(* Such a part of the text, when the decoding reaches it, adds its         *)
(* character.                                                              *)
LEMMA DecodePart ==
    ASSUME NEW in \in Seq(Characters), NEW v \in Seq(Characters), NEW g, Decodes(g, in),
           NEW k \in Nat, k + 1 <= Len(v), NEW o \in Nat, Reached(g, v, o, k),
           NEW p \in Seq(Characters), o + Len(p) <= Len(in),
           \A j \in 1..Len(p) : in[o + j] = p[j],
           Spells(p, v[k + 1])
    PROVE  Reached(g, v, o + Len(p), k + 1)
  <1> DEFINE c == v[k + 1]
             s == SubSeq(v, 1, k)
  <1>1. SubSeq(v, 1, k + 1) = Append(s, c)
    <2>1. SubSeq(v, 1, k + 1) = s \o <<c>>
      BY OneMore
    <2>2. s \in Seq(Characters) /\ c \in Characters
      OBVIOUS
    <2> QED  BY <2>1, <2>2
  <1>2. g[o] = [out |-> s, next |-> o + 1]
    BY DEF Reached
  <1> HIDE DEF s
  <1>3. Len(in) \in Nat
    OBVIOUS
  <1>4. CASE \E x \in Characters \ {"%"} : p = <<x>> /\ c = IF x = "+" THEN "sp" ELSE x
    <2>1. PICK x \in Characters \ {"%"} : p = <<x>> /\ c = IF x = "+" THEN "sp" ELSE x
      BY <1>4
    <2>2. Len(p) = 1 /\ p[1] = x
      BY <2>1
    <2>3. o + 1 \in 1..Len(in) /\ o + 1 - 1 = o /\ in[o + 1] = x
      BY <1>3, <2>2
    <2>4. g[o + 1] = DecodeStep(in, g[o], o + 1)
      BY <2>3 DEF Decodes
    <2>5. ~(o + 1 < g[o].next) /\ g[o].out = s
      BY <1>2
    <2>6. g[o + 1] = [out |-> Append(s, IF in[o + 1] = "+" THEN "sp" ELSE in[o + 1]),
                      next |-> o + 1 + 1]
      BY <2>1, <2>3, <2>4, <2>5 DEF DecodeStep
    <2>7. g[o + 1] = [out |-> Append(s, c), next |-> o + 1 + 1]
      BY <2>1, <2>3, <2>6
    <2> QED  BY <1>1, <2>2, <2>7 DEF Reached
  <1>5. CASE \E h, l \in Plains : p = <<"%", h, l>> /\ EscapeIs(c, h, l)
    <2>1. PICK h, l \in Plains : p = <<"%", h, l>> /\ EscapeIs(c, h, l)
      BY <1>5
    <2>2. Len(p) = 3 /\ p[1] = "%" /\ p[2] = h /\ p[3] = l
      BY <2>1
    <2>3. /\ o + 1 \in 1..Len(in) /\ o + 1 - 1 = o /\ in[o + 1] = "%"
          /\ in[o + 2] = h /\ in[o + 3] = l
          /\ o + 2 \in 1..Len(in) /\ o + 2 - 1 = o + 1
          /\ o + 3 \in 1..Len(in) /\ o + 3 - 1 = o + 2
      BY <1>3, <2>2
    <2>4. g[o + 1] = DecodeStep(in, g[o], o + 1)
      BY <2>3 DEF Decodes
    <2>5. ~(o + 1 < g[o].next) /\ g[o].out = s
      BY <1>2
    <2>6. Reads(h, l) /\ Byte(h, l) = c
      BY <2>1 DEF EscapeIs
    <2>7. o + 1 + 2 <= Len(in) /\ in[o + 1 + 1] = h /\ in[o + 1 + 2] = l
      BY <2>3
    <2>8. g[o + 1] = [out |-> Append(s, c), next |-> o + 1 + 3]
      BY <2>3, <2>4, <2>5, <2>6, <2>7 DEF DecodeStep
    <2>9. g[o + 2] = DecodeStep(in, g[o + 1], o + 2)
      BY <2>3 DEF Decodes
    <2>10. o + 2 < o + 1 + 3 /\ o + 3 < o + 1 + 3
      OBVIOUS
    <2>11. g[o + 2] = g[o + 1]
      BY <2>8, <2>9, <2>10 DEF DecodeStep
    <2>12. g[o + 3] = DecodeStep(in, g[o + 2], o + 3)
      BY <2>3 DEF Decodes
    <2>13. g[o + 3] = g[o + 1]
      BY <2>8, <2>10, <2>11, <2>12 DEF DecodeStep
    <2>14. o + 1 + 3 = o + 3 + 1
      OBVIOUS
    <2> QED  BY <1>1, <2>2, <2>8, <2>13, <2>14 DEF Reached
  <1> QED  BY <1>4, <1>5 DEF Spells

(* So a text is decoded to what its parts stand for.                       *)
LEMMA Decoded ==
    ASSUME NEW v \in Seq(Characters), NEW ss \in Seq(Seq(Characters)), Len(ss) = Len(v),
           \A k \in 1..Len(v) : Spells(ss[k], v[k])
    PROVE  uri_decode(FlattenSeq(ss)) = v
  <1> DEFINE in == FlattenSeq(ss)
             A(k) == FlattenSeq(SubSeq(ss, 1, k))
             n == Len(v)
  <1>1. in \in Seq(Characters) /\ Len(in) \in Nat /\ n \in Nat
    BY FlattenType
  <1> HIDE DEF in
  <1>2. PICK g : Decodes(g, in) /\ uri_decode(in) = g[Len(in)].out
    BY <1>1, DecodeIs
  <1> DEFINE D == {k \in Nat : k <= n => Reached(g, v, Len(A(k)), k)}
  <1>3. 0 \in D
    <2>1. SubSeq(ss, 1, 0) = <<>> /\ SubSeq(v, 1, 0) = <<>>
      OBVIOUS
    <2>2. A(0) = <<>> /\ Len(A(0)) = 0
      <3>1. Len(<<>>) = 0
        OBVIOUS
      <3> QED  BY <2>1, <3>1, FlattenEmpty
    <2>3. g[0] = [out |-> <<>>, next |-> 0 + 1]
      BY <1>2 DEF Decodes, Begun
    <2> QED  BY <2>1, <2>2, <2>3 DEF Reached
  <1>4. ASSUME NEW k \in Nat, k \in D PROVE k + 1 \in D
    <2>1. SUFFICES ASSUME k + 1 <= n PROVE Reached(g, v, Len(A(k + 1)), k + 1)
      OBVIOUS
    <2> DEFINE a == A(k)
               b == A(k + 1)
               p == ss[k + 1]
    <2>2. Reached(g, v, Len(a), k)
      BY <1>4, <2>1
    <2>3. Within(Characters, a, p, b, in)
      <3>1. k + 1 <= Len(ss)
        BY <2>1
      <3> QED  BY <3>1, PartAt DEF in
    <2>4. p \in Seq(Characters) /\ Spells(p, v[k + 1])
      BY <2>1
    <2>5. k + 1 <= Len(v)
      BY <2>1
    <2> HIDE DEF a, b, p
    <2>6. /\ Len(a) \in Nat /\ Len(a) + Len(p) <= Len(in) /\ Len(b) = Len(a) + Len(p)
          /\ \A j \in 1..Len(p) : in[Len(a) + j] = p[j]
      BY <2>3 DEF Within
    <2>7. Reached(g, v, Len(a) + Len(p), k + 1)
      BY <1>1, <1>2, <2>2, <2>4, <2>5, <2>6, DecodePart
    <2> QED  BY <2>6, <2>7 DEF b
  <1> HIDE DEF D
  <1>5. n \in D
    BY <1>1, <1>3, <1>4, SetInduction
  <1>6. SubSeq(ss, 1, n) = ss /\ SubSeq(v, 1, n) = v
    OBVIOUS
  <1>7. Reached(g, v, Len(in), n)
    <2>1. n <= n
      BY <1>1
    <2>2. Reached(g, v, Len(A(n)), n)
      BY <1>5, <2>1 DEF D
    <2> QED  BY <1>6, <2>2 DEF in
  <1> QED  BY <1>2, <1>6, <1>7 DEF Reached, in

(* What the values of a form are made of, and what REGEXSEARCH takes.      *)
Kept       == Characters \ {"&", "="}
Searchable == Characters \ (Marks \ {"%", "-", "+"})

(* The parts of an encoded text, one for each of its characters.           *)
AreParts(ss, v, T) == /\ ss \in Seq(Seq(T)) /\ Len(ss) = Len(v)
                      /\ \A k \in 1..Len(v) : Spells(ss[k], v[k])

(* A text put together from such parts is decoded to what they stand for.  *)
LEMMA PartsDecoded ==
    ASSUME NEW v \in Seq(Characters), NEW T, T \subseteq Characters, NEW ss, AreParts(ss, v, T)
    PROVE  FlattenSeq(ss) \in Seq(T) /\ uri_decode(FlattenSeq(ss)) = v
  <1>1. ss \in Seq(Seq(T)) /\ Len(ss) = Len(v) /\ \A k \in 1..Len(v) : Spells(ss[k], v[k])
    BY DEF AreParts
  <1>2. FlattenSeq(ss) \in Seq(T)
    BY <1>1, FlattenType
  <1>3. ss \in Seq(Seq(Characters))
    <2>1. \A k \in 1..Len(ss) : ss[k] \in Seq(Characters)
      <3>1. \A x \in Seq(T) : x \in Seq(Characters)
        OBVIOUS
      <3> QED  BY <1>1, <3>1
    <2>2. ss \in [1..Len(ss) -> Seq(Characters)] /\ Len(ss) \in Nat
      BY <1>1, <2>1
    <2> QED  BY <2>2
  <1>4. uri_decode(FlattenSeq(ss)) = v
    BY <1>1, <1>3, Decoded
  <1> QED  BY <1>2, <1>4

(* One character of encodeURIComponent.                                    *)
LEMMA ComponentIs ==
    ASSUME NEW c \in Characters
    PROVE  /\ Spells(Component(c), c) /\ Component(c) \in Seq(Kept)
           /\ c \notin {".", "!"} => Component(c) \in Seq(Searchable)
  <1>1. CASE c \in Marks \ {"-", ".", "!"}
    <2>1. PICK h, l \in Plains : EscapeIs(c, h, l)
      BY <1>1, EscapeOf
    <2>2. Component(c) = <<"%", h, l>>
      BY <1>1, <2>1 DEF Component, EscapeIs
    <2>3. h \in Kept /\ l \in Kept /\ "%" \in Kept
      BY EscapeOf DEF Plains, Kept
    <2>4. h \in Searchable /\ l \in Searchable /\ "%" \in Searchable
      BY EscapeOf DEF Plains, Searchable
    <2>5. Spells(<<"%", h, l>>, c)
      BY <2>1 DEF Spells
    <2>6. <<"%", h, l>> \in Seq(Kept) /\ <<"%", h, l>> \in Seq(Searchable)
      BY <2>3, <2>4
    <2> QED  BY <2>2, <2>5, <2>6
  <1>2. CASE c \notin Marks \ {"-", ".", "!"}
    <2>1. Component(c) = <<c>>
      BY <1>2 DEF Component
    <2>2. c \in Kept /\ c # "%" /\ c # "+"
      BY <1>2, EscapeOf DEF Kept
    <2>3. c \notin {".", "!"} => c \in Searchable
      BY <1>2, EscapeOf DEF Searchable
    <2>4. Spells(<<c>>, c)
      BY <2>2 DEF Spells
    <2> QED  BY <2>1, <2>2, <2>3, <2>4
  <1> QED  BY <1>1, <1>2

(* What the browser makes of a field of a form is decoded to what was      *)
(* typed, and has no & and no =.                                           *)
LEMMA ValueDecoded ==
    ASSUME NEW v \in Seq(Characters), NEW blank \in Blanks
    PROVE  FormValue(v, blank) \in Seq(Kept) /\ uri_decode(FormValue(v, blank)) = v
  <1> DEFINE ss == [i \in 1..Len(v) |-> IF v[i] = "sp" THEN blank ELSE Component(v[i])]
  <1>1. FormValue(v, blank) = FlattenSeq(ss)
    BY DEF FormValue, Each
  <1>2. blank \in Seq(Kept) /\ Spells(blank, "sp")
    <2>1. CASE blank = <<"+">>
      <3>1. "+" \in Characters \ {"%"} /\ "+" \in Kept
        BY EscapeOf DEF Kept
      <3> QED  BY <2>1, <3>1 DEF Spells
    <2>2. CASE blank = <<"%", "2", "0">>
      <3>1. "%" \in Kept /\ "2" \in Kept /\ "0" \in Kept /\ "2" \in Plains /\ "0" \in Plains
        BY EscapeOf DEF Kept, Plains, Hex
      <3>2. EscapeIs("sp", "2", "0")
        BY EscapeSp
      <3> QED  BY <2>2, <3>1, <3>2 DEF Spells
    <2> QED  BY <2>1, <2>2 DEF Blanks
  <1>3. ASSUME NEW i \in 1..Len(v)
        PROVE  ss[i] \in Seq(Kept) /\ Spells(ss[i], v[i])
    <2>1. v[i] \in Characters
      OBVIOUS
    <2> QED  BY <1>2, <2>1, ComponentIs
  <1>4. Kept \subseteq Characters
    BY DEF Kept
  <1>5. AreParts(ss, v, Kept)
    <2>1. ss \in [1..Len(v) -> Seq(Kept)] /\ Len(v) \in Nat
      BY <1>3
    <2> HIDE DEF ss
    <2>2. ss \in Seq(Seq(Kept)) /\ Len(ss) = Len(v)
      BY <2>1, FunctionIsSeq
    <2> QED  BY <1>3, <2>2 DEF AreParts
  <1> HIDE DEF ss
  <1> QED  BY <1>1, <1>4, <1>5, PartsDecoded

(* What encodeURIComponent makes of a search is decoded to it; the pattern *)
(* takes it unless it has one of the marks that are left as they are.      *)
LEMMA SearchDecoded ==
    ASSUME NEW v \in Seq(Characters), \A i \in 1..Len(v) : v[i] \notin {".", "!"}
    PROVE  /\ encodeURIComponent(v) \in Seq(Searchable)
           /\ uri_decode(encodeURIComponent(v)) = v
  <1> DEFINE ss == [i \in 1..Len(v) |-> Component(v[i])]
  <1>1. encodeURIComponent(v) = FlattenSeq(ss)
    BY DEF encodeURIComponent, Each
  <1>2. ASSUME NEW i \in 1..Len(v)
        PROVE  ss[i] \in Seq(Searchable) /\ Spells(ss[i], v[i])
    <2>1. v[i] \in Characters /\ v[i] \notin {".", "!"}
      OBVIOUS
    <2> QED  BY <2>1, ComponentIs
  <1>3. Searchable \subseteq Characters
    BY DEF Searchable
  <1>4. AreParts(ss, v, Searchable)
    <2>1. ss \in [1..Len(v) -> Seq(Searchable)] /\ Len(v) \in Nat
      BY <1>2
    <2> HIDE DEF ss
    <2>2. ss \in Seq(Seq(Searchable)) /\ Len(ss) = Len(v)
      BY <2>1, FunctionIsSeq
    <2> QED  BY <1>2, <2>2 DEF AreParts
  <1> HIDE DEF ss
  <1> QED  BY <1>1, <1>3, <1>4, PartsDecoded

(* The address made of a title is one the patterns take, if anything is    *)
(* left of the title.                                                      *)
LEMMA SlugType ==
    ASSUME NEW v \in Seq(Characters)
    PROVE  title_encode(v) \in Seq(Searchable)
  <1> DEFINE ss == [i \in 1..Len(v) |-> TitleCharacter(v[i])]
  <1>1. title_encode(v) = FlattenSeq(ss)
    BY DEF title_encode, Each
  <1>2. ASSUME NEW c \in Characters PROVE TitleCharacter(c) \in Seq(Searchable)
    <2>1. CASE c \in {"%", "."}
      BY <2>1 DEF TitleCharacter
    <2>2. CASE c = "sp"
      <3>1. "-" \in Searchable
        BY EscapeOf DEF Searchable
      <3> QED  BY <2>2, <3>1 DEF TitleCharacter
    <2>3. CASE c \notin {"%", ".", "sp"} /\ (c \notin Marks \/ c = "-")
      <3>1. c \in Searchable
        BY <2>3, EscapeOf DEF Searchable
      <3> QED  BY <2>3, <3>1 DEF TitleCharacter
    <2>4. CASE c \notin {"%", ".", "sp"} /\ c \in Marks /\ c # "-"
      <3>1. PICK h, l \in Plains : EscapeIs(c, h, l)
        BY <2>4, EscapeOf
      <3>2. TitleCharacter(c) = <<"%", h, l>>
        BY <2>4, <3>1 DEF TitleCharacter, EscapeIs
      <3>3. h \in Searchable /\ l \in Searchable /\ "%" \in Searchable
        BY EscapeOf DEF Plains, Searchable
      <3> QED  BY <3>2, <3>3
    <2> QED  BY <2>1, <2>2, <2>3, <2>4
  <1>3. ss \in Seq(Seq(Searchable))
    <2>1. ss \in [1..Len(v) -> Seq(Searchable)] /\ Len(v) \in Nat
      BY <1>2
    <2> HIDE DEF ss
    <2> QED  BY <2>1, FunctionIsSeq
  <1> HIDE DEF ss
  <1> QED  BY <1>1, <1>3, FlattenType

-----------------------------------------------------------------------------
(* The fields of a form.                                                   *)

(* A word of the content begins at place i, with this key.                 *)
Starts(s, key, i) == s[i] = key /\ (i = 1 \/ s[i - 1] = "&")
NoStart(s, key)   == \A i \in 1..Len(s) : ~Starts(s, key, i)

(* The word that is key = value, from a to b, and no other with that key.  *)
OnlyField(s, key, a, b) ==
    /\ a \in 1..Len(s) /\ b \in 1..Len(s) /\ a + 1 <= b
    /\ Starts(s, key, a) /\ s[a + 1] = "=" /\ \A i \in a..b : s[i] # "&"
    /\ b = Len(s) \/ s[b + 1] = "&"
    /\ \A i \in 1..Len(s) : Starts(s, key, i) => i = a

(* A part of one character.                                                *)
LEMMA OneElement ==
    ASSUME NEW S, NEW s \in Seq(S), NEW m \in 1..Len(s)
    PROVE  SubSeq(s, m, m) = <<s[m]>>
  <1>1. Len(s) \in Nat /\ m \in Int /\ m - 1 \in Int /\ m - 1 < m /\ m \in m..Len(s) /\ s[m] \in S
    OBVIOUS
  <1>2. SubSeq(s, m, m) = SubSeq(s, m, m - 1) \o <<s[m]>>
    BY <1>1, SubSeqRecursiveSecond
  <1>3. SubSeq(s, m, m - 1) = <<>>
    BY <1>1, SubSeqEmpty
  <1>4. <<s[m]>> \in Seq(S)
    BY <1>1
  <1>5. <<>> \o <<s[m]>> = <<s[m]>>
    BY <1>4, ConcatEmptySeq
  <1> QED  BY <1>2, <1>3, <1>5

(* The key of a word is its first character if it is one only.             *)
LEMMA KeyFirst ==
    ASSUME NEW S, NEW s \in Seq(S), NEW key, NEW m \in 1..Len(s), NEW n \in (m - 1)..Len(s),
           SubSeq(s, m, n) = <<key>>
    PROVE  s[m] = key
  <1>1. Len(s) \in Nat
    OBVIOUS
  <1>2. CASE m <= n
    <2>1. n \in m..Len(s)
      BY <1>1, <1>2
    <2>2. SubSeq(s, m, n) = <<s[m]>> \o SubSeq(s, m + 1, n)
      BY <2>1, SubSeqRecursiveFirst
    <2>3. SubSeq(s, m + 1, n) \in Seq(S) /\ s[m] \in S
      BY <1>1, <2>1
    <2> DEFINE h == <<s[m]>>
               t == SubSeq(s, m + 1, n)
    <2>4. h \in Seq(S) /\ t \in Seq(S) /\ Len(h) = 1 /\ Len(t) \in Nat /\ h[1] = s[m]
      BY <2>3
    <2> HIDE DEF h, t
    <2>5. 1 \in 1..Len(h) + Len(t) /\ 1 <= Len(h)
      BY <2>4
    <2>6. (h \o t)[1] = s[m]
      BY <2>4, <2>5, ConcatProperties
    <2>7. SubSeq(s, m, n)[1] = s[m]
      BY <2>2, <2>6 DEF h, t
    <2> QED  BY <2>7
  <1>3. CASE ~(m <= n)
    <2>1. m \in Int /\ n \in Int /\ n < m
      BY <1>1, <1>3
    <2>2. SubSeq(s, m, n) = <<>>
      BY <2>1, SubSeqEmpty
    <2>3. <<>> # <<key>>
      OBVIOUS
    <2> QED  BY <2>2, <2>3
  <1> QED  BY <1>2, <1>3

(* get_post_data has what is between the key and the end of its word.      *)
LEMMA FieldData ==
    ASSUME NEW s \in Seq(Characters), NEW key, key \notin {"&", "="}, NEW a, NEW b,
           OnlyField(s, key, a, b)
    PROVE  get_post_data(s, <<key>>) = SubSeq(s, a + 2, b)
  <1> DEFINE n == Len(s)
             w == <<a, b>>
  <1>0. n \in Nat
    OBVIOUS
  <1>1. /\ a \in 1..n /\ b \in 1..n /\ a + 1 <= b /\ s[a] = key /\ (a = 1 \/ s[a - 1] = "&")
        /\ s[a + 1] = "=" /\ (\A i \in a..b : s[i] # "&") /\ (b = n \/ s[b + 1] = "&")
        /\ \A i \in 1..n : s[i] = key /\ (i = 1 \/ s[i - 1] = "&") => i = a
    BY DEF OnlyField, Starts
  <1>2. w \in Words(s)
    <2>1. w \in (1..n) \X (1..n) /\ w[1] = a /\ w[2] = b
      BY <1>1
    <2> HIDE DEF w
    <2> QED  BY <1>0, <1>1, <2>1 DEF Words
  <1>3. Equals(s, w) = {a + 1}
    <2>1. w[1] = a /\ w[2] = b
      OBVIOUS
    <2>2. a + 1 \in a..b /\ \A j \in a..(a + 1 - 1) : s[j] # "="
      BY <1>0, <1>1
    <2>3. ASSUME NEW i \in a..b, s[i] = "=", \A j \in a..(i - 1) : s[j] # "=" PROVE i = a + 1
      <3>1. i # a
        BY <1>1, <2>3
      <3>2. i > a + 1 => a + 1 \in a..(i - 1)
        BY <1>0, <1>1
      <3> QED  BY <1>0, <1>1, <2>3, <3>1, <3>2
    <2> HIDE DEF w
    <2> QED  BY <1>1, <2>1, <2>2, <2>3 DEF Equals
  <1>4. (CHOOSE i \in Equals(s, w) : TRUE) = a + 1
    BY <1>3
  <1>5. KeyIn(s, w) = <<key>>
    <2> DEFINE e == CHOOSE i \in Equals(s, w) : TRUE
    <2>0. w[1] = a /\ Equals(s, w) # {} /\ e = a + 1
      BY <1>3, <1>4
    <2> HIDE DEF w
    <2>1. KeyIn(s, w) = SubSeq(s, a, e - 1)
      BY <2>0 DEF KeyIn
    <2> HIDE DEF e
    <2>3. SubSeq(s, a, a) = <<s[a]>>
      BY <1>1, OneElement
    <2>4. e - 1 = a
      <3>1. a \in Int
        BY <1>1
      <3> QED  BY <2>0, <3>1
    <2>5. KeyIn(s, w) = SubSeq(s, a, a)
      BY <2>1, <2>4
    <2> QED  BY <1>1, <2>3, <2>5
  <1>6. ValueIn(s, w) = SubSeq(s, a + 2, b)
    <2>1. ValueIn(s, w) = SubSeq(s, a + 1 + 1, b)
      BY <1>3, <1>4 DEF ValueIn
    <2>2. a + 1 + 1 = a + 2
      BY <1>0, <1>1
    <2> QED  BY <2>1, <2>2
  <1>7. ASSUME NEW v \in Words(s), KeyIn(s, v) = <<key>> PROVE v = w
    <2> DEFINE m == v[1]
               k == v[2]
               x == IF Equals(s, v) = {} THEN k ELSE (CHOOSE i \in Equals(s, v) : TRUE) - 1
    <2>1. /\ v = <<m, k>> /\ m \in 1..n /\ k \in 1..n /\ m <= k /\ \A i \in m..k : s[i] # "&"
          /\ (m = 1 \/ s[m - 1] = "&") /\ (k = n \/ s[k + 1] = "&")
      BY <1>7 DEF Words
    <2>2. Equals(s, v) \subseteq m..k
      BY DEF Equals
    <2> HIDE DEF m, k
    <2>3. x \in (m - 1)..n
      <3>1. CASE Equals(s, v) = {}
        BY <1>0, <2>1, <3>1
      <3>2. CASE Equals(s, v) # {}
        <4>1. (CHOOSE i \in Equals(s, v) : TRUE) \in m..k
          BY <2>2, <3>2
        <4> QED  BY <1>0, <2>1, <3>2, <4>1
      <3> QED  BY <3>1, <3>2
    <2>4. SubSeq(s, m, x) = <<key>>
      BY <1>7 DEF KeyIn, m, k
    <2> HIDE DEF x
    <2>5. s[m] = key
      BY <2>1, <2>3, <2>4, KeyFirst
    <2>6. m = a
      BY <1>1, <2>1, <2>5
    <2>7. ~(k < b)
      <3>1. SUFFICES ASSUME k < b PROVE FALSE
        OBVIOUS
      <3>2. k + 1 \in a..b /\ k # n
        BY <1>0, <1>1, <2>1, <2>6, <3>1
      <3> QED  BY <1>1, <2>1, <3>2
    <2>8. ~(b < k)
      <3>1. SUFFICES ASSUME b < k PROVE FALSE
        OBVIOUS
      <3>2. b + 1 \in m..k /\ b # n
        BY <1>0, <1>1, <2>1, <2>6, <3>1
      <3> QED  BY <1>1, <2>1, <3>2
    <2>9. k = b
      BY <1>0, <1>1, <2>1, <2>7, <2>8
    <2> QED  BY <2>1, <2>6, <2>9
  <1> DEFINE found == {v \in Words(s) : KeyIn(s, v) = <<key>>}
  <1>8. found = {w}
    BY <1>2, <1>5, <1>7
  <1>9. a <= a
    BY <1>1, <1>0
  <1> HIDE DEF found
  <1>11. (CHOOSE u \in found : \A v \in found : v[1] <= u[1]) \in found
    BY <1>8, <1>9
  <1>12. get_post_data(s, <<key>>) = ValueIn(s, w)
    BY <1>8, <1>11 DEF get_post_data, found
  <1> QED  BY <1>6, <1>12

(* Two sequences that agree in length and place by place are one.          *)
LEMMA SameSequence ==
    ASSUME NEW S, NEW x \in Seq(S), NEW T, NEW y \in Seq(T), Len(x) = Len(y),
           \A i \in 1..Len(x) : x[i] = y[i]
    PROVE  x = y
  <1>1. Len(x) \in Nat /\ DOMAIN x = 1..Len(x) /\ DOMAIN y = 1..Len(x)
    OBVIOUS
  <1>2. x = [i \in 1..Len(x) |-> x[i]] /\ y = [i \in 1..Len(x) |-> y[i]]
    BY <1>1
  <1> QED  BY <1>2

(* The places of two sequences joined.                                     *)
JoinIs(x, y, z) ==
    /\ Len(z) = Len(x) + Len(y) /\ Len(x) \in Nat /\ Len(y) \in Nat /\ Len(z) \in Nat
    /\ \A i \in 1..Len(x) : z[i] = x[i]
    /\ \A i \in 1..Len(y) : z[Len(x) + i] = y[i]
    /\ \A i \in 1..Len(z) : i \in 1..Len(x) \/ (i - Len(x) \in 1..Len(y) /\ z[i] = y[i - Len(x)])

(* Joined sequences are such a sequence.                                   *)
LEMMA Join ==
    ASSUME NEW S, NEW x \in Seq(S), NEW y \in Seq(S)
    PROVE  x \o y \in Seq(S) /\ JoinIs(x, y, x \o y)
  <1> DEFINE z == x \o y
  <1>1. /\ z \in Seq(S) /\ Len(z) = Len(x) + Len(y)
        /\ \A i \in 1..Len(x) + Len(y) : z[i] = IF i <= Len(x) THEN x[i] ELSE y[i - Len(x)]
    BY ConcatProperties
  <1>2. Len(x) \in Nat /\ Len(y) \in Nat /\ Len(z) \in Nat
    BY <1>1
  <1> HIDE DEF z
  <1>3. \A i \in 1..Len(x) : z[i] = x[i]
    BY <1>1, <1>2
  <1>4. ASSUME NEW i \in 1..Len(y) PROVE z[Len(x) + i] = y[i]
    <2>1. Len(x) + i \in 1..Len(x) + Len(y) /\ ~(Len(x) + i <= Len(x)) /\ Len(x) + i - Len(x) = i
      BY <1>2
    <2> QED  BY <1>1, <2>1
  <1>5. \A i \in 1..Len(z) : i \in 1..Len(x) \/ (i - Len(x) \in 1..Len(y) /\ z[i] = y[i - Len(x)])
    BY <1>1, <1>2
  <1>6. z \in Seq(S) /\ JoinIs(x, y, z)
    BY <1>1, <1>2, <1>3, <1>4, <1>5 DEF JoinIs
  <1> QED  BY <1>6 DEF z

-----------------------------------------------------------------------------
(* A field is its key, = and its value.                                    *)
FieldIs(f, key, v) ==
    /\ f \in Seq(Characters) /\ Len(f) = Len(v) + 2 /\ Len(v) \in Nat
    /\ f[1] = key /\ f[2] = "="
    /\ \A i \in 1..Len(v) : f[i + 2] = v[i]

(* A field of a form is its key, the equals sign and the value.            *)
LEMMA FieldOf ==
    ASSUME NEW key \in Characters, NEW v \in Seq(Kept)
    PROVE  FieldIs(Field(key, v), key, v)
  <1> DEFINE h == <<key, "=">>
             f == Field(key, v)
  <1>1. h \in Seq(Characters) /\ Len(h) = 2 /\ h[1] = key /\ h[2] = "="
    BY EscapeOf
  <1>2. v \in Seq(Characters) /\ Len(v) \in Nat
    BY DEF Kept
  <1>3. f = h \o v
    BY DEF Field
  <1> HIDE DEF h, f
  <1>4. f \in Seq(Characters) /\ JoinIs(h, v, f)
    BY <1>1, <1>2, <1>3, Join
  <1>5. /\ Len(f) = 2 + Len(v) /\ (\A i \in 1..2 : f[i] = h[i])
        /\ \A i \in 1..Len(v) : f[2 + i] = v[i]
    BY <1>1, <1>4 DEF JoinIs
  <1>6. f[1] = key /\ f[2] = "="
    BY <1>1, <1>5
  <1>7. ASSUME NEW i \in 1..Len(v) PROVE f[i + 2] = v[i]
    <2>1. i + 2 = 2 + i
      BY <1>2
    <2> QED  BY <1>5, <2>1
  <1>8. FieldIs(f, key, v)
    BY <1>2, <1>4, <1>5, <1>6, <1>7 DEF FieldIs
  <1> QED  BY <1>8 DEF f

(* No word begins in a field but the field itself.                         *)
LEMMA NoStartField ==
    ASSUME NEW k, NEW v \in Seq(Kept), NEW f, FieldIs(f, k, v),
           NEW key, key \notin {"&", "=", k}, k # "&"
    PROVE  NoStart(f, key)
  <1>1. SUFFICES ASSUME NEW i \in 1..Len(f), f[i] = key, i = 1 \/ f[i - 1] = "&" PROVE FALSE
    BY DEF NoStart, Starts
  <1>2. Len(v) \in Nat /\ Len(f) = Len(v) + 2 /\ f[1] = k /\ f[2] = "="
    BY DEF FieldIs
  <1>3. i # 1 /\ i # 2
    BY <1>1, <1>2
  <1>4. i - 1 # 1 /\ i - 1 \in 1..Len(f)
    BY <1>2, <1>3
  <1>5. f[i - 1] # "&"
    <2>1. CASE i - 1 = 2
      BY <1>2, <2>1
    <2>2. CASE i - 1 # 2
      <3>1. i - 3 \in 1..Len(v) /\ i - 3 + 2 = i - 1
        BY <1>2, <1>3, <1>4, <2>2
      <3>2. f[i - 1] = v[i - 3]
        BY <3>1 DEF FieldIs
      <3>3. v[i - 3] \in Kept
        BY <3>1
      <3> QED  BY <3>2, <3>3 DEF Kept
    <2> QED  BY <2>1, <2>2
  <1> QED  BY <1>1, <1>3, <1>5

(* Nor where another text that begins with & is joined to one.             *)
LEMMA NoStartJoin ==
    ASSUME NEW x \in Seq(Characters), NEW y \in Seq(Characters), NEW key, key # "&",
           NoStart(x, key), NoStart(y, key), y # <<>> => y[1] = "&"
    PROVE  NoStart(x \o y, key)
  <1> DEFINE z == x \o y
  <1>1. JoinIs(x, y, z)
    BY Join
  <1> HIDE DEF z
  <1>2. SUFFICES ASSUME NEW i \in 1..Len(z), z[i] = key, i = 1 \/ z[i - 1] = "&" PROVE FALSE
    BY DEF NoStart, Starts, z
  <1>3. Len(x) \in Nat /\ Len(y) \in Nat /\ Len(z) \in Nat
    BY <1>1 DEF JoinIs
  <1>4. CASE i \in 1..Len(x)
    <2>1. x[i] = key
      BY <1>1, <1>2, <1>4 DEF JoinIs
    <2>2. i # 1 => x[i - 1] = z[i - 1]
      <3>1. i # 1 => i - 1 \in 1..Len(x)
        BY <1>3, <1>4
      <3> QED  BY <1>1, <3>1 DEF JoinIs
    <2> QED  BY <1>2, <1>4, <2>1, <2>2 DEF NoStart, Starts
  <1>5. CASE i \notin 1..Len(x)
    <2> DEFINE j == i - Len(x)
    <2>1. j \in 1..Len(y) /\ y[j] = key
      BY <1>1, <1>2, <1>5 DEF JoinIs
    <2>2. y[1] = "&"
      <3>1. y # <<>>
        BY <2>1
      <3> QED  BY <3>1
    <2>3. j # 1
      BY <2>1, <2>2
    <2>4. j - 1 \in 1..Len(y) /\ Len(x) + (j - 1) = i - 1 /\ i # 1
      BY <1>3, <2>1, <2>3
    <2>5. y[j - 1] = z[i - 1]
      BY <1>1, <2>4 DEF JoinIs
    <2> HIDE DEF j
    <2> QED  BY <1>2, <2>1, <2>3, <2>4, <2>5 DEF NoStart, Starts
  <1> QED  BY <1>4, <1>5

(* Nor in a field with the & before it.                                    *)
LEMMA NoStartNext ==
    ASSUME NEW f \in Seq(Characters), NEW key, key # "&", NoStart(f, key)
    PROVE  /\ NoStart(<<"&">> \o f, key)
           /\ <<"&">> \o f \in Seq(Characters) /\ (<<"&">> \o f)[1] = "&"
  <1> DEFINE h == <<"&">>
             z == h \o f
  <1>1. h \in Seq(Characters) /\ Len(h) = 1 /\ h[1] = "&"
    BY EscapeOf
  <1> HIDE DEF h
  <1>2. z \in Seq(Characters) /\ JoinIs(h, f, z)
    BY <1>1, Join
  <1> HIDE DEF z
  <1>3. z[1] = "&" /\ Len(f) \in Nat /\ Len(z) = 1 + Len(f)
    <2>1. 1 \in 1..Len(h)
      BY <1>1
    <2> QED  BY <1>1, <1>2, <2>1 DEF JoinIs
  <1>4. ASSUME NEW i \in 1..Len(z), z[i] = key, i = 1 \/ z[i - 1] = "&" PROVE FALSE
    <2>1. i # 1
      BY <1>3, <1>4
    <2>2. i - 1 \in 1..Len(f) /\ 1 + (i - 1) = i
      BY <1>3, <2>1
    <2>3. f[i - 1] = key
      BY <1>1, <1>2, <1>4, <2>2 DEF JoinIs
    <2>4. i - 1 # 1 => i - 2 \in 1..Len(f) /\ 1 + (i - 2) = i - 1 /\ i - 1 - 1 = i - 2
      BY <1>3, <2>2
    <2>5. i - 1 # 1 => f[i - 1 - 1] = "&"
      BY <1>1, <1>2, <1>4, <2>1, <2>4 DEF JoinIs
    <2> QED  BY <2>2, <2>3, <2>5 DEF NoStart, Starts
  <1>5. NoStart(z, key) /\ z \in Seq(Characters) /\ z[1] = "&"
    BY <1>2, <1>3, <1>4 DEF NoStart, Starts
  <1> QED  BY <1>5 DEF z, h

(* The value of a field is found wherever the field stands, if no other    *)
(* word begins with its key.                                               *)
LEMMA FieldIn ==
    ASSUME NEW pre \in Seq(Characters), NEW val \in Seq(Kept), NEW post \in Seq(Characters),
           NEW key \in Characters \ {"&", "="}, NEW f, FieldIs(f, key, val),
           NoStart(pre, key), pre # <<>> => pre[Len(pre)] = "&",
           NoStart(post, key), post # <<>> => post[1] = "&"
    PROVE  get_post_data((pre \o f) \o post, <<key>>) = val
  <1> DEFINE u == pre \o f
             s == u \o post
             n == Len(pre)
             a == n + 1
             b == n + Len(f)
  <1>0. f \in Seq(Characters) /\ Len(f) = Len(val) + 2 /\ Len(val) \in Nat
        /\ f[1] = key /\ f[2] = "=" /\ \A i \in 1..Len(val) : f[i + 2] = val[i]
    BY DEF FieldIs
  <1>1. u \in Seq(Characters) /\ JoinIs(pre, f, u)
    BY <1>0, Join
  <1>2. s \in Seq(Characters) /\ JoinIs(u, post, s)
    BY <1>1, Join
  <1> HIDE DEF u, s
  <1>3. /\ n \in Nat /\ Len(post) \in Nat /\ Len(u) = b /\ Len(s) = b + Len(post)
        /\ a \in 1..b /\ a + 1 \in 1..b /\ b \in Nat
    BY <1>0, <1>1, <1>2 DEF JoinIs
  <1>4. ASSUME NEW i \in 1..n PROVE s[i] = pre[i]
    <2>1. i \in 1..b
      BY <1>0, <1>3
    <2> QED  BY <1>1, <1>2, <1>3, <2>1 DEF JoinIs
  <1>5. ASSUME NEW i \in 1..Len(f) PROVE s[n + i] = f[i]
    <2>1. n + i \in 1..b
      BY <1>0, <1>3
    <2>2. s[n + i] = u[n + i] /\ u[n + i] = f[i]
      BY <1>1, <1>2, <1>3, <2>1 DEF JoinIs
    <2> QED  BY <2>2
  <1>6. ASSUME NEW i \in 1..Len(post) PROVE s[b + i] = post[i]
    BY <1>2, <1>3 DEF JoinIs
  <1> HIDE DEF b
  <1>7. ASSUME NEW i \in 1..Len(f) PROVE f[i] # "&"
    <2>1. CASE i \in {1, 2}
      BY <1>0, <2>1
    <2>2. CASE i \notin {1, 2}
      <3>1. i - 2 \in 1..Len(val) /\ i - 2 + 2 = i
        BY <1>0, <2>2
      <3>2. val[i - 2] \in Kept
        BY <3>1
      <3> QED  BY <1>0, <3>1, <3>2 DEF Kept
    <2> QED  BY <2>1, <2>2
  <1>8. s[a] = key /\ s[a + 1] = "="
    <2>1. 1 \in 1..Len(f) /\ 2 \in 1..Len(f) /\ a + 1 = n + 2
      BY <1>0, <1>3
    <2> QED  BY <1>0, <1>5, <2>1
  <1>9. a = 1 \/ s[a - 1] = "&"
    <2>1. CASE n = 0
      BY <2>1
    <2>2. CASE n # 0
      <3>1. n \in 1..n /\ a - 1 = n /\ pre # <<>>
        BY <1>3, <2>2
      <3> QED  BY <1>4, <3>1
    <2> QED  BY <2>1, <2>2
  <1>10. ASSUME NEW i \in a..b PROVE s[i] # "&"
    <2>1. i - n \in 1..Len(f) /\ n + (i - n) = i
      BY <1>0, <1>3 DEF b
    <2> QED  BY <1>5, <1>7, <2>1
  <1>11. b = Len(s) \/ s[b + 1] = "&"
    <2>1. CASE Len(post) = 0
      BY <1>3, <2>1
    <2>2. CASE Len(post) # 0
      <3>1. 1 \in 1..Len(post) /\ post # <<>>
        BY <1>3, <2>2
      <3> QED  BY <1>6, <3>1
    <2> QED  BY <2>1, <2>2
  <1>12. ASSUME NEW i \in 1..Len(s), Starts(s, key, i) PROVE i = a
    <2>0. s[i] = key /\ (i = 1 \/ s[i - 1] = "&")
      BY <1>12 DEF Starts
    <2>1. CASE i <= n
      <3>1. i \in 1..n /\ (i # 1 => i - 1 \in 1..n)
        BY <1>3, <2>1
      <3>2. pre[i] = key /\ (i = 1 \/ pre[i - 1] = "&")
        BY <1>4, <2>0, <3>1
      <3> QED  BY <3>1, <3>2 DEF NoStart, Starts
    <2>2. CASE a < i /\ i <= b
      <3>1. i - 1 \in a..b /\ i # 1
        BY <1>3, <2>2
      <3> QED  BY <1>10, <2>0, <3>1
    <2>3. CASE b < i
      <3>1. i - b \in 1..Len(post) /\ b + (i - b) = i
        BY <1>3, <2>3
      <3>2. post[i - b] = key /\ i - b # 1
        BY <1>6, <2>0, <3>1
      <3>3. i - b - 1 \in 1..Len(post) /\ b + (i - b - 1) = i - 1 /\ i # 1
        BY <1>3, <2>3, <3>1, <3>2
      <3>4. post[i - b - 1] = "&"
        BY <1>6, <2>0, <3>3
      <3> QED  BY <3>1, <3>2, <3>4 DEF NoStart, Starts
    <2> QED  BY <1>3, <2>1, <2>2, <2>3
  <1>13. OnlyField(s, key, a, b)
    <2>1. a \in 1..Len(s) /\ b \in 1..Len(s) /\ a + 1 <= b
      BY <1>3
    <2> QED  BY <1>8, <1>9, <1>10, <1>11, <1>12, <2>1 DEF OnlyField, Starts
  <1>14. get_post_data(s, <<key>>) = SubSeq(s, a + 2, b)
    BY <1>2, <1>13, FieldData
  <1>15. SubSeq(s, a + 2, b) = val
    <2> DEFINE t == SubSeq(s, a + 2, b)
    <2>1. /\ a + 2 \in Int /\ b \in Int /\ b = a + 1 + Len(val)
          /\ \A i \in a + 2..b : s[i] \in Characters
      BY <1>0, <1>2, <1>3 DEF b
    <2>2. /\ t \in Seq(Characters)
          /\ Len(t) = IF a + 2 <= b THEN b - (a + 2) + 1 ELSE 0
          /\ \A i \in 1..b - (a + 2) + 1 : t[i] = s[a + 2 + i - 1]
      BY <2>1, SubSeqProperties
    <2> HIDE DEF t
    <2>3. Len(t) = Len(val) /\ b - (a + 2) + 1 = Len(val)
      BY <1>0, <1>3, <2>1, <2>2
    <2>4. ASSUME NEW i \in 1..Len(t) PROVE t[i] = val[i]
      <3>1. a + 2 + i - 1 = n + (i + 2) /\ i + 2 \in 1..Len(f) /\ i \in 1..Len(val)
        BY <1>0, <1>3, <2>3
      <3>2. t[i] = s[n + (i + 2)]
        BY <2>2, <2>3, <3>1
      <3>3. s[n + (i + 2)] = f[i + 2]
        BY <1>5, <3>1
      <3>4. f[i + 2] = val[i]
        BY <1>0, <3>1
      <3> QED  BY <3>2, <3>3, <3>4
    <2>5. t = val
      BY <2>2, <2>3, <2>4, SameSequence
    <2> QED  BY <2>5 DEF t
  <1> QED  BY <1>14, <1>15 DEF s, u

(* What stands between two fields.                                         *)
Amp == <<"&">>

(* The field behind x and before y, which begins with the next &.          *)
LEMMA FieldNext ==
    ASSUME NEW x \in Seq(Characters), NEW val \in Seq(Kept), NEW y \in Seq(Characters),
           NEW key \in Characters \ {"&", "="}, NEW f, FieldIs(f, key, val),
           NoStart(x, key), NoStart(y, key), y # <<>> => y[1] = "&"
    PROVE  get_post_data((x \o (Amp \o f)) \o y, <<key>>) = val
  <1>1. Amp \in Seq(Characters) /\ Len(Amp) = 1 /\ Amp[1] = "&"
    BY EscapeOf DEF Amp
  <1>2. f \in Seq(Characters)
    BY DEF FieldIs
  <1>3. x \o (Amp \o f) = (x \o Amp) \o f
    <2>1. Assoc(x, Amp, f)
      BY <1>1, <1>2, ConcatAnyOrder
    <2> QED  BY <2>1 DEF Assoc
  <1>4. NoStart(Amp, key)
    BY <1>1 DEF NoStart, Starts
  <1> DEFINE pre == x \o Amp
  <1>5. pre \in Seq(Characters) /\ JoinIs(x, Amp, pre)
    BY <1>1, Join
  <1>6. NoStart(pre, key)
    BY <1>1, <1>4, NoStartJoin
  <1>7. pre[Len(pre)] = "&"
    <2>1. Len(pre) = Len(x) + 1 /\ 1 \in 1..Len(Amp)
      BY <1>1, <1>5 DEF JoinIs
    <2>2. pre[Len(x) + 1] = Amp[1]
      BY <1>5, <2>1 DEF JoinIs
    <2> QED  BY <1>1, <2>1, <2>2
  <1> HIDE DEF pre
  <1>8. get_post_data((pre \o f) \o y, <<key>>) = val
    BY <1>5, <1>6, <1>7, FieldIn
  <1> QED  BY <1>3, <1>8 DEF pre

(* The first field.                                                        *)
LEMMA FieldFirst ==
    ASSUME NEW val \in Seq(Kept), NEW y \in Seq(Characters),
           NEW key \in Characters \ {"&", "="}, NEW f, FieldIs(f, key, val),
           NoStart(y, key), y # <<>> => y[1] = "&"
    PROVE  get_post_data(f \o y, <<key>>) = val
  <1> DEFINE e == <<>>
  <1>1. e \in Seq(Characters) /\ NoStart(e, key) /\ (e # <<>> => e[Len(e)] = "&")
    BY DEF NoStart
  <1>2. f \in Seq(Characters)
    BY DEF FieldIs
  <1>3. e \o f = f
    BY <1>2, ConcatEmptySeq
  <1> HIDE DEF e
  <1>4. get_post_data((e \o f) \o y, <<key>>) = val
    BY <1>1, FieldIn
  <1> QED  BY <1>3, <1>4

(* The content of a form of two fields.                                    *)
LEMMA JoinedTwo ==
    ASSUME NEW a \in Seq(Characters), NEW b \in Seq(Characters)
    PROVE  Joined(<<a, b>>) = a \o (Amp \o b)
  <1> DEFINE c == Amp \o b
             e == <<>>
             ss == <<a, c>>
  <1>1. Amp \in Seq(Characters)
    BY EscapeOf DEF Amp
  <1>2. c \in Seq(Characters)
    BY <1>1, Join
  <1> HIDE DEF c
  <1>3. [k \in 1..Len(<<a, b>>) |-> IF k = 1 THEN <<a, b>>[k] ELSE <<"&">> \o <<a, b>>[k]] = ss
    BY DEF c, Amp
  <1>4. Joined(<<a, b>>) = FlattenSeq(ss)
    BY <1>3 DEF Joined
  <1>5. ss = Append(Append(e, a), c) /\ e \in Seq(Seq(Characters))
    OBVIOUS
  <1>6. Append(e, a) \in Seq(Seq(Characters))
    BY <1>5
  <1> HIDE DEF ss
  <1>7. FlattenSeq(ss) = FlattenSeq(Append(e, a)) \o c
    BY <1>2, <1>5, <1>6, FlattenAppend
  <1>8. FlattenSeq(Append(e, a)) = FlattenSeq(e) \o a
    BY <1>5, FlattenAppend
  <1>9. FlattenSeq(e) = <<>>
    BY FlattenEmpty, EmptySeq
  <1>10. FlattenSeq(e) \o a = a
    BY <1>9, ConcatEmptySeq
  <1> QED  BY <1>4, <1>7, <1>8, <1>10 DEF c

(* The content of a form of three fields.                                  *)
LEMMA JoinedThree ==
    ASSUME NEW a \in Seq(Characters), NEW b \in Seq(Characters), NEW d \in Seq(Characters)
    PROVE  Joined(<<a, b, d>>) = (a \o (Amp \o b)) \o (Amp \o d)
  <1> DEFINE c == Amp \o b
             g == Amp \o d
             e == <<>>
             ss == <<a, c, g>>
  <1>1. Amp \in Seq(Characters)
    BY EscapeOf DEF Amp
  <1>2. c \in Seq(Characters) /\ g \in Seq(Characters)
    BY <1>1, Join
  <1> HIDE DEF c, g
  <1>3. [k \in 1..Len(<<a, b, d>>) |->
           IF k = 1 THEN <<a, b, d>>[k] ELSE <<"&">> \o <<a, b, d>>[k]] = ss
    BY DEF c, g, Amp
  <1>4. Joined(<<a, b, d>>) = FlattenSeq(ss)
    BY <1>3 DEF Joined
  <1>5. ss = Append(Append(Append(e, a), c), g) /\ e \in Seq(Seq(Characters))
    OBVIOUS
  <1>6. Append(e, a) \in Seq(Seq(Characters)) /\ Append(Append(e, a), c) \in Seq(Seq(Characters))
    BY <1>2, <1>5
  <1> HIDE DEF ss
  <1>7. FlattenSeq(ss) = FlattenSeq(Append(Append(e, a), c)) \o g
    BY <1>2, <1>5, <1>6, FlattenAppend
  <1>8. FlattenSeq(Append(Append(e, a), c)) = FlattenSeq(Append(e, a)) \o c
    BY <1>2, <1>6, FlattenAppend
  <1>9. FlattenSeq(Append(e, a)) = FlattenSeq(e) \o a
    BY <1>5, FlattenAppend
  <1>10. FlattenSeq(e) = <<>>
    BY FlattenEmpty, EmptySeq
  <1>11. FlattenSeq(e) \o a = a
    BY <1>10, ConcatEmptySeq
  <1> QED  BY <1>4, <1>7, <1>8, <1>9, <1>11 DEF c, g

(* The values of two fields.                                               *)
LEMMA TwoFields ==
    ASSUME NEW k \in Characters \ {"&", "="}, NEW m \in Characters \ {"&", "="}, k # m,
           NEW v \in Seq(Kept), NEW w \in Seq(Kept),
           NEW s, s = Joined(<<Field(k, v), Field(m, w)>>)
    PROVE  s \in Seq(Characters) /\ get_post_data(s, <<k>>) = v /\ get_post_data(s, <<m>>) = w
  <1> DEFINE a == Field(k, v)
             b == Field(m, w)
             y == Amp \o b
             e == <<>>
  <1>1. FieldIs(a, k, v) /\ FieldIs(b, m, w)
    BY FieldOf
  <1> HIDE DEF a, b
  <1>2. a \in Seq(Characters) /\ b \in Seq(Characters)
    BY <1>1 DEF FieldIs
  <1>3. s = a \o y
    BY <1>2, JoinedTwo DEF a, b
  <1>4. NoStart(a, m) /\ NoStart(b, k)
    BY <1>1, NoStartField
  <1>5. NoStart(y, k) /\ y \in Seq(Characters) /\ y[1] = "&"
    BY <1>2, <1>4, NoStartNext DEF Amp
  <1>6. get_post_data(a \o y, <<k>>) = v /\ a \o y \in Seq(Characters)
    <2> HIDE DEF y
    <2> QED  BY <1>1, <1>2, <1>5, FieldFirst, Join
  <1>7. e \in Seq(Characters) /\ NoStart(e, m) /\ (e # <<>> => e[1] = "&")
    BY DEF NoStart
  <1>8. (a \o y) \o e = a \o y
    BY <1>6, ConcatEmptySeq
  <1> HIDE DEF e
  <1>9. get_post_data((a \o y) \o e, <<m>>) = w
    BY <1>1, <1>2, <1>4, <1>7, FieldNext DEF y
  <1> QED  BY <1>3, <1>6, <1>8, <1>9

(* The values of three fields.                                             *)
LEMMA ThreeFields ==
    ASSUME NEW j \in Characters \ {"&", "="}, NEW k \in Characters \ {"&", "="},
           NEW m \in Characters \ {"&", "="}, j # k, j # m, k # m,
           NEW u \in Seq(Kept), NEW v \in Seq(Kept), NEW w \in Seq(Kept),
           NEW s, s = Joined(<<Field(j, u), Field(k, v), Field(m, w)>>)
    PROVE  /\ s \in Seq(Characters)
           /\ get_post_data(s, <<j>>) = u
           /\ get_post_data(s, <<k>>) = v /\ get_post_data(s, <<m>>) = w
  <1> DEFINE p == Field(j, u)
             a == Field(k, v)
             b == Field(m, w)
             x == Amp \o a
             y == Amp \o b
             e == <<>>
  <1>1. FieldIs(p, j, u) /\ FieldIs(a, k, v) /\ FieldIs(b, m, w)
    BY FieldOf
  <1> HIDE DEF p, a, b
  <1>2. p \in Seq(Characters) /\ a \in Seq(Characters) /\ b \in Seq(Characters)
    BY <1>1 DEF FieldIs
  <1>3. s = (p \o x) \o y
    BY <1>2, JoinedThree DEF p, a, b
  <1>4. NoStart(p, k) /\ NoStart(p, m) /\ NoStart(a, m) /\ NoStart(a, j) /\ NoStart(b, j)
        /\ NoStart(b, k)
    BY <1>1, NoStartField
  <1>5. NoStart(x, j) /\ NoStart(x, m) /\ x \in Seq(Characters) /\ x[1] = "&"
    BY <1>2, <1>4, NoStartNext DEF Amp
  <1>6. NoStart(y, j) /\ NoStart(y, k) /\ y \in Seq(Characters) /\ y[1] = "&"
    BY <1>2, <1>4, NoStartNext DEF Amp
  <1> DEFINE px == p \o x
             xy == x \o y
  <1>7. get_post_data(px \o y, <<k>>) = v
    BY <1>1, <1>2, <1>4, <1>6, FieldNext DEF x
  <1> HIDE DEF x, y
  <1>8. px \in Seq(Characters) /\ px \o y \in Seq(Characters)
    BY <1>2, <1>5, <1>6, Join
  <1>9. NoStart(px, m)
    BY <1>2, <1>4, <1>5, NoStartJoin
  <1>10. e \in Seq(Characters) /\ NoStart(e, m) /\ (e # <<>> => e[1] = "&")
    BY DEF NoStart
  <1>11. (px \o y) \o e = px \o y
    BY <1>8, ConcatEmptySeq
  <1> HIDE DEF px, e
  <1>12. get_post_data((px \o y) \o e, <<m>>) = w
    BY <1>1, <1>8, <1>9, <1>10, FieldNext DEF y
  <1>13. xy \in Seq(Characters) /\ NoStart(xy, j)
    BY <1>5, <1>6, Join, NoStartJoin
  <1>14. xy[1] = "&"
    <2>1. JoinIs(x, y, xy)
      BY <1>5, <1>6, Join
    <2>2. 1 \in 1..Len(x)
      <3>1. Amp \in Seq(Characters) /\ Len(Amp) = 1
        BY EscapeOf DEF Amp
      <3>2. JoinIs(Amp, a, x)
        BY <1>2, <3>1, Join DEF x
      <3> QED  BY <3>1, <3>2 DEF JoinIs
    <2> QED  BY <1>5, <2>1, <2>2 DEF JoinIs
  <1> HIDE DEF xy
  <1>15. get_post_data(p \o xy, <<j>>) = u
    BY <1>1, <1>13, <1>14, FieldFirst
  <1>16. p \o xy = px \o y
    <2>1. Assoc(p, x, y)
      BY <1>2, <1>5, <1>6, ConcatAnyOrder
    <2> QED  BY <2>1 DEF Assoc, px, xy
  <1> QED  BY <1>3, <1>7, <1>8, <1>11, <1>12, <1>15, <1>16 DEF px

-----------------------------------------------------------------------------
(* The table of routes.                                                    *)

(* The entries of the table.                                               *)
Entry(r, method, prefix, rest, function) ==
    r.method = method /\ r.prefix = prefix /\ r.rest = rest /\ r.function = function

(* The two kinds of entries, taken apart.                                  *)
LEMMA Entries ==
    /\ \A m, ws, f : Entry(Plain(m, ws, f), m, Path(ws), "", f)
    /\ \A ws, c, f : Entry(Open(ws, c, f), "GET", Path(ws), c, f)
  BY DEF Entry, Plain, Open

(* Paths of few words, and that different words are different there.       *)
LEMMA Paths ==
    /\ Path(<<>>) = <<>>
    /\ \A a : Path(<<a>>) = <<Word(a)>>
    /\ \A a, b : Path(<<a, b>>) = <<Word(a), Word(b)>>
    /\ \A a, b, c : Path(<<a, b, c>>) = <<Word(a), Word(b), Word(c)>>
    /\ \A a, b : Word(a) = Word(b) => a = b
  BY DEF Path, Word

(* The entries for what is posted.                                         *)
PostEntry(r) ==
    \/ Entry(r, "POST", Path(<<"login">>), "", "login_post")
    \/ Entry(r, "POST", Path(<<"delete">>), "", "delete_post")
    \/ Entry(r, "POST", Path(<<"edit">>), "", "edit_post")
    \/ Entry(r, "POST", Path(<<"change">>), "", "change_post")
    \/ Entry(r, "POST", Path(<<"api", "post">>), "", "post_post")

(* Those for what is asked for, without a pattern.                         *)
PlainEntry(r) ==
    \/ Entry(r, "GET", Path(<<"login">>), "", "login_get")
    \/ Entry(r, "GET", Path(<<"reload">>), "", "reload_get")
    \/ Entry(r, "GET", Path(<<"logout">>), "", "logout_get")
    \/ Entry(r, "GET", Path(<<"api", "home">>), "", "view_home")
    \/ Entry(r, "GET", Path(<<"index">>), "", "view_all_posts_get")

(* Those with a pattern.                                                   *)
OpenEntry(r) ==
    \/ Entry(r, "GET", Path(<<"api", "home">>), "number", "view_specific_home")
    \/ Entry(r, "GET", Path(<<"api", "view">>), "search", "view_post")
    \/ Entry(r, "GET", Path(<<"api", "find">>), "search", "find_post")
    \/ Entry(r, "GET", Path(<<"index">>), "number", "view_all_posts_get")
    \/ Entry(r, "GET", Path(<<>>), "search", "view_post_get")

(* Every entry is one of these, and the entries used here are there.       *)
LEMMA TableIs ==
    /\ \A r \in resource : PostEntry(r) \/ PlainEntry(r) \/ OpenEntry(r)
    /\ \E r \in resource : Entry(r, "POST", Path(<<"api", "post">>), "", "post_post")
    /\ \E r \in resource : Entry(r, "POST", Path(<<"edit">>), "", "edit_post")
    /\ \E r \in resource : Entry(r, "POST", Path(<<"delete">>), "", "delete_post")
    /\ \E r \in resource : Entry(r, "GET", Path(<<"api", "view">>), "search", "view_post")
    /\ \E r \in resource : Entry(r, "GET", Path(<<"api", "find">>), "search", "find_post")
    /\ \E r \in resource : Entry(r, "GET", Path(<<>>), "search", "view_post_get")
  <1>1. ASSUME NEW r \in resource PROVE PostEntry(r) \/ PlainEntry(r) \/ OpenEntry(r)
    BY Entries DEF resource, PostEntry, PlainEntry, OpenEntry
  <1>2. /\ Plain("POST", <<"api", "post">>, "post_post") \in resource
        /\ Plain("POST", <<"edit">>, "edit_post") \in resource
        /\ Plain("POST", <<"delete">>, "delete_post") \in resource
        /\ Open(<<"api", "view">>, "search", "view_post") \in resource
        /\ Open(<<"api", "find">>, "search", "find_post") \in resource
        /\ Open(<<>>, "search", "view_post_get") \in resource
    BY DEF resource
  <1> QED  BY <1>1, <1>2, Entries

(* One function for a path: all entries that take it have it.              *)
Decides(method, path, f) ==
    /\ \E r \in resource : r.method = method /\ Takes(r, path) /\ r.function = f
    /\ \A r \in resource : r.method = method /\ Takes(r, path) => r.function = f

(* The function is then called, whichever entry is first of several.       *)
LEMMA OneFunction ==
    ASSUME NEW method, NEW path, NEW f, Decides(method, path, f)
    PROVE  \A ahead : find_resource(method, path, ahead) = f
  <1> SUFFICES ASSUME NEW ahead PROVE find_resource(method, path, ahead) = f
    OBVIOUS
  <1> DEFINE matching == {r.function : r \in {s \in resource : s.method = method /\ Takes(s, path)}}
             first == {g \in matching : \/ matching = {g}
                                        \/ g \in ahead
                                        \/ g = "view_post_get" /\ matching \cap ahead = {}}
  <1>1. matching = {f}
    BY DEF Decides
  <1>2. first = {f}
    BY <1>1
  <1>3. find_resource(method, path, ahead)
          = IF matching # {} THEN CHOOSE g \in first : TRUE
            ELSE IF method = "GET" THEN "get_file" ELSE "nothing"
    BY DEF find_resource
  <1> HIDE DEF matching, first
  <1>4. (CHOOSE g \in first : TRUE) = f
    BY <1>2
  <1> QED  BY <1>1, <1>3, <1>4

(* The entries for POST have no open end.                                  *)
LEMMA PostRoute ==
    ASSUME NEW p, NEW f, \E r \in resource : Entry(r, "POST", p, "", f),
           \A r \in resource : r.method = "POST" /\ r.prefix = p => r.function = f
    PROVE  \A ahead : find_resource("POST", p, ahead) = f
  <1>1. ASSUME NEW r \in resource, r.method = "POST", Takes(r, p) PROVE r.function = f
    <2>1. r.rest = ""
      BY <1>1, TableIs DEF PostEntry, PlainEntry, OpenEntry, Entry
    <2> QED  BY <1>1, <2>1 DEF Takes
  <1>2. \E r \in resource : r.method = "POST" /\ Takes(r, p) /\ r.function = f
    BY DEF Entry, Takes
  <1>3. Decides("POST", p, f)
    BY <1>1, <1>2 DEF Decides
  <1> QED  BY <1>3, OneFunction

(* Forms: the three paths are those of one pattern each.                   *)
LEMMA FormRoutes ==
    \A ahead :
        /\ find_resource("POST", Path(<<"api", "post">>), ahead) = "post_post"
        /\ find_resource("POST", Path(<<"edit">>), ahead) = "edit_post"
        /\ find_resource("POST", Path(<<"delete">>), ahead) = "delete_post"
  <1>4. ASSUME NEW r \in resource, r.method = "POST"
        PROVE  /\ r.prefix = Path(<<"api", "post">>) => r.function = "post_post"
               /\ r.prefix = Path(<<"edit">>) => r.function = "edit_post"
               /\ r.prefix = Path(<<"delete">>) => r.function = "delete_post"
    <2>1. PostEntry(r)
      BY <1>4, TableIs DEF PlainEntry, OpenEntry, Entry
    <2>2. <<Word("api"), Word("post")>> \notin {<<Word("login")>>, <<Word("delete")>>,
                                                <<Word("edit")>>, <<Word("change")>>}
      OBVIOUS
    <2>3. /\ <<Word("edit")>> \notin {<<Word("login")>>, <<Word("delete")>>, <<Word("change")>>}
          /\ <<Word("delete")>> \notin {<<Word("login")>>, <<Word("change")>>}
      BY Paths
    <2> QED  BY <2>1, <2>2, <2>3, Paths DEF PostEntry, Entry
  <1> DEFINE p == Path(<<"api", "post">>)
             e == Path(<<"edit">>)
             d == Path(<<"delete">>)
  <1>5. /\ \E r \in resource : Entry(r, "POST", p, "", "post_post")
        /\ \E r \in resource : Entry(r, "POST", e, "", "edit_post")
        /\ \E r \in resource : Entry(r, "POST", d, "", "delete_post")
    BY TableIs
  <1> HIDE DEF p, e, d
  <1>9. \A r \in resource : r.method = "POST" /\ r.prefix = p => r.function = "post_post"
    BY <1>4 DEF p
  <1>10. \A r \in resource : r.method = "POST" /\ r.prefix = e => r.function = "edit_post"
    BY <1>4 DEF e
  <1>11. \A r \in resource : r.method = "POST" /\ r.prefix = d => r.function = "delete_post"
    BY <1>4 DEF d
  <1>6. \A ahead : find_resource("POST", p, ahead) = "post_post"
    BY <1>5, <1>9, PostRoute
  <1>7. \A ahead : find_resource("POST", e, ahead) = "edit_post"
    BY <1>5, <1>10, PostRoute
  <1>8. \A ahead : find_resource("POST", d, ahead) = "delete_post"
    BY <1>5, <1>11, PostRoute
  <1> QED  BY <1>6, <1>7, <1>8 DEF p, e, d

-----------------------------------------------------------------------------

(* What follows the words of an open pattern.                              *)
LEMMA SearchTaken ==
    ASSUME NEW s \in Seq(Searchable), s # <<>>
    PROVE  IsSearch(s)
  <1>1. ASSUME NEW i \in 1..Len(s) PROVE s[i] \notin Marks \ {"%", "-", "+"}
    BY DEF Searchable
  <1> QED  BY <1>1 DEF IsSearch

(* A path of three: its beginning and its end.                             *)
LEMMA ThreeIs ==
    ASSUME NEW a, NEW b, NEW c, NEW path, path = <<a, b, c>>
    PROVE  Len(path) = 3 /\ Front(path) = <<a, b>> /\ Last(path) = c
  <1>1. Len(path) = 3 /\ path \in Seq({a, b, c})
    OBVIOUS
  <1>2. Front(path) = SubSeq(path, 1, 2)
    BY <1>1 DEF Front
  <1> DEFINE S == {a, b, c}
             f == SubSeq(path, 1, 2)
             g == <<a, b>>
  <1>3. f \in Seq(S) /\ Len(f) = 2 /\ f[1] = path[1] /\ f[2] = path[2]
    BY <1>1
  <1>4. g \in Seq(S) /\ Len(g) = 2 /\ g[1] = a /\ g[2] = b
    OBVIOUS
  <1>5. path[1] = a /\ path[2] = b /\ path[3] = c
    OBVIOUS
  <1> HIDE DEF f, g, S
  <1>6. f = g
    <2>1. Len(f) = Len(g) /\ \A i \in 1..Len(f) : f[i] = g[i]
      BY <1>3, <1>4, <1>5
    <2> QED  BY <1>3, <1>4, <2>1, SameSequence
  <1> QED  BY <1>1, <1>2, <1>5, <1>6 DEF Last, f, g

(* The plain entries have one word or two.                                 *)
LEMMA PlainLength ==
    ASSUME NEW r, PlainEntry(r)
    PROVE  Len(r.prefix) \in {1, 2}
  <1>1. r.prefix \in {Path(<<"login">>), Path(<<"reload">>), Path(<<"logout">>),
                      Path(<<"index">>), Path(<<"api", "home">>)}
    BY DEF PlainEntry, Entry
  <1>2. \A a : Len(<<Word(a)>>) = 1
    OBVIOUS
  <1>3. \A a, b : Len(<<Word(a), Word(b)>>) = 2
    OBVIOUS
  <1>4. \A a : Len(Path(<<a>>)) = 1
    BY <1>2, Paths
  <1>5. \A a, b : Len(Path(<<a, b>>)) = 2
    <2> SUFFICES ASSUME NEW a, NEW b PROVE Len(Path(<<a, b>>)) = 2
      OBVIOUS
    <2>1. Path(<<a, b>>) = <<Word(a), Word(b)>>
      BY Paths
    <2> QED  BY <2>1
  <1> QED  BY <1>1, <1>4, <1>5

(* A link's address asked for from the interface, and a search: the words  *)
(* before the text decide.                                                 *)
LEMMA TextRoutes ==
    ASSUME NEW s \in Seq(Searchable), s # <<>>,
           NEW word, NEW function,
           <<word, function>> \in {<<"view", "view_post">>, <<"find", "find_post">>},
           NEW path, path = <<Word("api"), Word(word), s>>
    PROVE  \A ahead : find_resource("GET", path, ahead) = function
  <1>1. Len(path) = 3 /\ Front(path) = <<Word("api"), Word(word)>> /\ Last(path) = s /\ IsSearch(s)
    BY ThreeIs, SearchTaken
  <1>2. Front(path) = Path(<<"api", word>>)
    BY <1>1, Paths
  <1>3. ASSUME NEW r \in resource, r.method = "GET", Takes(r, path) PROVE r.function = function
    <2>1. PlainEntry(r) \/ OpenEntry(r)
      BY <1>3, TableIs DEF PostEntry, Entry
    <2>2. CASE PlainEntry(r)
      <3>1. r.rest = ""
        BY <2>2 DEF PlainEntry, Entry
      <3>2. path = r.prefix
        BY <1>3, <3>1 DEF Takes
      <3>3. Len(r.prefix) \in {1, 2} /\ 3 \notin {1, 2}
        BY <2>2, PlainLength
      <3> QED  BY <1>1, <3>2, <3>3, Zenon
    <2>3. CASE OpenEntry(r)
      <3>1. r.rest # "" /\ Front(path) = r.prefix
        BY <1>3, <2>3 DEF OpenEntry, Entry, Takes
      <3>2. r.prefix = <<Word("api"), Word(word)>>
        BY <1>1, <3>1
      <3>3. Word("api") # Word("index") /\ Word("home") # Word(word)
            /\ (word = "view" => Word("find") # Word(word))
            /\ (word = "find" => Word("view") # Word(word))
        BY Paths
      <3> QED  BY <2>3, <3>2, <3>3, Paths DEF OpenEntry, Entry
    <2> QED  BY <2>1, <2>2, <2>3
  <1>4. \E r \in resource : r.method = "GET" /\ Takes(r, path) /\ r.function = function
    <2>1. PICK r \in resource : Entry(r, "GET", Path(<<"api", word>>), "search", function)
      BY TableIs
    <2>2. Len(r.prefix) = 2
      BY <2>1, Paths DEF Entry
    <2>5. r.rest = "search" /\ r.prefix = Path(<<"api", word>>)
      BY <2>1 DEF Entry
    <2>3. Len(path) = Len(r.prefix) + 1 /\ Front(path) = r.prefix
      BY <1>1, <1>2, <2>2, <2>5
    <2>4. Takes(r, path)
      BY <1>1, <2>3, <2>5 DEF Takes
    <2> QED  BY <2>1, <2>4 DEF Entry
  <1>5. Decides("GET", path, function)
    BY <1>3, <1>4 DEF Decides
  <1> QED  BY <1>5, OneFunction

(* The document of a link: the entries that take its address are the open  *)
(* one and, if it is one of the words, the word's.                         *)
LEMMA LinkTaken ==
    ASSUME NEW s \in Seq(Searchable), s # <<>>, NEW path, path = <<s>>
    PROVE  /\ \E r \in resource : r.method = "GET" /\ Takes(r, path) /\ r.function = "view_post_get"
           /\ \A r \in resource : r.method = "GET" /\ Takes(r, path) =>
                 r.function = "view_post_get" \/ r.prefix = path
  <1>1. Len(path) = 1 /\ Front(path) = <<>> /\ Last(path) = s
    BY DEF Front, Last
  <1>2. IsSearch(s)
    BY SearchTaken
  <1>3. PICK q \in resource : Entry(q, "GET", Path(<<>>), "search", "view_post_get")
    BY TableIs
  <1>4. q.rest = "search" /\ q.prefix = <<>> /\ Len(q.prefix) = 0
    BY <1>3, Paths DEF Entry
  <1>5. Takes(q, path)
    BY <1>1, <1>2, <1>4 DEF Takes
  <1>6. ASSUME NEW r \in resource, r.method = "GET", Takes(r, path)
        PROVE  r.function = "view_post_get" \/ r.prefix = path
    <2>1. PlainEntry(r) \/ OpenEntry(r)
      BY <1>6, TableIs DEF PostEntry, Entry
    <2>2. CASE PlainEntry(r)
      BY <1>6, <2>2 DEF PlainEntry, Entry, Takes
    <2>3. CASE OpenEntry(r)
      <3>1. r.rest # "" /\ Front(path) = r.prefix
        BY <1>6, <2>3 DEF OpenEntry, Entry, Takes
      <3>2. r.prefix = <<>>
        BY <1>1, <3>1
      <3>3. ASSUME NEW a PROVE Path(<<a>>) # <<>>
        <4>1. Path(<<a>>) = <<Word(a)>>
          BY Paths
        <4>2. <<Word(a)>> # <<>>
          OBVIOUS
        <4> QED  BY <4>1, <4>2
      <3>4. ASSUME NEW a, NEW b PROVE Path(<<a, b>>) # <<>>
        <4>1. Path(<<a, b>>) = <<Word(a), Word(b)>>
          BY Paths
        <4>2. <<Word(a), Word(b)>> # <<>>
          OBVIOUS
        <4> QED  BY <4>1, <4>2
      <3> QED  BY <2>3, <3>2, <3>3, <3>4 DEF OpenEntry, Entry
    <2> QED  BY <2>1, <2>2, <2>3
  <1> QED  BY <1>3, <1>5, <1>6 DEF Entry

(* The document of a link is view.html, unless its address is a page's.    *)
LEMMA LinkDocument ==
    ASSUME NEW s \in Seq(Searchable), s # <<>>, NEW path, path = <<s>>, NEW ahead
    PROVE  \/ Document(path, ahead) = viewFile
           \/ \E r \in resource : r.function \in ahead /\ path = r.prefix
  <1> DEFINE matching == {r.function : r \in {q \in resource : q.method = "GET" /\ Takes(q, path)}}
             first == {g \in matching : \/ matching = {g}
                                        \/ g \in ahead
                                        \/ g = "view_post_get" /\ matching \cap ahead = {}}
             f == CHOOSE g \in first : TRUE
  <1>1. "view_post_get" \in matching
    BY LinkTaken
  <1>2. ASSUME NEW g \in matching, g # "view_post_get"
        PROVE  \E r \in resource : r.function = g /\ path = r.prefix
    BY <1>2, LinkTaken
  <1>3. find_resource("GET", path, ahead) = f
    BY <1>1 DEF find_resource
  <1>4. first # {}
    <2>1. CASE matching \cap ahead = {}
      BY <1>1, <2>1
    <2>2. CASE matching \cap ahead # {}
      BY <2>2
    <2> QED  BY <2>1, <2>2
  <1>5. f \in first
    <2> HIDE DEF first
    <2> QED  BY <1>4
  <1>6. f \in matching /\ (f # "view_post_get" => f \in ahead)
    <2> HIDE DEF matching, f
    <2> QED  BY <1>1, <1>5
  <1> HIDE DEF matching, first, f
  <1>7. CASE f = "view_post_get"
    BY <1>3, <1>7 DEF Document
  <1>8. CASE f # "view_post_get"
    BY <1>2, <1>6, <1>8
  <1> QED  BY <1>7, <1>8

-----------------------------------------------------------------------------

(* The session is found in the cookies the browser sends.                  *)
LEMMA SessionFound ==
    ASSUME NEW cookie, Sent(cookie), Session \in Seq(STRING)
    PROVE  get_session_cookie(cookie, Len(Session)) = Session
  <1> DEFINE n == Len(Session)
             c == Len(cookie)
  <1>1. n \in Nat /\ c \in Nat
    BY DEF Sent
  <1>2. PICK i \in 1..c :
            /\ cookie[i] = SessionName /\ \A j \in 1..(i - 1) : cookie[j] # SessionName
            /\ i + n <= c /\ SubSeq(cookie, i + 1, i + n) = Session
    BY DEF Sent
  <1> DEFINE at_ == {k \in 1..c : cookie[k] = SessionName
                                  /\ \A j \in 1..(k - 1) : cookie[j] # SessionName}
  <1>3. at_ = {i}
    <2>1. ASSUME NEW k \in 1..c, cookie[k] = SessionName,
                 \A j \in 1..(k - 1) : cookie[j] # SessionName
          PROVE  k = i
      <3>1. ~(k < i) /\ ~(i < k)
        BY <1>1, <1>2, <2>1
      <3> QED  BY <1>1, <3>1
    <2> QED  BY <1>2, <2>1
  <1>4. (CHOOSE k \in at_ : TRUE) = i
    BY <1>3
  <1>5. get_session_cookie(cookie, n) = SubSeq(cookie, i + 1, IF i + n < c THEN i + n ELSE c)
    BY <1>3, <1>4 DEF get_session_cookie
  <1>6. (IF i + n < c THEN i + n ELSE c) = i + n
    BY <1>1, <1>2
  <1> QED  BY <1>2, <1>5, <1>6

-----------------------------------------------------------------------------
(* What is carried: the texts of the posts, the form under way, and what   *)
(* the reader has been given.                                              *)

(* A text of the table: what somebody typed, and its address.              *)
IsText(text) ==
    /\ text.title \in Seq(Characters) /\ text.content \in Seq(Characters)
    /\ text.slug = title_encode(text.title)

(* Addresses are of one post each.                                         *)
OneEach == \A r, q \in posts : r.text.slug = q.text.slug => r = q
Texts   == \A r \in posts \cup shown : IsText(r.text)

(* The form under way, and what is on the wire of it.                      *)
IsForm(f) ==
    /\ f.op \in {"create", "update", "delete"}
    /\ f.title \in Seq(Characters) /\ f.content \in Seq(Characters)

(* What is sent of it: the content of the form, with the session's cookie. *)
IsRequest(f, w) ==
    /\ w.path = Function[f.op] /\ Sent(w.cookie)
    /\ \E blank \in Blanks : w.content = Content(f, blank)

(* A form under way has been filled in, and what is sent is of that form.  *)
Underway ==
    /\ form # None => IsForm(form)
    /\ wire # None => /\ form # None /\ IsRequest(form, wire)
                      /\ form.op # "create" => form.id \in IdsOf(posts)

(* What the reader follows is the address of a text.                       *)
Followed ==
    visit.op \in {"link", "asked"} =>
        \E r \in row : /\ row = {r} /\ IsText(r.text) /\ visit.path = <<r.text.slug>>
                       /\ visit.document = Document(visit.path, run.ahead)

(* A client that asks directly has had the post of the address.            *)
Answered ==
    visit.op = "asked" /\ visit.client = "direct" => LeadsToPost

(* The whole invariant: the texts, the visits and the forms.               *)
TextsInv   == run \in Runs /\ OneEach /\ Texts
VisitsInv  == Followed /\ Answered /\ FoundAsTyped
FormsInv   == Underway /\ FormsCarriedOut
CarriedInv == TextsInv /\ VisitsInv /\ FormsInv

-----------------------------------------------------------------------------

(* What is typed is text of the characters the codecs know.                *)
LEMMA TypedText == \A v \in Seq(STRING) : v \in Seq(Characters)
  BY DEF Characters

(* ...as are titles, contents and edits of every run.                      *)
LEMMA FormText ==
    ASSUME Table, TextsInv, NEW f \in Forms
    PROVE  /\ IsForm(f)
           /\ f.op # "create" => f.id \in IdsOf(posts)
  <1>1. /\ run.titles \in Seq(SUBSET Seq(STRING))
        /\ run.contents \subseteq Seq(STRING) /\ run.edits \subseteq Seq(STRING)
    BY SiteAssumption DEF TextsInv
  <1>2. ASSUME NEW r \in posts PROVE /\ r.text.title \in Seq(Characters)
                                     /\ r.text.content \in Seq(Characters)
                                     /\ r.id \in IdsOf(posts)
    BY DEF TextsInv, Texts, IsText, IdsOf
  <1>3. ASSUME NEW t \in IF nextId <= Len(run.titles) THEN run.titles[nextId] ELSE {},
               NEW c \in run.contents, f = [op |-> "create", title |-> t, content |-> c]
        PROVE  IsForm(f) /\ f.op = "create"
    <2>1. nextId <= Len(run.titles) /\ t \in run.titles[nextId]
      BY <1>3
    <2>3. nextId \in 1..Len(run.titles) /\ run.titles[nextId] \in SUBSET Seq(STRING)
      BY <1>1, <2>1, PagingAssumption DEF Table
    <2>2. t \in Seq(STRING) /\ c \in Seq(STRING)
      BY <1>1, <1>3, <2>1, <2>3
    <2> QED  BY <1>3, <2>2, TypedText DEF IsForm
  <1>4. ASSUME NEW r \in posts, NEW t \in run.edits,
               f = [op |-> "update", id |-> r.id, title |-> t, content |-> r.text.content]
        PROVE  IsForm(f) /\ f.id \in IdsOf(posts)
    <2>1. t \in Seq(STRING)
      BY <1>1
    <2> QED  BY <1>2, <1>4, <2>1, TypedText DEF IsForm
  <1>5. ASSUME NEW r \in posts,
               f = [op |-> "delete", id |-> r.id, title |-> r.text.title,
                    content |-> r.text.content]
        PROVE  IsForm(f) /\ f.id \in IdsOf(posts)
    BY <1>2, <1>5 DEF IsForm
  <1> QED  BY <1>3, <1>4, <1>5 DEF Forms

(* A new text: typed, and with an address that no post has.                *)
IsNew(title, content) ==
    /\ title \in Seq(Characters) /\ content \in Seq(Characters)
    /\ WithSlug(title_encode(title)) = {}

(* The text made of such a title and content is one, with its own address. *)
LEMMA NewText ==
    ASSUME NEW t, NEW c, IsNew(t, c)
    PROVE  /\ IsText(Text(t, c)) /\ Text(t, c).slug = title_encode(t)
           /\ \A r \in posts : r.text.slug # Text(t, c).slug
  <1>1. Text(t, c).slug = title_encode(t) /\ Text(t, c).title = t /\ Text(t, c).content = c
    BY DEF Text
  <1>2. \A r \in posts : r.text.slug # title_encode(t)
    BY DEF IsNew, WithSlug
  <1> HIDE DEF Text
  <1> QED  BY <1>1, <1>2 DEF IsText, IsNew

(* Reading and resting leave the texts as they are...                      *)
LEMMA TextsRead ==
    ASSUME OneEach, Texts, posts' = posts, shown' \subseteq posts \cup shown
    PROVE  (OneEach /\ Texts)'
  BY DEF OneEach, Texts

(* ...create_post adds one...                                              *)
LEMMA TextsAdd ==
    ASSUME OneEach, Texts, NEW t, NEW c, IsNew(t, c), Add(Text(t, c))
    PROVE  (OneEach /\ Texts)' /\ \E r \in posts' : r.text = Text(t, c)
  <1> DEFINE x == Text(t, c)
             q == [id |-> nextId, text |-> x]
  <1>1. IsText(x) /\ \A r \in posts : r.text.slug # x.slug
    BY NewText
  <1>2. posts' = posts \cup {q} /\ shown' = shown /\ q.text = x
    BY DEF Add, reader
  <1> HIDE DEF q, x
  <1>3. Texts'
    BY <1>1, <1>2 DEF Texts
  <1>4. OneEach'
    BY <1>1, <1>2 DEF OneEach
  <1> QED  BY <1>2, <1>3, <1>4 DEF x

(* ...update_post changes one...                                           *)
LEMMA TextsChange ==
    ASSUME OneEach, Texts, NEW t, NEW c, IsNew(t, c), NEW r \in posts, Change(r.id, Text(t, c))
    PROVE  (OneEach /\ Texts)' /\ \E q \in posts' : q.text = Text(t, c)
  <1> DEFINE x == Text(t, c)
             n == [id |-> r.id, text |-> x]
             new(p) == IF p.id = r.id THEN n ELSE p
  <1>1. IsText(x) /\ \A p \in posts : p.text.slug # x.slug
    BY NewText
  <1>2. posts' = {new(p) : p \in posts} /\ shown' = shown /\ n.text = x
    BY DEF Change, reader
  <1> HIDE DEF n, x
  <1>3. \A q \in posts' : q = n \/ q \in posts
    BY <1>2
  <1>4. n \in posts'
    <2>1. new(r) = n
      OBVIOUS
    <2> QED  BY <1>2, <2>1
  <1>5. Texts'
    BY <1>1, <1>2, <1>3 DEF Texts
  <1>6. OneEach'
    BY <1>1, <1>2, <1>3 DEF OneEach
  <1> QED  BY <1>2, <1>4, <1>5, <1>6 DEF x

(* ...and delete_post takes one away.                                      *)
LEMMA TextsWithdraw ==
    ASSUME OneEach, Texts, NEW i, Withdraw(i)
    PROVE  (OneEach /\ Texts)' /\ i \notin IdsOf(posts)'
  <1>1. posts' \subseteq posts /\ shown' = shown /\ \A r \in posts' : r.id # i
    BY DEF Withdraw
  <1> QED  BY <1>1 DEF OneEach, Texts, IdsOf

(* The rows of a page are posts.                                           *)
LEMMA PageShows ==
    ASSUME NEW p, get_posts(p)
    PROVE  posts' = posts /\ shown' \subseteq posts
  BY DEF get_posts, table, Rows

(* Turning the pages shows posts and leaves the rest alone.                *)
LEMMA TurningShows ==
    ASSUME TurnPages
    PROVE  /\ posts' = posts /\ shown' \subseteq posts
           /\ UNCHANGED <<run, form, wire, reply, visit, row>>
  <1>1. UNCHANGED <<run, form, wire, reply, visit, row>>
    BY DEF TurnPages, author, visitor
  <1>2. view_home \/ Continue \/ \E p \in run.jumps : Jump(p)
    BY Zenon DEF TurnPages
  <1>3. \E p : get_posts(p)
    BY <1>2 DEF view_home, Continue, Turn, Jump
  <1> QED  BY <1>1, <1>3, PageShows

-----------------------------------------------------------------------------

(* Ids are written apart, and as text that stays as it is on the way.      *)
LEMMA IdOf ==
    ASSUME NEW i \in 1..MaxId, NEW j \in 1..MaxId
    PROVE  Id(i) \in Seq(Kept) /\ (Id(i) = Id(j) => i = j)
  <1>1. ToString(i) \in STRING \ Marks /\ (ToString(i) = ToString(j) => i = j)
    BY SiteAssumption
  <1>2. ToString(i) \in Kept
    BY <1>1, EscapeOf DEF Kept, Characters
  <1>3. Id(i) = Id(j) => ToString(i) = ToString(j)
    BY DEF Id
  <1> QED  BY <1>1, <1>2, <1>3 DEF Id

(* What the handlers make of the content of a form.                        *)
Understood(f, w) ==
    /\ uri_decode(get_post_data(w, <<"title">>)) = f.title
    /\ uri_decode(get_post_data(w, <<"content">>)) = f.content
    /\ f.op # "create" => get_post_data(w, <<"post_id">>) = Id(f.id)

(* Every form is read as it was filled in, however its blanks are written. *)
LEMMA FormUnderstood ==
    ASSUME NEW f, IsForm(f), f.op # "create" => f.id \in 1..MaxId, NEW blank \in Blanks
    PROVE  Understood(f, Content(f, blank))
  <1> DEFINE t == FormValue(f.title, blank)
             c == FormValue(f.content, blank)
             w == Content(f, blank)
  <1>1. /\ t \in Seq(Kept) /\ uri_decode(t) = f.title
        /\ c \in Seq(Kept) /\ uri_decode(c) = f.content
    BY ValueDecoded DEF IsForm
  <1>2. /\ "title" \in Characters \ {"&", "="} /\ "content" \in Characters \ {"&", "="}
        /\ "post_id" \in Characters \ {"&", "="}
    BY DEF Characters
  <1>3. CASE f.op = "create"
    <2>1. w = Joined(<<Field("title", t), Field("content", c)>>)
      BY <1>3 DEF Content
    <2> HIDE DEF t, c, w
    <2>2. get_post_data(w, <<"title">>) = t /\ get_post_data(w, <<"content">>) = c
      BY <1>1, <1>2, <2>1, TwoFields
    <2> QED  BY <1>1, <1>3, <2>2 DEF Understood, w
  <1>4. CASE f.op # "create"
    <2> DEFINE i == Id(f.id)
    <2>1. w = Joined(<<Field("post_id", i), Field("title", t), Field("content", c)>>)
      BY <1>4 DEF Content
    <2>2. i \in Seq(Kept)
      BY <1>4, IdOf
    <2> DEFINE x == "post_id"
               y == "title"
               z == "content"
    <2>3. /\ x \in Characters \ {"&", "="} /\ y \in Characters \ {"&", "="}
          /\ z \in Characters \ {"&", "="} /\ x # y /\ x # z /\ y # z
      BY <1>2
    <2>4. w = Joined(<<Field(x, i), Field(y, t), Field(z, c)>>)
      BY <2>1
    <2> HIDE DEF t, c, w, i, x, y, z
    <2>5. get_post_data(w, <<x>>) = i /\ get_post_data(w, <<y>>) = t
          /\ get_post_data(w, <<z>>) = c
      BY <1>1, <2>2, <2>3, <2>4, ThreeFields
    <2> QED  BY <1>1, <2>5 DEF Understood, w, i, x, y, z
  <1> QED  BY <1>3, <1>4

(* The handler a form reaches, with what it has made of the content.       *)
Handled(f) ==
    \/ f.op = "create" /\ create_post(f.title, f.content)
    \/ f.op = "update" /\ update_post(Id(f.id), f.title, f.content)
    \/ f.op = "delete" /\ delete_post(Id(f.id))

(* A request reaches the handler of its form, with the form's own fields.  *)
LEMMA FormHandled ==
    ASSUME Table, Underway, run \in Runs, Process
    PROVE  IsForm(form) /\ (form.op # "create" => form.id \in IdsOf(posts)) /\ Handled(form)
  <1>1. /\ wire # None /\ form # None /\ IsForm(form) /\ IsRequest(form, wire)
        /\ form.op # "create" => form.id \in IdsOf(posts)
    BY DEF Process, Underway
  <1>2. form.op # "create" => form.id \in 1..MaxId
    <2>1. IdsOf(posts) \subseteq 1..MaxId
      BY PagingAssumption DEF Table
    <2> QED  BY <1>1, <2>1
  <1>3. Understood(form, wire.content)
    <2>1. PICK blank \in Blanks : wire.content = Content(form, blank)
      BY <1>1 DEF IsRequest
    <2> QED  BY <1>1, <1>2, <2>1, FormUnderstood
  <1>4. get_session_cookie(wire.cookie, Len(Session)) = Session
    BY <1>1, SessionFound, SiteAssumption DEF IsRequest
  <1> DEFINE function == find_resource("POST", wire.path, run.ahead)
             title    == uri_decode(get_post_data(wire.content, <<"title">>))
             content  == uri_decode(get_post_data(wire.content, <<"content">>))
             post_id  == get_post_data(wire.content, <<"post_id">>)
  <1>5. \/ function = "post_post" /\ create_post(title, content)
        \/ function = "edit_post" /\ update_post(post_id, title, content)
        \/ function = "delete_post" /\ delete_post(post_id)
    BY <1>4 DEF Process
  <1>6. title = form.title /\ content = form.content
        /\ (form.op # "create" => post_id = Id(form.id))
    BY <1>3 DEF Understood
  <1>7. wire.path = Function[form.op] /\ form.op \in {"create", "update", "delete"}
    BY <1>1 DEF IsRequest, IsForm
  <1>8. /\ form.op = "create" => function = "post_post"
        /\ form.op = "update" => function = "edit_post"
        /\ form.op = "delete" => function = "delete_post"
    BY <1>7, FormRoutes DEF Function
  <1> HIDE DEF function, title, content, post_id
  <1>9. Handled(form)
    BY <1>5, <1>6, <1>7, <1>8 DEF Handled
  <1> QED  BY <1>1, <1>9

(* What the author is told is so.                                          *)
Told(f, rows, answer) ==
    /\ answer = "{success}" =>
          IF f.op = "delete" THEN f.id \notin IdsOf(rows)
          ELSE \E r \in rows : r.text = Text(f.title, f.content)
    /\ answer = "{fields_error}" => <<>> \in {f.title, f.content}
    /\ answer = "{title_taken_error}" => {r \in rows : r.text.slug = title_encode(f.title)} # {}
    /\ answer # "{nologin}" /\ answer # "{notfound}"

(* What each handler answers is what it did, and it keeps the texts.       *)
LEMMA CreateTold ==
    ASSUME OneEach, Texts, NEW f, IsForm(f), f.op = "create", create_post(f.title, f.content)
    PROVE  (OneEach /\ Texts)' /\ Told(f, posts', reply')
  <1>1. CASE f.title = <<>> \/ f.content = <<>>
    <2>1. reply' = "{fields_error}" /\ posts' = posts /\ shown' = shown
      BY <1>1 DEF create_post, pvars
    <2> QED  BY <1>1, <2>1, TextsRead DEF Told
  <1>2. CASE ~(f.title = <<>> \/ f.content = <<>>) /\ WithSlug(title_encode(f.title)) # {}
    <2>1. reply' = "{title_taken_error}" /\ posts' = posts /\ shown' = shown
      BY <1>2 DEF create_post, pvars
    <2> QED  BY <1>2, <2>1, TextsRead DEF Told, WithSlug
  <1>3. CASE ~(f.title = <<>> \/ f.content = <<>>) /\ WithSlug(title_encode(f.title)) = {}
    <2>1. reply' = "{success}" /\ Add(Text(f.title, f.content))
      BY <1>3 DEF create_post
    <2>2. IsNew(f.title, f.content)
      BY <1>3 DEF IsNew, IsForm
    <2> QED  BY <2>1, <2>2, TextsAdd DEF Told
  <1> QED  BY <1>1, <1>2, <1>3

(* The same of update_post: the address is another's, its own or nobody's. *)
LEMMA UpdateTold ==
    ASSUME OneEach, Texts, NEW f, IsForm(f), f.op = "update", f.id \in IdsOf(posts),
           update_post(Id(f.id), f.title, f.content)
    PROVE  (OneEach /\ Texts)' /\ Told(f, posts', reply')
  <1>0. \E r \in posts : Id(r.id) = Id(f.id)
    BY DEF IdsOf
  <1>1. CASE f.title = <<>> \/ f.content = <<>>
    <2>1. reply' = "{fields_error}" /\ posts' = posts /\ shown' = shown
      BY <1>1 DEF update_post, pvars
    <2> QED  BY <1>1, <2>1, TextsRead DEF Told
  <1>2. CASE ~(f.title = <<>> \/ f.content = <<>>) /\ WithSlug(title_encode(f.title)) # {}
    <2>1. reply' = "{title_taken_error}" /\ posts' = posts /\ shown' = shown
      BY <1>0, <1>2 DEF update_post, pvars
    <2> QED  BY <1>2, <2>1, TextsRead DEF Told, WithSlug
  <1>3. CASE ~(f.title = <<>> \/ f.content = <<>>) /\ WithSlug(title_encode(f.title)) = {}
    <2>1. reply' = "{success}" /\ \E r \in posts : Change(r.id, Text(f.title, f.content))
      BY <1>0, <1>3 DEF update_post
    <2>2. IsNew(f.title, f.content)
      BY <1>3 DEF IsNew, IsForm
    <2> QED  BY <2>1, <2>2, TextsChange DEF Told
  <1> QED  BY <1>1, <1>2, <1>3

(* The same of delete_post: it takes the one post with the id.             *)
LEMMA DeleteTold ==
    ASSUME Table, OneEach, Texts, NEW f, IsForm(f), f.op = "delete", f.id \in IdsOf(posts),
           delete_post(Id(f.id))
    PROVE  (OneEach /\ Texts)' /\ Told(f, posts', reply')
  <1>1. \E r \in posts : Id(r.id) = Id(f.id)
    BY DEF IdsOf
  <1>2. PICK r \in posts : Id(r.id) = Id(f.id) /\ Withdraw(r.id) /\ reply' = "{success}"
    BY <1>1 DEF delete_post
  <1>3. r.id = f.id
    <2>1. IdsOf(posts) \subseteq 1..MaxId /\ r.id \in IdsOf(posts)
      BY PagingAssumption DEF Table, IdsOf
    <2> QED  BY <1>2, <2>1, IdOf
  <1>4. (OneEach /\ Texts)' /\ f.id \notin IdsOf(posts)'
    BY <1>2, <1>3, TextsWithdraw
  <1> QED  BY <1>2, <1>4 DEF Told, IdsOf

(* A handler keeps the texts, and tells the truth.                         *)
LEMMA ProcessKeeps ==
    ASSUME Table, CarriedInv, Process
    PROVE  CarriedInv'
  <1>1. IsForm(form) /\ (form.op # "create" => form.id \in IdsOf(posts)) /\ Handled(form)
    BY FormHandled DEF CarriedInv, TextsInv, FormsInv
  <1>2. OneEach /\ Texts
    BY DEF CarriedInv, TextsInv
  <1>3. (OneEach /\ Texts)' /\ Told(form, posts', reply')
    BY <1>1, <1>2, CreateTold, UpdateTold, DeleteTold DEF Handled
  <1>4. wire' = None /\ run' = run /\ form' = form /\ visit' = visit /\ row' = row
    BY DEF Process, visitor
  <1>5. TextsInv'
    BY <1>3, <1>4 DEF CarriedInv, TextsInv
  <1>6. VisitsInv'
    BY <1>4 DEF CarriedInv, VisitsInv, Followed, Answered, LeadsToPost, FoundAsTyped
  <1>7. Underway'
    BY <1>1, <1>4 DEF Underway
  <1>8. FormsCarriedOut'
    BY <1>3, <1>4 DEF FormsCarriedOut, Told, WithSlug, IdsOf
  <1> QED  BY <1>5, <1>6, <1>7, <1>8 DEF CarriedInv, FormsInv

(* What a step that touches neither the posts nor a part keeps of it.      *)
LEMMA TextsKeep ==
    ASSUME TextsInv, posts' = posts, shown' \subseteq posts \cup shown, run' = run
    PROVE  TextsInv'
  BY TextsRead DEF TextsInv

(* The same of what the reader has been given.                             *)
LEMMA VisitsKeep ==
    ASSUME VisitsInv, UNCHANGED <<run, visit, row>>
    PROVE  VisitsInv'
  BY DEF VisitsInv, Followed, Answered, LeadsToPost, FoundAsTyped

(* The same of the form under way.                                         *)
LEMMA FormsKeep ==
    ASSUME FormsInv, UNCHANGED <<posts, form, wire, reply>>
    PROVE  FormsInv'
  BY DEF FormsInv, Underway, FormsCarriedOut, WithSlug

(* A step that leaves the posts as they are.                               *)
Resting == posts' = posts /\ shown' \subseteq posts \cup shown /\ run' = run

(* A form that is sent is one of the form's, as its author filled it in.   *)
LEMMA SubmitKeeps ==
    ASSUME Table, CarriedInv, NEW f \in Forms, Submit(f)
    PROVE  CarriedInv'
  <1>1. /\ Resting /\ UNCHANGED <<run, visit, row>> /\ form' = f /\ wire'.op = f.op
        /\ wire'.path = Function[f.op] /\ wire'.cookie \in run.cookies
        /\ \E blank \in Blanks : wire'.content = Content(f, blank)
    <2>1. PICK blank \in Blanks, cookie \in run.cookies :
              wire' = [op |-> f.op, path |-> Function[f.op], content |-> Content(f, blank),
                       cookie |-> cookie]
      BY DEF Submit
    <2>2. Resting /\ UNCHANGED <<run, visit, row>> /\ form' = f
      BY DEF Submit, visitor, pvars, Resting
    <2> QED  BY <2>1, <2>2
  <1>2. IsForm(f) /\ (f.op # "create" => f.id \in IdsOf(posts))
    BY FormText DEF CarriedInv
  <1>3. Sent(wire'.cookie)
    BY <1>1, SiteAssumption DEF CarriedInv, TextsInv
  <1>4. f # None /\ wire' # None
    <2>1. None.op = "none" /\ f.op # "none"
      BY <1>2 DEF None, IsForm
    <2> HIDE DEF None
    <2> QED  BY <1>1, <2>1
  <1>5. TextsInv' /\ VisitsInv'
    BY <1>1, TextsKeep, VisitsKeep DEF CarriedInv, Resting
  <1>6. Underway'
    BY <1>1, <1>2, <1>3, <1>4 DEF Underway, IsRequest, Resting
  <1>7. FormsCarriedOut'
    BY <1>4 DEF FormsCarriedOut
  <1> QED  BY <1>5, <1>6, <1>7 DEF CarriedInv, FormsInv

(* An answer that is read ends the form.                                   *)
LEMMA AcknowledgeKeeps ==
    ASSUME CarriedInv, Acknowledge
    PROVE  CarriedInv'
  <1>1. Resting /\ UNCHANGED <<run, visit, row>> /\ form' = None /\ wire' = None
    BY DEF Acknowledge, visitor, pvars, Resting
  <1>2. TextsInv' /\ VisitsInv'
    BY <1>1, TextsKeep, VisitsKeep DEF CarriedInv, Resting
  <1>3. FormsInv'
    BY <1>1 DEF FormsInv, Underway, FormsCarriedOut
  <1> QED  BY <1>2, <1>3 DEF CarriedInv

(* Reading disturbs what is said of the reader only.                       *)
LEMMA ReadingKeeps ==
    ASSUME CarriedInv, Resting, UNCHANGED <<form, wire, reply>>, VisitsInv'
    PROVE  CarriedInv'
  <1>1. TextsInv' /\ FormsInv'
    BY TextsKeep, FormsKeep DEF CarriedInv, Resting
  <1> QED  BY <1>1 DEF CarriedInv

(* A link that is followed is the address of a text that was shown.        *)
LEMMA ClickKeeps ==
    ASSUME CarriedInv, NEW r \in shown, Click(r)
    PROVE  CarriedInv'
  <1>1. /\ Resting /\ UNCHANGED <<form, wire, reply>> /\ row' = {r}
        /\ visit'.op = "link" /\ visit'.path = <<r.text.slug>>
        /\ visit'.document = Document(visit'.path, run'.ahead)
    BY DEF Click, author, pvars, Resting
  <1>2. IsText(r.text)
    BY DEF CarriedInv, TextsInv, Texts
  <1>3. VisitsInv'
    BY <1>1, <1>2 DEF VisitsInv, Followed, Answered, FoundAsTyped
  <1> QED  BY <1>1, <1>3, ReadingKeeps

(* A reader who leaves has asked for nothing.                              *)
LEMMA LeaveKeeps ==
    ASSUME CarriedInv, Leave
    PROVE  CarriedInv'
  <1>1. Resting /\ UNCHANGED <<form, wire, reply>> /\ visit'.op = "none"
    BY DEF Leave, author, pvars, Resting, None
  <1>2. VisitsInv'
    BY <1>1 DEF VisitsInv, Followed, Answered, FoundAsTyped
  <1> QED  BY <1>1, <1>2, ReadingKeeps

(* A button is no link of a post.                                          *)
LEMMA PressKeeps ==
    ASSUME CarriedInv, NEW button, Press(button)
    PROVE  CarriedInv'
  <1>1. Resting /\ UNCHANGED <<form, wire, reply>> /\ visit'.op = "button"
    BY DEF Press, author, pvars, Resting
  <1>2. VisitsInv'
    BY <1>1 DEF VisitsInv, Followed, Answered, FoundAsTyped
  <1> QED  BY <1>1, <1>2, ReadingKeeps

(* Two words and a text.                                                   *)
LEMMA PathAnd ==
    \A a, b, s : Path(<<a, b>>) \o <<s>> = <<Word(a), Word(b), s>>
  <1> SUFFICES ASSUME NEW a, NEW b, NEW s
               PROVE  Path(<<a, b>>) \o <<s>> = <<Word(a), Word(b), s>>
    OBVIOUS
  <1>1. Path(<<a, b>>) = <<Word(a), Word(b)>>
    BY Paths
  <1> DEFINE x == Word(a)
             y == Word(b)
             S == {x, y, s}
             u == <<x, y>>
             v == <<s>>
             w == <<x, y, s>>
  <1>2. /\ u \in Seq(S) /\ Len(u) = 2 /\ u[1] = x /\ u[2] = y
        /\ v \in Seq(S) /\ Len(v) = 1 /\ v[1] = s
    OBVIOUS
  <1>3. w \in Seq(S) /\ Len(w) = 3 /\ w[1] = x /\ w[2] = y /\ w[3] = s
    OBVIOUS
  <1> HIDE DEF S, u, v, w, x, y
  <1>4. u \o v \in Seq(S) /\ JoinIs(u, v, u \o v)
    BY <1>2, Join
  <1>5. Len(u \o v) = 3 /\ (u \o v)[1] = x /\ (u \o v)[2] = y /\ (u \o v)[3] = s
    <2>1. 1 \in 1..2 /\ 2 \in 1..2 /\ 1 \in 1..1
      OBVIOUS
    <2> QED  BY <1>2, <1>4, <2>1 DEF JoinIs
  <1>6. u \o v = w
    <2>1. \A i \in 1..3 : (u \o v)[i] = w[i]
      BY <1>3, <1>5
    <2> QED  BY <1>3, <1>4, <1>5, <2>1, SameSequence
  <1> QED  BY <1>1, <1>6 DEF u, v, w, x, y

(* Asking for a post by its address: view_post finds it by that alone.     *)
LEMMA Asking ==
    ASSUME OneEach, NEW r, IsText(r.text), NEW path, path = <<r.text.slug>>, path # Root
    PROVE  {r} \subseteq posts => Viewed(Path(<<"api", "view">>) \o path) = {r}
  <1> DEFINE s == r.text.slug
             whole == <<Word("api"), Word("view"), s>>
  <1>1. s \in Seq(Searchable) /\ s # <<>>
    BY SlugType DEF IsText, Root
  <1>2. Path(<<"api", "view">>) \o path = whole
    BY PathAnd
  <1>3. find_resource("GET", whole, run.ahead) = "view_post"
    <2> HIDE DEF s
    <2> QED  BY <1>1, TextRoutes
  <1>4. whole[3] = s
    OBVIOUS
  <1>5. {r} \subseteq posts => WithSlug(s) = {r}
    BY DEF WithSlug, OneEach
  <1> HIDE DEF whole
  <1> QED  BY <1>2, <1>3, <1>4, <1>5 DEF Viewed

(* A client that asks for the post of the address.                         *)
LEMMA AskKeeps ==
    ASSUME CarriedInv, NEW client, Ask(client)
    PROVE  CarriedInv'
  <1>1. /\ Resting /\ UNCHANGED <<form, wire, reply, row>> /\ run' = run
        /\ visit.op = "link" /\ visit'.op = "asked" /\ visit'.client = client
        /\ visit'.path = visit.path /\ visit'.document = visit.document
        /\ visit'.there = (row \subseteq posts)
        /\ client = "direct" => visit'.got = Viewed(Path(<<"api", "view">>) \o visit.path)
    BY DEF Ask, author, pvars, Resting
  <1>2. PICK r \in row : /\ row = {r} /\ IsText(r.text) /\ visit.path = <<r.text.slug>>
                         /\ visit.document = Document(visit.path, run.ahead)
    BY <1>1 DEF CarriedInv, VisitsInv, Followed
  <1>3. Followed'
    BY <1>1, <1>2 DEF Followed
  <1>4. ASSUME client = "direct", visit'.there, visit'.path # Root
        PROVE  visit'.got = row'
    BY <1>1, <1>2, <1>4, Asking DEF CarriedInv, TextsInv
  <1>5. Answered'
    BY <1>1, <1>4 DEF Answered, LeadsToPost
  <1>6. FoundAsTyped'
    BY <1>1 DEF FoundAsTyped
  <1>7. VisitsInv'
    BY <1>3, <1>5, <1>6 DEF VisitsInv
  <1> QED  BY <1>1, <1>7, ReadingKeeps

(* LIKE finds a text that has the words somewhere.                         *)
LEMMA LikeHolds ==
    ASSUME NEW text \in Seq(Characters), NEW value \in Seq(Characters), Holds(text, value)
    PROVE  Like(text, value)
  <1> DEFINE n == Len(text)
             m == Len(value)
             plain == {k \in 1..m : value[k] # "%"}
  <1>1. n \in Nat /\ m \in Nat
    OBVIOUS
  <1>2. PICK i \in 0..n : IsPrefix(value, SubSeq(text, i + 1, n))
    BY DEF Holds
  <1> DEFINE sub == SubSeq(text, i + 1, n)
             f == [k \in plain |-> i + k]
  <1>3. /\ sub \in Seq(Characters) /\ Len(sub) = n - i
        /\ \A k \in 1..(n - i) : sub[k] = text[i + k]
    BY <1>1
  <1>4. m <= n - i /\ \A k \in 1..m : sub[k] = value[k]
    <2>1. IsPrefix(value, sub)
      BY <1>2
    <2> HIDE DEF sub
    <2>2. Len(value) <= Len(sub) /\ \A k \in 1..Len(value) : sub[k] = value[k]
      BY <1>3, <2>1, PrefixIs
    <2> QED  BY <1>3, <2>2
  <1>5. \A k \in 1..m : i + k \in 1..n /\ text[i + k] = value[k]
    BY <1>1, <1>3, <1>4
  <1>6. f \in [plain -> 1..n]
    BY <1>5
  <1>7. ASSUME NEW k \in plain
        PROVE  /\ text[f[k]] = value[k]
               /\ \A j \in plain : k < j => f[k] < f[j]
               /\ k + 1 \in plain => f[k + 1] = f[k] + 1
    <2>1. f[k] = i + k /\ k \in 1..m /\ i \in Nat
      BY <1>1
    <2>2. \A j \in plain : f[j] = i + j /\ j \in 1..m
      OBVIOUS
    <2>3. text[f[k]] = value[k]
      BY <1>5, <2>1
    <2> HIDE DEF f, plain
    <2>4. \A j \in plain : k < j => f[k] < f[j]
      BY <1>1, <2>1, <2>2
    <2>5. k + 1 \in plain => f[k + 1] = f[k] + 1
      BY <1>1, <2>1, <2>2
    <2> QED  BY <2>3, <2>4, <2>5
  <1> HIDE DEF f
  <1> QED  BY <1>6, <1>7 DEF Like

(* Nothing is decoded from nothing, so that a search for something is      *)
(* something.                                                              *)
LEMMA NothingDecoded == uri_decode(<<>>) = <<>>
  <1> DEFINE v == <<>>
             ss == <<>>
  <1>1. v \in Seq(Characters) /\ ss \in Seq(Seq(Characters)) /\ Len(ss) = 0 /\ Len(v) = 0
    OBVIOUS
  <1>2. FlattenSeq(ss) = ss
    BY <1>1, FlattenEmpty
  <1>4. \A k \in 1..Len(v) : Spells(ss[k], v[k])
    BY <1>1
  <1> HIDE DEF v, ss
  <1>3. uri_decode(FlattenSeq(ss)) = v
    BY <1>1, <1>4, Decoded
  <1> QED  BY <1>2, <1>3 DEF v, ss

(* A search of any text goes to find_post.                                 *)
LEMMA FindRoutes ==
    ASSUME NEW s \in Seq(Searchable), s # <<>>
    PROVE  \A ahead : find_resource("GET", <<Word("api"), Word("find"), s>>, ahead) = "find_post"
  <1> DEFINE word == "find"
             function == "find_post"
             whole == <<Word("api"), Word(word), s>>
  <1>1. <<word, function>> \in {<<"view", "view_post">>, <<"find", "find_post">>}
    OBVIOUS
  <1>2. whole = <<Word("api"), Word(word), s>>
    OBVIOUS
  <1> HIDE DEF word, function, whole
  <1>3. \A ahead : find_resource("GET", whole, ahead) = function
    BY <1>1, <1>2, TextRoutes
  <1> QED  BY <1>3 DEF word, function, whole

(* A search reaches find_post with the words that were typed.              *)
LEMMA SearchReaches ==
    ASSUME NEW value \in Seq(Characters), value # <<>>, ToSet(value) \cap {".", "!"} = {},
           NEW path, path = Path(<<"api", "find">>) \o <<encodeURIComponent(value)>>
    PROVE  /\ find_resource("GET", path, run.ahead) = "find_post"
           /\ uri_decode(path[3]) = value
  <1> DEFINE s == encodeURIComponent(value)
  <1>1. \A i \in 1..Len(value) : value[i] \notin {".", "!"}
    <2>1. DOMAIN value = 1..Len(value)
      OBVIOUS
    <2>2. \A i \in DOMAIN value : value[i] \in ToSet(value)
      BY DEF ToSet
    <2> QED  BY <2>1, <2>2
  <1>2. s \in Seq(Searchable) /\ uri_decode(s) = value
    BY <1>1, SearchDecoded
  <1>3. s # <<>>
    BY <1>2, NothingDecoded
  <1> HIDE DEF s
  <1> DEFINE whole == <<Word("api"), Word("find"), s>>
  <1>4. path = whole
    BY PathAnd DEF s
  <1>5. find_resource("GET", whole, run.ahead) = "find_post"
    BY <1>2, <1>3, FindRoutes
  <1>6. whole[3] = s
    OBVIOUS
  <1> HIDE DEF whole
  <1> QED  BY <1>2, <1>4, <1>5, <1>6

(* A search finds what has the words in it.                                *)
LEMMA SearchKeeps ==
    ASSUME CarriedInv, NEW value \in run.values, Search(value)
    PROVE  CarriedInv'
  <1> DEFINE path == Path(<<"api", "find">>) \o <<encodeURIComponent(value)>>
             function == find_resource("GET", path, run.ahead)
             words == uri_decode(path[3])
  <1>1. /\ Resting /\ UNCHANGED <<form, wire, reply>>
        /\ visit'.op = "search" /\ visit'.value = value /\ visit'.function = function
        /\ visit'.all = posts
        /\ visit'.got = IF function = "find_post" THEN find_post(words) ELSE {}
    BY DEF Search, author, pvars, Resting
  <1>2. value \in Seq(Characters)
    <2>1. value \in Seq(STRING)
      BY SiteAssumption DEF CarriedInv, TextsInv
    <2> QED  BY <2>1, TypedText
  <1>3. ASSUME value # <<>>, ToSet(value) \cap {".", "!"} = {}
        PROVE  function = "find_post" /\ words = value
    BY <1>2, <1>3, SearchReaches
  <1> HIDE DEF function, words
  <1>4. ASSUME NEW r \in posts, Holds(r.text.title, value) \/ Holds(r.text.content, value)
        PROVE  r \in find_post(value)
    <2>1. r.text.title \in Seq(Characters) /\ r.text.content \in Seq(Characters)
      BY DEF CarriedInv, TextsInv, Texts, IsText
    <2>2. Like(r.text.title, value) \/ Like(r.text.content, value)
      BY <1>2, <1>4, <2>1, LikeHolds
    <2> QED  BY <2>2 DEF find_post
  <1>5. FoundAsTyped'
    BY <1>1, <1>3, <1>4 DEF FoundAsTyped
  <1>6. VisitsInv'
    BY <1>1, <1>5 DEF VisitsInv, Followed, Answered
  <1> QED  BY <1>1, <1>6, ReadingKeeps

(* Turning the pages.                                                      *)
LEMMA TurnKeeps ==
    ASSUME CarriedInv, TurnPages
    PROVE  CarriedInv'
  <1>1. posts' = posts /\ shown' \subseteq posts
        /\ UNCHANGED <<run, form, wire, reply, visit, row>>
    BY TurningShows
  <1>2. Resting
    BY <1>1 DEF Resting
  <1>3. VisitsInv'
    BY <1>1, VisitsKeep DEF CarriedInv
  <1> QED  BY <1>1, <1>2, <1>3, ReadingKeeps

-----------------------------------------------------------------------------

(* Whatever is done.                                                       *)
LEMMA CarriedStep == Table /\ CarriedInv /\ [SiteNext]_svars => CarriedInv'
  <1> SUFFICES ASSUME Table, CarriedInv, [SiteNext]_svars PROVE CarriedInv'
    OBVIOUS
  <1>1. CASE \E f \in Forms : Submit(f)
    BY <1>1, SubmitKeeps
  <1>2. CASE Process
    BY <1>2, ProcessKeeps
  <1>3. CASE Acknowledge
    BY <1>3, AcknowledgeKeeps
  <1>4. CASE \E r \in shown : Click(r)
    BY <1>4, ClickKeeps
  <1>5. CASE \E client \in run.clients : Ask(client)
    BY <1>5, AskKeeps
  <1>6. CASE \E value \in run.values : Search(value)
    BY <1>6, SearchKeeps
  <1>7. CASE TurnPages
    BY <1>7, TurnKeeps
  <1>8. CASE Leave
    BY <1>8, LeaveKeeps
  <1>9. CASE \E button \in nav : Press(button)
    BY <1>9, PressKeeps
  <1>10. CASE UNCHANGED svars
    <2>1. Resting /\ UNCHANGED <<run, visit, row>> /\ UNCHANGED <<form, wire, reply>>
      BY <1>10 DEF svars, pvars, Resting
    <2> QED  BY <2>1, VisitsKeep, ReadingKeeps DEF CarriedInv
  <1> QED
    BY <1>1, <1>2, <1>3, <1>4, <1>5, <1>6, <1>7, <1>8, <1>9, <1>10 DEF SiteNext

(* At first nothing is there, nothing shown and nothing sent.              *)
LEMMA CarriedInit == SiteInit => CarriedInv
  <1> SUFFICES ASSUME SiteInit PROVE CarriedInv
    OBVIOUS
  <1>1. /\ posts = {} /\ shown = {} /\ run \in Runs /\ form = None /\ wire = None
        /\ visit.op = "none"
    BY DEF SiteInit, PagingInit, None
  <1>2. TextsInv
    BY <1>1 DEF TextsInv, OneEach, Texts
  <1>3. VisitsInv
    BY <1>1 DEF VisitsInv, Followed, Answered, FoundAsTyped
  <1>4. FormsInv
    BY <1>1 DEF FormsInv, Underway, FormsCarriedOut
  <1> QED  BY <1>2, <1>3, <1>4 DEF CarriedInv

(* The link is good wherever the reader stands.                            *)
LEMMA LinksHold ==
    ASSUME CarriedInv
    PROVE  LinkLeadsToPost
  <1>1. ASSUME visit.op \in {"link", "asked"}, visit.path # Root
        PROVE  \/ visit.document = viewFile
               \/ \E r \in resource : r.function \in run.ahead /\ visit.path = r.prefix
    <2>1. PICK r \in row : /\ IsText(r.text) /\ visit.path = <<r.text.slug>>
                           /\ visit.document = Document(visit.path, run.ahead)
      BY <1>1 DEF CarriedInv, VisitsInv, Followed
    <2> DEFINE s == r.text.slug
    <2>2. s \in Seq(Searchable) /\ s # <<>>
      BY <1>1, <2>1, SlugType DEF IsText, Root
    <2> HIDE DEF s
    <2>3. visit.path = <<s>>
      BY <2>1 DEF s
    <2> QED  BY <2>1, <2>2, <2>3, LinkDocument
  <1>2. visit.op = "asked" /\ visit.client = "direct" => LeadsToPost
    BY DEF CarriedInv, VisitsInv, Answered
  <1> QED  BY <1>1, <1>2 DEF LinkLeadsToPost

-----------------------------------------------------------------------------

(* At first the table is empty, and the client has nothing before it.      *)
LEMMA InvInit == SiteInit => Inv
  <1> SUFFICES ASSUME SiteInit PROVE Inv
    OBVIOUS
  <1>1. posts = {} /\ nextId = 1 /\ at = 0 /\ due = {}
    BY DEF SiteInit, PagingInit
  <1>2. Table
    BY <1>1, FS_EmptySet, PagingAssumption DEF Table, IdsOf
  <1>3. StillAhead
    BY <1>1 DEF StillAhead, Unseen
  <1> QED  BY <1>2, <1>3 DEF Inv

(* A client that asks for /api/home, /api/home/1 and so on until an answer *)
(* comes without Next has been given every post that was there when it     *)
(* began, whatever is posted and edited meanwhile (get_posts,              *)
(* blog.cpp:414-470).                                                      *)
THEOREM PagingMissesNothing == Spec => []NothingMissed
  <1>1. SiteInit => Inv
    BY InvInit
  <1>2. Inv /\ [SiteNext]_svars => Inv'
    BY StepKeeps
  <1>3. Inv => NothingMissed
    BY DEF Inv, StillAhead, Unseen, NothingMissed
  <1> QED
    BY <1>1, <1>2, <1>3, PTL DEF Spec

(* Whatever is typed and edited, the table and what is carried through it  *)
(* are as they should be.                                                  *)
LEMMA CarriedAlways == Spec => [](Inv /\ CarriedInv)
  <1>1. SiteInit => Inv /\ CarriedInv
    BY InvInit, CarriedInit
  <1>2. Inv /\ CarriedInv /\ [SiteNext]_svars => (Inv /\ CarriedInv)'
    <2>1. Inv /\ [SiteNext]_svars => Inv'
      BY StepKeeps
    <2>2. Table /\ CarriedInv /\ [SiteNext]_svars => CarriedInv'
      BY CarriedStep
    <2> QED  BY <2>1, <2>2 DEF Inv
  <1> QED
    BY <1>1, <1>2, PTL DEF Spec

(* A form arrives as it was filled in, whatever characters are typed: what *)
(* is posted, edited or deleted is what the author meant and was told, and *)
(* a search finds every post that has the words, as they were typed        *)
(* (get_post_data and uri_decode, blog.cpp and server_http.h; the handlers *)
(* of the forms; find_post).                                               *)
THEOREM FormsAndSearches == Spec => []CarriedAsTyped
  <1>1. Inv /\ CarriedInv => CarriedAsTyped
    BY DEF CarriedInv, VisitsInv, FormsInv, CarriedAsTyped
  <1> QED
    BY <1>1, CarriedAlways, PTL

(* The link on a page is answered with the page of a post, and a client    *)
(* that asks directly for the post of that address is given that post as   *)
(* long as it is there (view_post and the table of routes).                *)
THEOREM LinksLead == Spec => []LinkLeadsToPost
  <1>1. Inv /\ CarriedInv => LinkLeadsToPost
    BY LinksHold
  <1> QED
    BY <1>1, CarriedAlways, PTL
=============================================================================
