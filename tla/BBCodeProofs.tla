---------------------------- MODULE BBCodeProofs ----------------------------
(***************************************************************************)
(* Three properties of the HTML of a post, for all posts and all ways the  *)
(* buffer may be filled: TagsOnly, WordsStayWhole and FormattingStands.    *)
(*                                                                         *)
(* TagsOnly follows from ParserInv: the stack holds tags, the text is      *)
(* items, and the sources of the items are the lexemes taken.              *)
(* WordsStayWhole follows from LexerInv: the strings of the lexemes and    *)
(* what is being collected are the characters taken from the post.         *)
(* FormattingStands follows from Sound: without links every tag on the     *)
(* stack and every piece of HTML stands where a tag of that name was       *)
(* written, and the tag being read is where the state says it is.          *)
(***************************************************************************)
EXTENDS BBCode, SequenceFacts

(* Sequences, tags and items, of whatever they are.                        *)
IsSeq(s) == \E S : s \in Seq(S)

IsTag(t) == t \in [name : {t.name}, type : {"opening", "closing"},
                   from : Nat, left : Nat, right : Nat, attr : {t.attr}]
AreTags(ts) == IsSeq(ts) /\ \A k \in 1..Len(ts) : IsTag(ts[k])

IsItem(it) ==
    /\ it.src \in Seq(P!Lexemes)
    /\ it.kind = "text" => it.name \in P!Lexemes /\ it = P!Lexeme(it.name)
AreItems(d) == IsSeq(d) /\ \A k \in 1..Len(d) : IsItem(d[k])

(* The sources of the items.                                               *)
Sources(d) == [k \in DOMAIN d |-> d[k].src]

-----------------------------------------------------------------------------
(* The length and the domain of a sequence.                                *)
LEMMA SeqIs ==
    ASSUME NEW s, IsSeq(s)
    PROVE  /\ Len(s) \in Nat /\ DOMAIN s = 1..Len(s)
           /\ s \in Seq({s[k] : k \in 1..Len(s)})
  <1>1. PICK S : s \in Seq(S)
    BY DEF IsSeq
  <1> QED  BY <1>1

(* An element more.                                                        *)
LEMMA SeqAppend ==
    ASSUME NEW s, IsSeq(s), NEW x
    PROVE  /\ IsSeq(Append(s, x)) /\ Len(Append(s, x)) = Len(s) + 1
           /\ \A k \in 1..Len(s) : Append(s, x)[k] = s[k]
           /\ Append(s, x)[Len(s) + 1] = x
  <1>1. PICK S : s \in Seq(S)
    BY DEF IsSeq
  <1>2. s \in Seq(S \cup {x}) /\ x \in S \cup {x}
    BY <1>1
  <1> HIDE <1>1
  <1> QED  BY <1>2, AppendProperties DEF IsSeq

(* Two sequences, one after the other.                                     *)
LEMMA SeqConcat ==
    ASSUME NEW s, IsSeq(s), NEW t, IsSeq(t)
    PROVE  /\ IsSeq(s \o t) /\ Len(s \o t) = Len(s) + Len(t)
           /\ \A k \in 1..(Len(s) + Len(t)) :
                 (s \o t)[k] = IF k <= Len(s) THEN s[k] ELSE t[k - Len(s)]
  <1>1. PICK S : s \in Seq(S)
    BY DEF IsSeq
  <1>2. PICK T : t \in Seq(T)
    BY DEF IsSeq
  <1>3. s \in Seq(S \cup T) /\ t \in Seq(S \cup T)
    BY <1>1, <1>2
  <1> QED  BY <1>3, ConcatProperties DEF IsSeq

(* A part of a sequence.                                                   *)
LEMMA SeqPart ==
    ASSUME NEW s, IsSeq(s), NEW m \in Nat \ {0}, NEW n \in Nat, n <= Len(s)
    PROVE  /\ IsSeq(SubSeq(s, m, n))
           /\ Len(SubSeq(s, m, n)) = IF m <= n THEN n - m + 1 ELSE 0
           /\ \A k \in 1..(n - m + 1) : SubSeq(s, m, n)[k] = s[m + k - 1]
  <1>1. PICK S : s \in Seq(S)
    BY DEF IsSeq
  <1>2. \A k \in m..n : s[k] \in S
    BY <1>1
  <1> QED  BY <1>2, SubSeqProperties DEF IsSeq

(* A part that begins behind the item m.                                   *)
LEMMA PartBehind ==
    ASSUME NEW s, IsSeq(s), NEW m \in Nat, NEW n \in Nat, m <= n, n <= Len(s)
    PROVE  /\ IsSeq(SubSeq(s, m + 1, n)) /\ Len(SubSeq(s, m + 1, n)) = n - m
           /\ \A k \in 1..(n - m) : SubSeq(s, m + 1, n)[k] = s[m + k]
  <1> DEFINE a == m + 1
  <1>1. a \in Nat \ {0} /\ n - a + 1 = n - m /\ (IF a <= n THEN n - a + 1 ELSE 0) = n - m
    OBVIOUS
  <1>2. ASSUME NEW k \in 1..(n - m) PROVE a + k - 1 = m + k
    OBVIOUS
  <1> HIDE DEF a
  <1>3. /\ IsSeq(SubSeq(s, a, n)) /\ Len(SubSeq(s, a, n)) = n - m
        /\ \A k \in 1..(n - m) : SubSeq(s, a, n)[k] = s[a + k - 1]
    BY <1>1, SeqPart
  <1> QED  BY <1>2, <1>3 DEF a

(* Two sequences that begin alike.                                         *)
LEMMA SamePrefix ==
    ASSUME NEW s, IsSeq(s), NEW t, IsSeq(t), NEW n \in Nat, n <= Len(s), n <= Len(t),
           \A k \in 1..n : s[k] = t[k]
    PROVE  SubSeq(s, 1, n) = SubSeq(t, 1, n)
  <1> DEFINE a == SubSeq(s, 1, n)
             b == SubSeq(t, 1, n)
  <1>1. IsSeq(a) /\ Len(a) = n /\ \A k \in 1..n : a[k] = s[k]
    <2>1. /\ IsSeq(a) /\ Len(a) = IF 1 <= n THEN n - 1 + 1 ELSE 0
          /\ \A k \in 1..(n - 1 + 1) : a[k] = s[1 + k - 1]
      BY SeqPart
    <2> QED  BY <2>1
  <1>2. IsSeq(b) /\ Len(b) = n /\ \A k \in 1..n : b[k] = t[k]
    <2>1. /\ IsSeq(b) /\ Len(b) = IF 1 <= n THEN n - 1 + 1 ELSE 0
          /\ \A k \in 1..(n - 1 + 1) : b[k] = t[1 + k - 1]
      BY SeqPart
    <2> QED  BY <2>1
  <1> HIDE DEF a, b
  <1>3. Len(a) = Len(b) /\ \A k \in 1..Len(a) : a[k] = b[k]
    BY <1>1, <1>2
  <1>4. a = b
    <2>1. PICK S : a \in Seq(S)
      BY <1>1 DEF IsSeq
    <2>2. PICK T : b \in Seq(T)
      BY <1>2 DEF IsSeq
    <2> DEFINE U == S \cup T
    <2>3. a \in Seq(U) /\ b \in Seq(U)
      BY <2>1, <2>2
    <2> HIDE DEF U
    <2> QED  BY <1>3, <2>3, SeqEqual
  <1> QED  BY <1>4 DEF a, b

(* FlattenSeq and the others are those of this module.                     *)
LEMMA SourceIs == ASSUME NEW d PROVE P!Source(d) = FlattenSeq(Sources(d))
  BY DEF P!Source, P!FlattenSeq, FlattenSeq, Sources

(* The source of items is a sequence of lexemes.                           *)
LEMMA SourcesAre ==
    ASSUME NEW d, AreItems(d)
    PROVE  /\ Sources(d) \in Seq(Seq(P!Lexemes)) /\ Len(Sources(d)) = Len(d)
           /\ \A k \in 1..Len(d) : Sources(d)[k] = d[k].src
           /\ P!Source(d) \in Seq(P!Lexemes)
  <1>1. Len(d) \in Nat /\ DOMAIN d = 1..Len(d) /\ \A k \in 1..Len(d) : d[k].src \in Seq(P!Lexemes)
    BY SeqIs DEF AreItems, IsItem
  <1>2. Sources(d) \in [1..Len(d) -> Seq(P!Lexemes)]
    BY <1>1 DEF Sources
  <1>3. Sources(d) \in Seq(Seq(P!Lexemes)) /\ Len(Sources(d)) = Len(d)
    BY <1>1, <1>2, FunctionIsSeq
  <1> QED  BY <1>1, <1>3, SourceIs, FlattenType DEF Sources

(* The source of a text is that of its parts.                              *)
LEMMA SourceConcat ==
    ASSUME NEW a, AreItems(a), NEW b, AreItems(b)
    PROVE  AreItems(a \o b) /\ P!Source(a \o b) = P!Source(a) \o P!Source(b)
  <1>0. Len(a) \in Nat /\ Len(b) \in Nat
    BY SeqIs DEF AreItems
  <1>1. /\ IsSeq(a \o b) /\ Len(a \o b) = Len(a) + Len(b)
        /\ \A k \in 1..(Len(a) + Len(b)) : (a \o b)[k] = IF k <= Len(a) THEN a[k] ELSE b[k - Len(a)]
    BY SeqConcat DEF AreItems
  <1>2. AreItems(a \o b)
    <2>1. ASSUME NEW k \in 1..(Len(a) + Len(b)) PROVE IsItem((a \o b)[k])
      <3>1. k <= Len(a) => IsItem(a[k])
        BY DEF AreItems
      <3>2. ~(k <= Len(a)) => IsItem(b[k - Len(a)])
        BY <1>0 DEF AreItems
      <3> QED  BY <1>1, <3>1, <3>2
    <2> QED  BY <1>1, <2>1 DEF AreItems
  <1>3. Sources(a \o b) = Sources(a) \o Sources(b)
    <2> DEFINE s == Sources(a \o b)
               t == Sources(a) \o Sources(b)
    <2>1. /\ s \in Seq(Seq(P!Lexemes)) /\ Len(s) = Len(a) + Len(b)
          /\ \A k \in 1..(Len(a) + Len(b)) : s[k] = (a \o b)[k].src
      BY <1>1, <1>2, SourcesAre
    <2>2. /\ Sources(a) \in Seq(Seq(P!Lexemes)) /\ Len(Sources(a)) = Len(a)
          /\ \A k \in 1..Len(a) : Sources(a)[k] = a[k].src
      BY SourcesAre
    <2>3. /\ Sources(b) \in Seq(Seq(P!Lexemes)) /\ Len(Sources(b)) = Len(b)
          /\ \A k \in 1..Len(b) : Sources(b)[k] = b[k].src
      BY SourcesAre
    <2>4. /\ t \in Seq(Seq(P!Lexemes)) /\ Len(t) = Len(a) + Len(b)
          /\ \A k \in 1..(Len(a) + Len(b)) :
                t[k] = IF k <= Len(a) THEN Sources(a)[k] ELSE Sources(b)[k - Len(a)]
      <3> HIDE DEF s, t
      <3>1. IsSeq(Sources(a)) /\ IsSeq(Sources(b))
        BY <2>2, <2>3 DEF IsSeq
      <3>2. t \in Seq(Seq(P!Lexemes))
        BY <2>2, <2>3, ConcatProperties DEF t
      <3>3. /\ Len(t) = Len(Sources(a)) + Len(Sources(b))
            /\ \A k \in 1..(Len(Sources(a)) + Len(Sources(b))) :
                  t[k] = IF k <= Len(Sources(a)) THEN Sources(a)[k]
                         ELSE Sources(b)[k - Len(Sources(a))]
        BY <3>1, SeqConcat DEF t
      <3>4. Len(Sources(a)) = Len(a) /\ Len(Sources(b)) = Len(b)
        BY <2>2, <2>3
      <3> QED  BY <3>2, <3>3, <3>4
    <2> HIDE DEF s, t
    <2>5. ASSUME NEW k \in 1..(Len(a) + Len(b)) PROVE s[k] = t[k]
      <3>1. CASE k <= Len(a)
        <4>1. k \in 1..Len(a)
          BY <1>0, <3>1
        <4> QED  BY <1>1, <2>1, <2>2, <2>4, <3>1, <4>1
      <3>2. CASE ~(k <= Len(a))
        <4>1. k - Len(a) \in 1..Len(b)
          BY <1>0, <3>2
        <4> QED  BY <1>1, <2>1, <2>3, <2>4, <3>2, <4>1
      <3> QED  BY <3>1, <3>2
    <2>6. s = t
      BY <2>1, <2>4, <2>5, SeqEqual
    <2> QED  BY <2>6 DEF s, t
  <1>4. FlattenSeq(Sources(a) \o Sources(b)) = FlattenSeq(Sources(a)) \o FlattenSeq(Sources(b))
    BY SourcesAre, FlattenConcat
  <1> QED  BY <1>2, <1>3, <1>4, SourceIs

(* A part of a text.                                                       *)
LEMMA ItemsPart ==
    ASSUME NEW d, AreItems(d), NEW m \in Nat \ {0}, NEW n \in Nat, n <= Len(d)
    PROVE  AreItems(SubSeq(d, m, n))
  <1>1. /\ IsSeq(SubSeq(d, m, n))
        /\ Len(SubSeq(d, m, n)) = IF m <= n THEN n - m + 1 ELSE 0
        /\ \A k \in 1..(n - m + 1) : SubSeq(d, m, n)[k] = d[m + k - 1]
    BY SeqPart DEF AreItems
  <1>2. ASSUME NEW k \in 1..Len(SubSeq(d, m, n)) PROVE IsItem(SubSeq(d, m, n)[k])
    <2>1. m <= n /\ k \in 1..(n - m + 1) /\ m + k - 1 \in 1..Len(d)
      BY <1>1, SeqIs DEF AreItems
    <2> QED  BY <1>1, <2>1 DEF AreItems
  <1> QED  BY <1>1, <1>2 DEF AreItems

(* One item.                                                               *)
LEMMA ItemOne ==
    ASSUME NEW it, IsItem(it)
    PROVE  AreItems(<<it>>) /\ P!Source(<<it>>) = it.src /\ Len(<<it>>) = 1 /\ <<it>>[1] = it
  <1>1. IsSeq(<<it>>) /\ Len(<<it>>) = 1 /\ <<it>>[1] = it
    <2>1. <<it>> \in Seq({it})
      OBVIOUS
    <2> QED  BY <2>1 DEF IsSeq
  <1>2. AreItems(<<it>>)
    BY <1>1 DEF AreItems
  <1>3. /\ Sources(<<it>>) \in Seq(Seq(P!Lexemes)) /\ Len(Sources(<<it>>)) = 1
        /\ Sources(<<it>>)[1] = it.src
    BY <1>1, <1>2, SourcesAre
  <1>4. Sources(<<it>>) = Append(<<>>, it.src)
    BY <1>3
  <1>5. it.src \in Seq(P!Lexemes)
    BY DEF IsItem
  <1>6. FlattenSeq(Append(<<>>, it.src)) = FlattenSeq(<<>>) \o it.src
    <2>1. <<>> \in Seq(Seq(P!Lexemes))
      OBVIOUS
    <2> QED  BY <1>5, <2>1, FlattenAppend
  <1>7. FlattenSeq(<<>>) = <<>>
    BY FlattenEmpty
  <1> QED  BY <1>1, <1>2, <1>4, <1>5, <1>6, <1>7, SourceIs, ConcatEmptySeq

-----------------------------------------------------------------------------
(* The HTML of a tag is one item that stands for what was erased.          *)
LEMMA HtmlIs ==
    ASSUME NEW t, NEW src \in Seq(P!Lexemes)
    PROVE  \E h : /\ P!Html(t, src) = <<h>> /\ IsItem(h) /\ h.src = src /\ h.name = t.name
                  /\ h.kind = IF t.name \in P!Void
                              THEN IF t.type = "closing" THEN "stray" ELSE "void"
                              ELSE IF t.type = "closing" THEN "close" ELSE "open"
  <1> DEFINE kind == IF t.name \in P!Void THEN IF t.type = "closing" THEN "stray" ELSE "void"
                     ELSE IF t.type = "closing" THEN "close" ELSE "open"
             h == [kind |-> kind, name |-> t.name, src |-> src, value |-> P!Value(t)]
  <1>1. P!Html(t, src) = <<h>>
    BY DEF P!Html
  <1>2. kind # "text"
    OBVIOUS
  <1>3. h.kind = kind /\ h.src = src /\ h.name = t.name
    OBVIOUS
  <1> HIDE DEF h, kind
  <1>4. IsItem(h)
    BY <1>2, <1>3 DEF IsItem
  <1> QED  BY <1>1, <1>3, <1>4 DEF kind

(* A tag at its positions gives way to its HTML, and the text before it    *)
(* and after it stays.                                                     *)
LEMMA ReplacedIs ==
    ASSUME NEW d, AreItems(d), NEW t, IsTag(t), P!InPlace(d, t)
    PROVE  /\ t.left \in Nat /\ t.right \in Nat /\ t.left < t.right /\ t.right <= Len(d)
           /\ AreItems(P!Replaced(d, t)) /\ P!Source(P!Replaced(d, t)) = P!Source(d)
           /\ Len(P!Replaced(d, t)) = t.left + 1 + (Len(d) - t.right)
           /\ \A k \in 1..t.left : P!Replaced(d, t)[k] = d[k]
           /\ P!Html(t, P!Erased(d, t)) = <<P!Replaced(d, t)[t.left + 1]>>
           /\ \A k \in 1..(Len(d) - t.right) : P!Replaced(d, t)[t.left + 1 + k] = d[t.right + k]
  <1> DEFINE a == SubSeq(d, 1, t.left)
             b == SubSeq(d, t.left + 1, t.right)
             c == SubSeq(d, t.right + 1, Len(d))
             s == P!Erased(d, t)
  <1>1. t.left \in Nat /\ t.right \in Nat /\ t.left < t.right /\ t.right <= Len(d) /\ Len(d) \in Nat
    BY SeqIs DEF IsTag, P!InPlace, AreItems
  <1>2. AreItems(a) /\ Len(a) = t.left /\ \A k \in 1..t.left : a[k] = d[k]
    <2>1. AreItems(a)
      BY <1>1, ItemsPart
    <2>2. /\ Len(a) = IF 1 <= t.left THEN t.left - 1 + 1 ELSE 0
          /\ \A k \in 1..(t.left - 1 + 1) : a[k] = d[1 + k - 1]
      BY <1>1, SeqPart DEF AreItems
    <2> QED  BY <1>1, <2>1, <2>2
  <1>3. AreItems(b)
    BY <1>1, ItemsPart
  <1>4. AreItems(c) /\ Len(c) = Len(d) - t.right /\ \A k \in 1..Len(c) : c[k] = d[t.right + k]
    <2> DEFINE r == t.right
               n == Len(d)
    <2>1. AreItems(c)
      BY <1>1, ItemsPart
    <2>2. r \in Nat /\ n \in Nat /\ r <= n /\ n <= Len(d) /\ IsSeq(d) /\ c = SubSeq(d, r + 1, n)
      BY <1>1 DEF AreItems
    <2> HIDE DEF c, r, n
    <2>3. Len(c) = n - r /\ \A k \in 1..(n - r) : c[k] = d[r + k]
      BY <2>2, PartBehind
    <2> QED  BY <2>1, <2>3 DEF r, n
  <1>5. s = P!Source(b) /\ s \in Seq(P!Lexemes)
    BY <1>3, SourcesAre DEF P!Erased
  <1>6. PICK h : P!Html(t, s) = <<h>> /\ IsItem(h) /\ h.src = s
    BY <1>5, HtmlIs
  <1>7. P!Replaced(d, t) = (a \o <<h>>) \o c
    BY <1>6 DEF P!Replaced
  <1>8. d = (a \o b) \o c
    <2>1. d \in Seq({d[k] : k \in 1..Len(d)})
      BY SeqIs DEF AreItems
    <2>2. a \o b = SubSeq(d, 1, t.right)
      <3>1. t.left \in 1 - 1..Len(d) /\ t.right \in t.left..Len(d) /\ 1 \in 1..Len(d) + 1
        BY <1>1
      <3> QED  BY <2>1, <3>1, ConcatAdjacentSubSeq
    <2>3. SubSeq(d, 1, t.right) \o c = SubSeq(d, 1, Len(d))
      <3>1. t.right \in 1 - 1..Len(d) /\ Len(d) \in t.right..Len(d) /\ 1 \in 1..Len(d) + 1
        BY <1>1
      <3> QED  BY <2>1, <3>1, ConcatAdjacentSubSeq
    <2> QED  BY <2>1, <2>2, <2>3, SubSeqFull
  <1> HIDE DEF a, b, c, s
  <1>9. AreItems(<<h>>) /\ P!Source(<<h>>) = s /\ Len(<<h>>) = 1 /\ <<h>>[1] = h
    BY <1>6, ItemOne
  <1>10. /\ AreItems(a \o <<h>>) /\ P!Source(a \o <<h>>) = P!Source(a) \o s
         /\ AreItems(a \o b) /\ P!Source(a \o b) = P!Source(a) \o s
    BY <1>2, <1>3, <1>5, <1>9, SourceConcat
  <1>11. /\ AreItems(P!Replaced(d, t))
         /\ P!Source(P!Replaced(d, t)) = (P!Source(a) \o s) \o P!Source(c)
         /\ P!Source(d) = (P!Source(a) \o s) \o P!Source(c)
    BY <1>4, <1>7, <1>8, <1>10, SourceConcat
  <1>12. /\ Len(a \o <<h>>) = t.left + 1
         /\ \A k \in 1..(t.left + 1) : (a \o <<h>>)[k] = IF k <= t.left THEN a[k] ELSE h
    <2>1. /\ Len(a \o <<h>>) = Len(a) + Len(<<h>>)
          /\ \A k \in 1..(Len(a) + Len(<<h>>)) :
                (a \o <<h>>)[k] = IF k <= Len(a) THEN a[k] ELSE <<h>>[k - Len(a)]
      BY <1>2, <1>9, SeqConcat DEF AreItems
    <2>2. \A k \in 1..(t.left + 1) : ~(k <= t.left) => k - t.left = 1
      BY <1>1
    <2> QED  BY <1>2, <1>9, <2>1, <2>2
  <1>13. /\ Len(P!Replaced(d, t)) = t.left + 1 + (Len(d) - t.right)
         /\ \A k \in 1..(t.left + 1) : P!Replaced(d, t)[k] = IF k <= t.left THEN a[k] ELSE h
    <2>1. /\ Len((a \o <<h>>) \o c) = Len(a \o <<h>>) + Len(c)
          /\ \A k \in 1..(Len(a \o <<h>>) + Len(c)) :
                ((a \o <<h>>) \o c)[k] = IF k <= Len(a \o <<h>>) THEN (a \o <<h>>)[k]
                                         ELSE c[k - Len(a \o <<h>>)]
      BY <1>4, <1>10, SeqConcat DEF AreItems
    <2>2. \A k \in 1..(t.left + 1) : k \in 1..((t.left + 1) + (Len(d) - t.right))
      BY <1>1
    <2> QED  BY <1>1, <1>4, <1>7, <1>12, <2>1, <2>2
  <1>14. /\ \A k \in 1..t.left : P!Replaced(d, t)[k] = d[k]
         /\ P!Replaced(d, t)[t.left + 1] = h
    <2>1. \A k \in 1..t.left : k \in 1..(t.left + 1) /\ k <= t.left
      BY <1>1
    <2>2. t.left + 1 \in 1..(t.left + 1) /\ ~(t.left + 1 <= t.left)
      BY <1>1
    <2> QED  BY <1>2, <1>13, <2>1, <2>2
  <1>15. \A k \in 1..(Len(d) - t.right) : P!Replaced(d, t)[t.left + 1 + k] = d[t.right + k]
    <2> SUFFICES ASSUME NEW k \in 1..(Len(d) - t.right)
                 PROVE  P!Replaced(d, t)[t.left + 1 + k] = d[t.right + k]
      OBVIOUS
    <2> DEFINE m == t.left + 1 + k
    <2>1. /\ m \in 1..(t.left + 1 + (Len(d) - t.right)) /\ ~(m <= t.left + 1)
          /\ m - (t.left + 1) = k
      BY <1>1
    <2> HIDE DEF m
    <2>2. \A n \in 1..(Len(a \o <<h>>) + Len(c)) :
             ((a \o <<h>>) \o c)[n] = IF n <= Len(a \o <<h>>) THEN (a \o <<h>>)[n]
                                      ELSE c[n - Len(a \o <<h>>)]
      BY <1>4, <1>10, SeqConcat DEF AreItems
    <2>3. ((a \o <<h>>) \o c)[m] = c[k]
      BY <1>4, <1>12, <2>1, <2>2
    <2> QED  BY <1>4, <1>7, <2>3 DEF m
  <1> QED  BY <1>1, <1>6, <1>11, <1>13, <1>14, <1>15 DEF s

-----------------------------------------------------------------------------
(* A set of numbers that are not 0 and bounded has a greatest one.         *)
LEMMA GreatestExists ==
    ASSUME NEW n \in Nat, NEW I \in SUBSET (1..n), I # {}
    PROVE  P!Max(I) \in I
  <1> DEFINE D == {m \in Nat : \A J \in SUBSET (1..m) : J # {} => \E x \in J : \A y \in J : x >= y}
  <1>1. 0 \in D
    <2>1. \A J \in SUBSET (1..0) : J = {}
      OBVIOUS
    <2> QED  BY <2>1
  <1>2. ASSUME NEW m \in Nat, m \in D PROVE m + 1 \in D
    <2>1. SUFFICES ASSUME NEW J \in SUBSET (1..(m + 1)), J # {}
                   PROVE  \E x \in J : \A y \in J : x >= y
      BY <1>2
    <2>2. CASE m + 1 \in J
      <3>1. \A y \in J : m + 1 >= y
        BY <2>1
      <3> QED  BY <2>2, <3>1
    <2>3. CASE m + 1 \notin J
      <3>1. J \in SUBSET (1..m)
        BY <2>1, <2>3
      <3> QED  BY <1>2, <2>1, <3>1
    <2> QED  BY <2>2, <2>3
  <1> HIDE DEF D
  <1>3. n \in D
    BY <1>1, <1>2, SetInduction
  <1>4. \E x \in I : \A y \in I : x >= y
    BY <1>3 DEF D
  <1> QED  BY <1>4 DEF P!Max

(* OpenerOf finds an opening tag of the name of the last tag, if there is  *)
(* one.                                                                    *)
LEMMA OpenerIs ==
    ASSUME NEW ts, AreTags(ts), ts # <<>>
    PROVE  \/ /\ P!OpenerOf(ts) = 0
              /\ \A k \in 1..Len(ts) - 1 : ~(ts[k].type = "opening" /\ ts[k].name = ts[Len(ts)].name)
           \/ /\ P!OpenerOf(ts) \in 1..Len(ts) - 1
              /\ ts[P!OpenerOf(ts)].type = "opening"
              /\ ts[P!OpenerOf(ts)].name = ts[Len(ts)].name
  <1> DEFINE I == {k \in 1..Len(ts) - 1 : ts[k].type = "opening" /\ ts[k].name = ts[Len(ts)].name}
  <1>1. P!OpenerOf(ts) = IF I # {} THEN P!Max(I) ELSE 0
    BY DEF P!OpenerOf, P!SelectLastInSubSeq, P!Last
  <1>2. Len(ts) - 1 \in Nat
    BY SeqIs, EmptySeq DEF AreTags
  <1>3. I # {} => P!Max(I) \in I
    <2>1. I \in SUBSET (1..(Len(ts) - 1))
      OBVIOUS
    <2> HIDE DEF I
    <2> QED  BY <1>2, <2>1, GreatestExists
  <1> QED  BY <1>1, <1>3

(* What is left of the tags between two: the closing ones, in their order. *)
LEMMA LeaveIs ==
    ASSUME NEW ts, AreTags(ts), NEW from \in 1..Len(ts)
    PROVE  /\ AreTags(P!LeaveClosings(ts, from))
           /\ \A k \in 1..Len(P!LeaveClosings(ts, from)) :
                 /\ P!LeaveClosings(ts, from)[k].type = "closing"
                 /\ P!LeaveClosings(ts, from)[k] \in {ts[j] : j \in 1..Len(ts)}
           /\ (\A k \in from..Len(ts) - 1 : ts[k].type = "opening") =>
                 P!LeaveClosings(ts, from) = <<>>
           /\ (\A k \in from..Len(ts) - 1 : ts[k].type = "closing") =>
                 P!LeaveClosings(ts, from) = SubSeq(ts, from, Len(ts) - 1)
  <1> DEFINE between == SubSeq(ts, from, Len(ts) - 1)
             S == {x \in {ts[k] : k \in 1..Len(ts)} : x.type = "closing"}
             parts == [k \in DOMAIN between |-> IF between[k].type = "closing" THEN <<between[k]>>
                                                ELSE <<>>]
  <1>1. P!LeaveClosings(ts, from) = FlattenSeq(parts)
    BY DEF P!LeaveClosings, P!FlattenSeq, FlattenSeq
  <1>2. Len(ts) \in Nat /\ Len(ts) - 1 \in Nat /\ from \in Nat \ {0} /\ Len(ts) - 1 <= Len(ts)
    BY SeqIs DEF AreTags
  <1>3. /\ IsSeq(between)
        /\ Len(between) = IF from <= Len(ts) - 1 THEN Len(ts) - 1 - from + 1 ELSE 0
        /\ \A k \in 1..(Len(ts) - 1 - from + 1) : between[k] = ts[from + k - 1]
    BY <1>2, SeqPart DEF AreTags
  <1>4. ASSUME NEW k \in 1..Len(between)
        PROVE  /\ from + k - 1 \in from..Len(ts) - 1 /\ from + k - 1 \in 1..Len(ts)
               /\ between[k] = ts[from + k - 1]
               /\ between[k].type = "closing" => between[k] \in S
    <2>1. /\ k \in 1..(Len(ts) - 1 - from + 1)
          /\ from + k - 1 \in from..Len(ts) - 1 /\ from + k - 1 \in 1..Len(ts)
      BY <1>2, <1>3
    <2> QED  BY <1>3, <2>1
  <1>5. DOMAIN between = 1..Len(between) /\ Len(between) \in Nat
    BY <1>3, SeqIs
  <1> HIDE DEF S, between
  <1>6. /\ parts \in Seq(Seq(S)) /\ Len(parts) = Len(between)
        /\ \A k \in 1..Len(between) :
              parts[k] = IF between[k].type = "closing" THEN <<between[k]>> ELSE <<>>
    <2>1. parts \in [1..Len(between) -> Seq(S)]
      BY <1>4, <1>5
    <2> QED  BY <1>5, <2>1, FunctionIsSeq
  <1> HIDE DEF parts
  <1>7. FlattenSeq(parts) \in Seq(S)
    BY <1>6, FlattenType
  <1>8. \A x \in S : IsTag(x) /\ x.type = "closing" /\ x \in {ts[j] : j \in 1..Len(ts)}
    BY DEF AreTags, S
  <1>9. AreTags(FlattenSeq(parts)) /\ \A k \in 1..Len(FlattenSeq(parts)) : FlattenSeq(parts)[k] \in S
    BY <1>7, <1>8 DEF AreTags, IsSeq
  <1>10. (\A k \in from..Len(ts) - 1 : ts[k].type = "opening") => FlattenSeq(parts) = <<>>
    <2>1. SUFFICES ASSUME \A k \in from..Len(ts) - 1 : ts[k].type = "opening"
                   PROVE  \A k \in 1..Len(parts) : parts[k] = <<>>
      BY <1>6, FlattenEmpties
    <2> QED  BY <1>4, <1>6, <2>1
  <1>11. (\A k \in from..Len(ts) - 1 : ts[k].type = "closing") => FlattenSeq(parts) = between
    <2>1. SUFFICES ASSUME \A k \in from..Len(ts) - 1 : ts[k].type = "closing"
                   PROVE  FlattenSeq(parts) = between
      OBVIOUS
    <2>2. \A k \in 1..Len(between) : between[k] \in S /\ parts[k] = <<between[k]>>
      BY <1>4, <1>6, <2>1
    <2>3. between \in Seq(S)
      BY <1>3, <2>2 DEF IsSeq
    <2> QED  BY <1>6, <2>2, <2>3, FlattenSingles DEF Singly
  <1> QED  BY <1>1, <1>8, <1>9, <1>10, <1>11 DEF between

-----------------------------------------------------------------------------
(* Parts of a stack of tags, and stacks put together.                      *)
LEMMA TagsPart ==
    ASSUME NEW ts, AreTags(ts), NEW n \in Nat, n <= Len(ts)
    PROVE  /\ AreTags(SubSeq(ts, 1, n)) /\ Len(SubSeq(ts, 1, n)) = n
           /\ \A k \in 1..n : SubSeq(ts, 1, n)[k] = ts[k]
  <1>1. Len(ts) \in Nat
    BY SeqIs DEF AreTags
  <1>2. /\ IsSeq(SubSeq(ts, 1, n)) /\ Len(SubSeq(ts, 1, n)) = IF 1 <= n THEN n - 1 + 1 ELSE 0
        /\ \A k \in 1..(n - 1 + 1) : SubSeq(ts, 1, n)[k] = ts[1 + k - 1]
    BY SeqPart DEF AreTags
  <1>3. Len(SubSeq(ts, 1, n)) = n /\ \A k \in 1..n : SubSeq(ts, 1, n)[k] = ts[k]
    BY <1>2
  <1>4. \A k \in 1..n : k \in 1..Len(ts)
    BY <1>1
  <1> QED  BY <1>2, <1>3, <1>4 DEF AreTags

(* A tag more.                                                             *)
LEMMA TagsAppend ==
    ASSUME NEW ts, AreTags(ts), NEW t, IsTag(t)
    PROVE  /\ AreTags(Append(ts, t)) /\ Len(Append(ts, t)) = Len(ts) + 1
           /\ \A k \in 1..Len(ts) : Append(ts, t)[k] = ts[k]
           /\ Append(ts, t)[Len(ts) + 1] = t /\ Len(ts) \in Nat
  <1>1. /\ IsSeq(Append(ts, t)) /\ Len(Append(ts, t)) = Len(ts) + 1
        /\ \A k \in 1..Len(ts) : Append(ts, t)[k] = ts[k]
        /\ Append(ts, t)[Len(ts) + 1] = t /\ Len(ts) \in Nat
    BY SeqAppend, SeqIs DEF AreTags
  <1>2. \A k \in 1..(Len(ts) + 1) : k \in 1..Len(ts) \/ k = Len(ts) + 1
    BY <1>1
  <1> QED  BY <1>1, <1>2 DEF AreTags

(* Two stacks, one on the other.                                           *)
LEMMA TagsConcat ==
    ASSUME NEW ts, AreTags(ts), NEW us, AreTags(us)
    PROVE  AreTags(ts \o us)
  <1>0. Len(ts) \in Nat /\ Len(us) \in Nat
    BY SeqIs DEF AreTags
  <1>1. /\ IsSeq(ts \o us) /\ Len(ts \o us) = Len(ts) + Len(us)
        /\ \A k \in 1..(Len(ts) + Len(us)) :
              (ts \o us)[k] = IF k <= Len(ts) THEN ts[k] ELSE us[k - Len(ts)]
    BY SeqConcat DEF AreTags
  <1>2. ASSUME NEW k \in 1..(Len(ts) + Len(us)) PROVE IsTag((ts \o us)[k])
    <2>1. IF k <= Len(ts) THEN k \in 1..Len(ts) ELSE k - Len(ts) \in 1..Len(us)
      BY <1>0
    <2> QED  BY <1>1, <2>1 DEF AreTags
  <1> QED  BY <1>1, <1>2 DEF AreTags

(* What replacing works on, and what it keeps.                             *)
IsResult(r) ==
    /\ r = [tags |-> r.tags, data |-> r.data, lost |-> r.lost]
    /\ AreTags(r.tags) /\ AreItems(r.data) /\ r.lost \in BOOLEAN

(* Replacing a tag that is not closed keeps types and source.              *)
LEMMA VoidKeeps ==
    ASSUME NEW r, IsResult(r)
    PROVE  IsResult(P!VoidReplaced(r)) /\ P!Source(P!VoidReplaced(r).data) = P!Source(r.data)
  <1> DEFINE ts == r.tags
             d == r.data
  <1>0. AreTags(ts) /\ AreItems(d) /\ Len(ts) \in Nat
    BY SeqIs DEF IsResult, AreTags
  <1>1. CASE ts = <<>> \/ P!Last(ts).name \notin P!Void
    BY <1>1 DEF P!VoidReplaced
  <1>2. CASE /\ ~(ts = <<>> \/ P!Last(ts).name \notin P!Void)
             /\ ~P!InPlace(d, P!Last(ts))
    <2>1. P!VoidReplaced(r) = [r EXCEPT !.lost = TRUE]
      BY <1>2 DEF P!VoidReplaced
    <2> QED  BY <2>1 DEF IsResult
  <1>3. CASE /\ ~(ts = <<>> \/ P!Last(ts).name \notin P!Void)
             /\ P!InPlace(d, P!Last(ts))
    <2>1. P!VoidReplaced(r) = [r EXCEPT !.data = P!Replaced(d, P!Last(ts)), !.tags = P!Front(ts)]
      BY <1>3 DEF P!VoidReplaced
    <2>2. Len(ts) \in 1..Len(ts) /\ Len(ts) - 1 \in Nat /\ Len(ts) - 1 <= Len(ts)
      <3>1. Len(ts) # 0
        BY <1>0, <1>3, SeqIs, EmptySeq DEF AreTags
      <3> QED  BY <1>0, <3>1
    <2>3. IsTag(P!Last(ts))
      BY <1>0, <2>2 DEF AreTags, P!Last
    <2>4. AreItems(P!Replaced(d, P!Last(ts))) /\ P!Source(P!Replaced(d, P!Last(ts))) = P!Source(d)
      BY <1>0, <1>3, <2>3, ReplacedIs
    <2>5. AreTags(P!Front(ts))
      BY <1>0, <2>2, TagsPart DEF P!Front
    <2> QED  BY <2>1, <2>4, <2>5 DEF IsResult
  <1> QED  BY <1>1, <1>2, <1>3

(* So does replacing a pair.                                               *)
LEMMA PairKeeps ==
    ASSUME NEW r, IsResult(r)
    PROVE  IsResult(P!PairReplaced(r)) /\ P!Source(P!PairReplaced(r).data) = P!Source(r.data)
  <1> DEFINE ts == r.tags
             n == Len(ts)
             k == P!OpenerOf(ts)
             d == P!Replaced(r.data, ts[n])
  <1>0. AreTags(ts) /\ AreItems(r.data) /\ n \in Nat
    BY SeqIs DEF IsResult, AreTags
  <1>1. CASE r.lost \/ ts = <<>> \/ ts[n].type = "opening"
    <2>1. P!PairReplaced(r) = r
      BY <1>1 DEF P!PairReplaced, P!Last
    <2> QED  BY <2>1
  <1>2. CASE ~(r.lost \/ ts = <<>> \/ ts[n].type = "opening")
    <2>1. n \in 1..n /\ 1 \in 1..n /\ n - 1 \in Nat /\ n - 1 <= n
      <3>1. n # 0
        BY <1>0, <1>2, SeqIs, EmptySeq DEF AreTags
      <3> QED  BY <1>0, <3>1
    <2>2. IsTag(ts[n])
      BY <1>0, <2>1 DEF AreTags
    <2>3. CASE k = 0
      <3>1. P!PairReplaced(r) = [r EXCEPT !.tags = Append(P!LeaveClosings(ts, 1), ts[n])]
        BY <1>2, <2>3 DEF P!PairReplaced, P!Last
      <3>2. AreTags(P!LeaveClosings(ts, 1))
        BY <1>0, <2>1, LeaveIs
      <3>3. AreTags(Append(P!LeaveClosings(ts, 1), ts[n]))
        BY <2>2, <3>2, TagsAppend
      <3> QED  BY <3>1, <3>3 DEF IsResult
    <2>4. CASE k # 0 /\ (~P!InPlace(r.data, ts[n]) \/ ~P!InPlace(d, ts[k]))
      <3>1. P!PairReplaced(r) = [r EXCEPT !.lost = TRUE]
        BY <1>2, <2>4 DEF P!PairReplaced, P!Last
      <3> QED  BY <3>1 DEF IsResult
    <2>5. CASE k # 0 /\ P!InPlace(r.data, ts[n]) /\ P!InPlace(d, ts[k])
      <3>1. P!PairReplaced(r) = [r EXCEPT !.tags = SubSeq(ts, 1, k - 1) \o P!LeaveClosings(ts, k + 1),
                                          !.data = P!Replaced(d, ts[k])]
        BY <1>2, <2>5 DEF P!PairReplaced, P!Last
      <3>2. k \in 1..(n - 1)
        BY <1>0, <1>2, <2>5, OpenerIs
      <3>3. k \in 1..n /\ k + 1 \in 1..n /\ k - 1 \in Nat /\ k - 1 <= n
        BY <1>0, <3>2
      <3>4. IsTag(ts[k])
        BY <1>0, <3>3 DEF AreTags
      <3>5. AreItems(d) /\ P!Source(d) = P!Source(r.data)
        BY <1>0, <2>2, <2>5, ReplacedIs
      <3>6. AreItems(P!Replaced(d, ts[k])) /\ P!Source(P!Replaced(d, ts[k])) = P!Source(d)
        BY <2>5, <3>4, <3>5, ReplacedIs
      <3>7. AreTags(SubSeq(ts, 1, k - 1)) /\ AreTags(P!LeaveClosings(ts, k + 1))
        BY <1>0, <3>3, TagsPart, LeaveIs
      <3>8. AreTags(SubSeq(ts, 1, k - 1) \o P!LeaveClosings(ts, k + 1))
        BY <3>7, TagsConcat
      <3> QED  BY <3>1, <3>5, <3>6, <3>8 DEF IsResult
    <2> QED  BY <2>3, <2>4, <2>5
  <1> QED  BY <1>1, <1>2

(* So do all replacements.                                                 *)
LEMMA ReplacementsKeep ==
    ASSUME NEW ts, AreTags(ts), NEW d, AreItems(d)
    PROVE  /\ AreTags(P!Replacements(ts, d).tags) /\ AreItems(P!Replacements(ts, d).data)
           /\ P!Replacements(ts, d).lost \in BOOLEAN
           /\ P!Source(P!Replacements(ts, d).data) = P!Source(d)
  <1> DEFINE r == [tags |-> ts, data |-> d, lost |-> FALSE]
  <1>1. IsResult(r) /\ r.data = d
    BY DEF IsResult
  <1>2. P!Replacements(ts, d) = P!PairReplaced(P!VoidReplaced(r))
    BY DEF P!Replacements
  <1> HIDE DEF r
  <1>3. /\ IsResult(P!PairReplaced(P!VoidReplaced(r)))
        /\ P!Source(P!PairReplaced(P!VoidReplaced(r)).data) = P!Source(r.data)
    BY <1>1, VoidKeeps, PairKeeps
  <1> QED  BY <1>1, <1>2, <1>3 DEF IsResult

-----------------------------------------------------------------------------
(* The lexer has returned lexemes the parser knows.                        *)
LexInv == IsSeq(lexemes) /\ \A k \in 1..Len(lexemes) : lexemes[k].kind \in P!Lexemes

(* What the parser is handed: as many lexemes as were returned.            *)
LEMMA HandedIs ==
    ASSUME LexInv
    PROVE  /\ Handed \in Seq(P!Lexemes) /\ Len(Handed) = Len(lexemes)
           /\ \A k \in 1..Len(lexemes) :
                 Handed[k] = IF lexemes[k].kind = "WORD" /\ Contains(lexemes[k].str, "w")
                             THEN "LONG" ELSE lexemes[k].kind
  <1>1. Len(lexemes) \in Nat /\ DOMAIN lexemes = 1..Len(lexemes)
    BY SeqIs DEF LexInv
  <1>2. "LONG" \in P!Lexemes
    BY DEF P!Lexemes
  <1>3. Handed \in [1..Len(lexemes) -> P!Lexemes]
    BY <1>1, <1>2 DEF LexInv, Handed
  <1>4. Handed \in Seq(P!Lexemes) /\ Len(Handed) = Len(lexemes)
    BY <1>1, <1>3, FunctionIsSeq
  <1> QED  BY <1>1, <1>4 DEF Handed

(* A word, or the tag it names, is one of them.                            *)
LEMMA WordKindIs ==
    ASSUME NEW str PROVE L!WordKind(str) \in P!Lexemes
  <1>1. "WORD" \in P!Lexemes
    BY DEF P!Lexemes
  <1>2. \A c \in DOMAIN TagOf : TagOf[c] \in P!Lexemes
    BY PostAssumption DEF P!Lexemes
  <1> QED  BY <1>1, <1>2 DEF L!WordKind

(* So is whatever the lexer finds.                                         *)
LEMMA KindIs ==
    ASSUME NEW s, L!Found(s), NEW str
    PROVE  L!Kind(s, str) \in P!Lexemes
  <1>1. CASE s = "WordEnd"
    BY <1>1, WordKindIs DEF L!Kind
  <1>2. CASE s = "SpacesEnd"
    BY <1>2 DEF L!Kind, P!Lexemes
  <1>3. CASE s \in L!Singles
    <2>1. s \in P!Lexemes
      BY <1>3 DEF L!Singles, P!Lexemes, P!Tags, P!Void
    <2>2. L!Kind(s, str) = s
      BY <1>3 DEF L!Kind, L!Singles
    <2> QED  BY <2>1, <2>2
  <1> QED  BY <1>1, <1>2, <1>3 DEF L!Found, L!PushesBack

(* The lexer only adds to its lexemes, one at a time.                      *)
LEMMA LexAdds ==
    ASSUME LexInv, L!Next
    PROVE  /\ LexInv'
           /\ Len(lexemes) <= Len(lexemes') /\ \A k \in 1..Len(lexemes) : lexemes'[k] = lexemes[k]
  <1>0. Len(lexemes) \in Nat
    BY SeqIs DEF LexInv
  <1>1. ASSUME UNCHANGED lexemes
        PROVE  /\ LexInv'
               /\ Len(lexemes) <= Len(lexemes') /\ \A k \in 1..Len(lexemes) : lexemes'[k] = lexemes[k]
    BY <1>0, <1>1 DEF LexInv
  <1>2. ASSUME NEW x, NEW str, x \in P!Lexemes, L!Return(x, str)
        PROVE  /\ LexInv'
               /\ Len(lexemes) <= Len(lexemes') /\ \A k \in 1..Len(lexemes) : lexemes'[k] = lexemes[k]
    <2> DEFINE e == [kind |-> x, str |-> str]
    <2>1. lexemes' = Append(lexemes, e) /\ e.kind = x
      BY <1>2 DEF L!Return
    <2> HIDE DEF e
    <2>2. /\ IsSeq(lexemes') /\ Len(lexemes') = Len(lexemes) + 1
          /\ \A k \in 1..Len(lexemes) : lexemes'[k] = lexemes[k]
          /\ lexemes'[Len(lexemes) + 1] = e
      BY <2>1, SeqAppend DEF LexInv
    <2>3. \A k \in 1..(Len(lexemes) + 1) : k \in 1..Len(lexemes) \/ k = Len(lexemes) + 1
      BY <1>0
    <2> QED  BY <1>0, <1>2, <2>1, <2>2, <2>3 DEF LexInv
  <1>3. CASE L!Refill
    BY <1>1, <1>3 DEF L!Refill
  <1>4. CASE L!AtEnd
    <2>1. "WORD" \in P!Lexemes
      BY DEF P!Lexemes
    <2> QED  BY <1>1, <1>2, <1>4, <2>1 DEF L!AtEnd
  <1>5. CASE L!Step
    <2> DEFINE s == L!Lexer(mode, L!Current)
               str == Append(strbuf, L!Current)
               own == IF L!PushesBack(s) THEN L!Front(str) ELSE str
    <2>1. IF L!Found(s) THEN L!Return(L!Kind(s, own), own) ELSE UNCHANGED lexemes
      BY <1>5 DEF L!Step
    <2> HIDE DEF s, own
    <2>2. CASE L!Found(s)
      BY <1>2, <2>1, <2>2, KindIs
    <2>3. CASE ~L!Found(s)
      BY <1>1, <2>1, <2>3
    <2> QED  BY <2>2, <2>3
  <1>6. L!Refill \/ L!AtEnd \/ L!Step
    BY DEF L!Next
  <1> QED  BY <1>3, <1>4, <1>5, <1>6

-----------------------------------------------------------------------------
(* The text with a lexeme more.                                            *)
LEMMA WithLexeme ==
    ASSUME AreItems(data), NEW l \in P!Lexemes, NEW d, d = Append(data, P!Lexeme(l))
    PROVE  /\ AreItems(d) /\ P!Source(d) = P!Source(data) \o <<l>>
           /\ Len(data) \in Nat /\ Len(d) = Len(data) + 1
           /\ \A k \in 1..Len(data) : d[k] = data[k]
           /\ d[Len(data) + 1] = P!Lexeme(l)
  <1>1. IsItem(P!Lexeme(l)) /\ P!Lexeme(l).src = <<l>>
    BY DEF IsItem, P!Lexeme
  <1>2. /\ IsSeq(d) /\ Len(d) = Len(data) + 1
        /\ \A k \in 1..Len(data) : d[k] = data[k]
        /\ d[Len(data) + 1] = P!Lexeme(l) /\ Len(data) \in Nat
    BY SeqAppend, SeqIs DEF AreItems
  <1>3. d = data \o <<P!Lexeme(l)>>
    <2>1. data \in Seq({data[k] : k \in 1..Len(data)} \cup {P!Lexeme(l)})
      <3>1. data \in Seq({data[k] : k \in 1..Len(data)})
        BY SeqIs DEF AreItems
      <3> QED  BY <3>1, SeqMonotonic
    <2> QED  BY <2>1, AppendIsConcat
  <1>4. /\ AreItems(<<P!Lexeme(l)>>) /\ P!Source(<<P!Lexeme(l)>>) = <<l>>
    BY <1>1, ItemOne
  <1>5. AreItems(d) /\ P!Source(d) = P!Source(data) \o <<l>>
    BY <1>3, <1>4, SourceConcat
  <1> QED  BY <1>2, <1>5

(* No tag is a tag.                                                        *)
LEMMA ClearedTyped == IsTag(P!Cleared)
  BY DEF IsTag, P!Cleared

(* The tag being read stays one, and so does the one recorded.             *)
LEMMA TmpTyped ==
    ASSUME at \in Nat, NEW t, IsTag(t), NEW l, NEW d, Len(d) \in Nat \ {0}, NEW s
    PROVE  /\ IsTag(P!Noted(t, l, d)) /\ IsTag(P!Recorded(t, s, d))
           /\ \A k : IsTag(P!Collected(t, k, l))
  <1>1. IsTag(P!Noted(t, l, d))
    <2>1. at + 1 \in Nat /\ Len(d) - 1 \in Nat
      OBVIOUS
    <2>2. /\ \A f, n \in Nat : IsTag([t EXCEPT !.from = f, !.left = n])
          /\ \A n \in Nat : IsTag([t EXCEPT !.right = n])
          /\ IsTag([t EXCEPT !.type = "closing"])
      BY DEF IsTag
    <2> QED  BY <2>1, <2>2 DEF P!Noted
  <1>2. IsTag(P!Recorded(t, s, d))
    <2>1. \A ty \in {"opening", "closing"} : \A a :
             IsTag([t EXCEPT !.name = s[2], !.right = Len(d), !.type = ty, !.attr = a])
      BY DEF IsTag
    <2>2. (CASE s = <<"set", "URL">>   -> "opening"
             [] s = <<"ended", "IMG">> -> "closing"
             [] OTHER -> t.type) \in {"opening", "closing"}
      BY DEF IsTag
    <2> QED  BY <2>1, <2>2 DEF P!Recorded
  <1>3. \A k : IsTag(P!Collected(t, k, l))
    <2>1. \A a : IsTag([t EXCEPT !.attr = a])
      BY DEF IsTag
    <2> QED  BY <2>1 DEF P!Collected
  <1> QED  BY <1>1, <1>2, <1>3

(* A value for the last tag changes no other, and nothing but its value.   *)
LEMMA BackTyped ==
    ASSUME NEW ts, AreTags(ts), NEW x, NEW l
    PROVE  /\ AreTags(P!AddToBack(ts, x, l)) /\ Len(P!AddToBack(ts, x, l)) = Len(ts)
           /\ (\A k \in 1..Len(ts) : ts[k].name # x) => P!AddToBack(ts, x, l) = ts
  <1>0. Len(ts) \in Nat /\ (ts = <<>> <=> Len(ts) = 0)
    BY SeqIs, EmptySeq DEF AreTags
  <1>1. CASE ts # <<>> /\ ts[Len(ts)].name = x
    <2> DEFINE n == Len(ts)
               e == [ts[n] EXCEPT !.attr = P!Add(@, x, l)]
               us == [ts EXCEPT ![n] = e]
    <2>1. P!AddToBack(ts, x, l) = us
      BY <1>1 DEF P!AddToBack, P!Last
    <2>2. n \in 1..n
      BY <1>0, <1>1
    <2>3. IsTag(e)
      BY <2>2 DEF IsTag, AreTags
    <2> HIDE DEF e
    <2>4. /\ ts \in Seq({ts[k] : k \in 1..n} \cup {e})
      <3>1. ts \in Seq({ts[k] : k \in 1..n})
        BY SeqIs DEF AreTags
      <3> QED  BY <3>1, SeqMonotonic
    <2>5. /\ us \in Seq({ts[k] : k \in 1..n} \cup {e}) /\ Len(us) = n
          /\ \A k \in 1..n : us[k] = IF k = n THEN e ELSE ts[k]
      BY <2>2, <2>4
    <2>6. AreTags(us)
      BY <2>3, <2>5 DEF AreTags, IsSeq
    <2> QED  BY <1>1, <2>1, <2>2, <2>5, <2>6
  <1>2. CASE ~(ts # <<>> /\ ts[Len(ts)].name = x)
    BY <1>2 DEF P!AddToBack, P!Last
  <1> QED  BY <1>1, <1>2

(* Go makes the replacements or leaves everything.                         *)
LEMMA GoKeeps ==
    ASSUME NEW s, NEW ts, AreTags(ts), NEW d, AreItems(d), P!Go(s, ts, d)
    PROVE  /\ AreTags(tags') /\ AreItems(data') /\ lost' \in BOOLEAN
           /\ P!Source(data') = P!Source(d)
  <1>1. CASE P!Ends(s)
    <2>1. /\ tags' = P!Replacements(ts, d).tags /\ data' = P!Replacements(ts, d).data
          /\ lost' = P!Replacements(ts, d).lost
      BY <1>1 DEF P!Go
    <2> QED  BY <2>1, ReplacementsKeep
  <1>2. CASE ~P!Ends(s)
    <2>1. tags' = ts /\ data' = d /\ lost' = FALSE
      BY <1>2 DEF P!Go
    <2> QED  BY <2>1
  <1> QED  BY <1>1, <1>2

(* What the parser keeps is what it has read, in the types of its          *)
(* variables.                                                              *)
ParserInv ==
    /\ at \in Nat /\ at <= Len(lexemes) /\ lost \in BOOLEAN
    /\ AreItems(data) /\ AreTags(tags) /\ IsTag(tmp)
    /\ TagsReplacedOnly

(* A lexeme that fits keeps types and source.                              *)
LEMMA AcceptKeeps ==
    ASSUME at \in Nat, NEW s, NEW l, NEW t, IsTag(t), NEW d, AreItems(d), Len(d) \in Nat \ {0},
           AreTags(tags), P!Accept(s, l, t, d)
    PROVE  /\ AreTags(tags') /\ AreItems(data') /\ lost' \in BOOLEAN /\ IsTag(tmp')
           /\ P!Source(data') = P!Source(d)
  <1>0. /\ IsTag(P!Cleared) /\ IsTag(P!Recorded(t, s, d))
        /\ \A k : IsTag(P!Collected(t, k, l))
    BY TmpTyped, ClearedTyped
  <1>1. CASE s = P!Text
    <2>1. tmp' = P!Cleared /\ P!Go(s, tags, d)
      BY <1>1 DEF P!Accept, P!Text
    <2> QED  BY <1>0, <2>1, GoKeeps
  <1>2. CASE s # P!Text /\ s[1] = "value"
    <2>1. tmp' = P!Collected(t, s[2], l) /\ P!Go(s, tags, d)
      BY <1>2 DEF P!Accept
    <2> QED  BY <1>0, <2>1, GoKeeps
  <1>3. CASE s # P!Text /\ s[1] = "link"
    <2>1. /\ tmp' = IF s[2] = "EMAIL" THEN P!Collected(t, "EMAIL", l) ELSE t
          /\ P!Go(s, P!AddToBack(tags, s[2], l), d)
      BY <1>3 DEF P!Accept
    <2>2. AreTags(P!AddToBack(tags, s[2], l))
      BY BackTyped
    <2> QED  BY <1>0, <2>1, <2>2, GoKeeps
  <1>4. CASE s # P!Text /\ s[1] \in {"found", "set", "ended"}
    <2>1. tmp' = P!Cleared /\ P!Go(s, Append(tags, P!Recorded(t, s, d)), d)
      BY <1>4 DEF P!Accept
    <2>2. AreTags(Append(tags, P!Recorded(t, s, d)))
      BY <1>0, TagsAppend
    <2> QED  BY <1>0, <2>1, <2>2, GoKeeps
  <1>5. CASE s # P!Text /\ s[1] \notin {"value", "link", "found", "set", "ended"}
    <2>1. tmp' = t /\ P!Go(s, tags, d)
      BY <1>5 DEF P!Accept
    <2> QED  BY <2>1, GoKeeps
  <1> QED  BY <1>1, <1>2, <1>3, <1>4, <1>5

(* So does one that does not.                                              *)
LEMMA RecoverKeeps ==
    ASSUME at \in Nat, NEW l, NEW d, AreItems(d), Len(d) \in Nat \ {0},
           AreTags(tags), lost \in BOOLEAN, P!Recover(l, d)
    PROVE  /\ AreTags(tags') /\ AreItems(data') /\ lost' \in BOOLEAN /\ IsTag(tmp')
           /\ P!Source(data') = P!Source(d)
  <1>1. IsTag(P!Cleared)
    BY ClearedTyped
  <1>2. IsTag(P!Noted(P!Cleared, l, d))
    BY <1>1, TmpTyped
  <1> QED  BY <1>1, <1>2 DEF P!Recover

(* Every lexeme that was parsed is in the text.                            *)
LEMMA AllRead ==
    ASSUME LexInv, ParserInv
    PROVE  Len(P!Source(data)) = at
  <1>1. Handed \in Seq(P!Lexemes) /\ Len(Handed) = Len(lexemes)
    BY HandedIs
  <1>2. at \in Nat /\ at <= Len(Handed) /\ P!Source(data) = SubSeq(Handed, 1, at)
    BY <1>1 DEF ParserInv, TagsReplacedOnly, P!TagsReplacedOnly
  <1>3. Len(SubSeq(Handed, 1, at)) = IF 1 <= at THEN at - 1 + 1 ELSE 0
    <2>1. IsSeq(Handed)
      BY <1>1 DEF IsSeq
    <2> QED  BY <1>2, <2>1, SeqPart
  <1> QED  BY <1>2, <1>3

(* A step of the parser keeps them.                                        *)
LEMMA ParseKeeps ==
    ASSUME LexInv, ParserInv, P!Parse, UNCHANGED lexemes
    PROVE  ParserInv'
  <1> DEFINE l == Handed[at + 1]
             d == Append(data, P!Lexeme(l))
             s == P!Parser(state, P!Kind(l))
  <1>1. /\ at \in Nat /\ at < Len(Handed) /\ at' = at + 1
        /\ IF s = P!Error THEN P!Recover(l, d) ELSE P!Accept(s, l, P!Noted(tmp, l, d), d)
    BY DEF P!Parse, ParserInv
  <1>2. Handed \in Seq(P!Lexemes) /\ Len(Handed) = Len(lexemes) /\ Handed' = Handed
    BY HandedIs DEF Handed
  <1>3. at + 1 \in 1..Len(Handed) /\ l \in P!Lexemes
    BY <1>1, <1>2
  <1> HIDE DEF l, d, s
  <1>4. AreItems(d) /\ P!Source(d) = P!Source(data) \o <<l>> /\ Len(d) \in Nat \ {0}
    <2>1. AreItems(data)
      BY DEF ParserInv
    <2>2. /\ AreItems(d) /\ P!Source(d) = P!Source(data) \o <<l>>
          /\ Len(data) \in Nat /\ Len(d) = Len(data) + 1
      BY <1>3, <2>1, WithLexeme DEF d
    <2> QED  BY <2>2
  <1>5. IsTag(P!Noted(tmp, l, d))
    BY <1>4, TmpTyped DEF ParserInv
  <1>6. /\ AreTags(tags') /\ AreItems(data') /\ lost' \in BOOLEAN /\ IsTag(tmp')
        /\ P!Source(data') = P!Source(d)
    BY <1>1, <1>4, <1>5, AcceptKeeps, RecoverKeeps DEF ParserInv
  <1>7. P!Source(data) \o <<l>> = SubSeq(Handed, 1, at + 1)
    <2>1. P!Source(data) = SubSeq(Handed, 1, at)
      BY DEF ParserInv, TagsReplacedOnly, P!TagsReplacedOnly
    <2>2. SubSeq(Handed, 1, at + 1) = SubSeq(Handed, 1, at) \o <<Handed[at + 1]>>
      BY <1>1, <1>2, OneMore
    <2> QED  BY <2>1, <2>2 DEF l
  <1>8. TagsReplacedOnly'
    BY <1>1, <1>2, <1>4, <1>6, <1>7 DEF TagsReplacedOnly, P!TagsReplacedOnly, P!Source
  <1>9. at' \in Nat /\ at' <= Len(lexemes')
    BY <1>1, <1>2, <1>3
  <1> QED  BY <1>6, <1>8, <1>9 DEF ParserInv

(* So does one of the lexer, which only adds to what is handed.            *)
LEMMA LexKeeps ==
    ASSUME LexInv, ParserInv, L!Next, UNCHANGED parser
    PROVE  ParserInv'
  <1>1. /\ LexInv' /\ Len(lexemes) <= Len(lexemes')
        /\ \A k \in 1..Len(lexemes) : lexemes'[k] = lexemes[k]
    BY LexAdds
  <1>2. /\ Handed \in Seq(P!Lexemes) /\ Len(Handed) = Len(lexemes)
        /\ \A k \in 1..Len(lexemes) :
              Handed[k] = IF lexemes[k].kind = "WORD" /\ Contains(lexemes[k].str, "w")
                          THEN "LONG" ELSE lexemes[k].kind
    BY HandedIs
  <1>3. /\ Handed' \in Seq(P!Lexemes) /\ Len(Handed') = Len(lexemes')
        /\ \A k \in 1..Len(lexemes') :
              Handed'[k] = IF lexemes'[k].kind = "WORD" /\ Contains(lexemes'[k].str, "w")
                          THEN "LONG" ELSE lexemes'[k].kind
    <2>1. DOMAIN lexemes' = 1..Len(lexemes') /\ Len(lexemes') \in Nat
      BY <1>1, SeqIs DEF LexInv
    <2>2. "LONG" \in P!Lexemes
      BY DEF P!Lexemes
    <2>3. Handed' \in [1..Len(lexemes') -> P!Lexemes]
      BY <1>1, <2>1, <2>2 DEF LexInv, Handed
    <2>4. Handed' \in Seq(P!Lexemes) /\ Len(Handed') = Len(lexemes')
      BY <2>1, <2>3, FunctionIsSeq
    <2> QED  BY <2>1, <2>4 DEF Handed
  <1>4. at \in Nat /\ at <= Len(lexemes) /\ Len(lexemes) \in Nat /\ Len(lexemes') \in Nat
    BY <1>1, SeqIs DEF LexInv, ParserInv
  <1>5. \A k \in 1..at : Handed'[k] = Handed[k]
    <2>1. \A k \in 1..at : k \in 1..Len(lexemes) /\ k \in 1..Len(lexemes')
      BY <1>1, <1>4
    <2> QED  BY <1>1, <1>2, <1>3, <2>1
  <1>6. SubSeq(Handed', 1, at) = SubSeq(Handed, 1, at)
    <2>1. /\ SubSeq(Handed, 1, at) \in Seq(P!Lexemes) /\ Len(SubSeq(Handed, 1, at)) = at
          /\ \A k \in 1..at : SubSeq(Handed, 1, at)[k] = Handed[k]
      BY <1>2, <1>4
    <2>2. /\ SubSeq(Handed', 1, at) \in Seq(P!Lexemes) /\ Len(SubSeq(Handed', 1, at)) = at
          /\ \A k \in 1..at : SubSeq(Handed', 1, at)[k] = Handed'[k]
      BY <1>1, <1>3, <1>4
    <2> QED  BY <1>5, <2>1, <2>2, SeqEqual
  <1>7. TagsReplacedOnly'
    BY <1>6 DEF TagsReplacedOnly, P!TagsReplacedOnly, P!Source, ParserInv, parser
  <1> QED  BY <1>1, <1>4, <1>7 DEF ParserInv, parser

(* At the beginning nothing has been read.                                 *)
LEMMA InvInit ==
    ASSUME Init PROVE LexInv /\ ParserInv
  <1>1. LexInv
    BY DEF Init, L!Init, LexInv, IsSeq
  <1>2. /\ data = <<>> /\ tags = <<>> /\ at = 0 /\ lost = FALSE /\ tmp = P!Cleared
        /\ lexemes = <<>>
    BY DEF Init, L!Init, P!Init
  <1>3. AreItems(data) /\ AreTags(tags)
    <2>1. \A S : <<>> \in Seq(S) /\ Len(<<>>) = 0
      OBVIOUS
    <2> QED  BY <1>2, <2>1 DEF AreItems, AreTags, IsSeq
  <1>4. IsTag(tmp)
    BY <1>2 DEF IsTag, P!Cleared
  <1>5. TagsReplacedOnly
    <2>1. P!Source(data) = <<>>
      <3>1. Sources(data) = <<>> /\ Len(Sources(data)) = 0
        BY <1>2 DEF Sources
      <3> QED  BY <3>1, SourceIs, FlattenEmpty
    <2>2. SubSeq(Handed, 1, at) = <<>>
      BY <1>2
    <2> QED  BY <2>1, <2>2 DEF TagsReplacedOnly, P!TagsReplacedOnly
  <1>6. at \in Nat /\ at <= Len(lexemes) /\ lost \in BOOLEAN
    <2>1. Len(<<>>) = 0 /\ 0 <= 0 /\ 0 \in Nat
      OBVIOUS
    <2> QED  BY <1>2, <2>1
  <1> QED  BY <1>1, <1>3, <1>4, <1>5, <1>6 DEF ParserInv

(* Every step keeps both invariants.                                       *)
LEMMA InvNext ==
    ASSUME LexInv, ParserInv, [Next]_vars
    PROVE  LexInv' /\ ParserInv'
  <1>1. CASE Lex
    BY <1>1, LexAdds, LexKeeps DEF Lex
  <1>2. CASE Parse
    <2>1. P!Parse /\ UNCHANGED lexemes
      BY <1>2 DEF Parse, lexer
    <2>2. LexInv'
      BY <2>1 DEF LexInv
    <2> QED  BY <2>1, <2>2, ParseKeeps
  <1>3. CASE UNCHANGED vars
    BY <1>3 DEF vars, lexer, parser, LexInv, ParserInv, TagsReplacedOnly, P!TagsReplacedOnly,
                Handed, P!Source
  <1>4. Lex \/ Parse \/ UNCHANGED vars
    BY DEF Next
  <1> QED  BY <1>1, <1>2, <1>3, <1>4

(* Replacing changes tags and nothing else: with the lexemes put back for  *)
(* the HTML, the text is what the parser has been handed, in order, for    *)
(* every post.                                                             *)
THEOREM TagsOnly == Spec => []TagsReplacedOnly
  <1>1. Init => LexInv /\ ParserInv
    BY InvInit
  <1>2. LexInv /\ ParserInv /\ [Next]_vars => (LexInv /\ ParserInv)'
    BY InvNext
  <1>3. LexInv /\ ParserInv => TagsReplacedOnly
    BY DEF ParserInv
  <1> QED  BY <1>1, <1>2, <1>3, PTL DEF Spec

-----------------------------------------------------------------------------
(* The text, how much of it has been dealt with, and the texts of the      *)
(* lexemes.                                                                *)
Post    == FlattenSeq(post.pieces)
Dealt   == position - inBuffer + i         \* the characters dealt with
Strings == [k \in DOMAIN lexemes |-> lexemes[k].str]

(* The types of the lexer and the order of its positions.                  *)
LexerTyped ==
    /\ Post \in Seq(L!Chars) /\ post.size \in Nat \ {0}
    /\ position \in Nat /\ position <= Len(Post)
    /\ inBuffer \in Nat /\ inBuffer <= position /\ i \in Nat /\ i <= inBuffer
    /\ mode \in {"Start", "InWord", "AfterCR", "InSpaces"} /\ ended \in BOOLEAN
    /\ ended => i = inBuffer
    /\ strbuf \in Seq(L!Chars)
    /\ \A k \in 1..Len(lexemes) : lexemes[k].str \in Seq(L!Chars)

(* What has been collected is not empty within a word or blanks, and       *)
(* begins with a blank or a line break outside a word.                     *)
Collecting ==
    /\ mode # "Start" => strbuf # <<>>
    /\ mode # "InWord" /\ strbuf # <<>> => strbuf[1] \in L!Breaks \cup {"sp"}

(* After a word comes something that is none.                              *)
EndsInWord == lexemes # <<>> /\ L!IsWord(lexemes[Len(lexemes)])
Apart ==
    EndsInWord => IF strbuf # <<>> THEN strbuf[1] \notin L!Letters
                  ELSE Dealt < Len(Post) => Post[Dealt + 1] \notin L!Letters

(* Nothing of the text is lost or read twice; no word is cut in two; what  *)
(* is dropped begins with a blank or a line break.                         *)
Kept == ~ended => FlattenSeq(Strings) \o strbuf = SubSeq(Post, 1, Dealt)
NoneCut == \A k \in 1..Len(lexemes) - 1 :
              L!IsWord(lexemes[k]) /\ L!IsWord(lexemes[k + 1]) =>
                  lexemes[k + 1].str[1] \notin L!Letters
TailDropped == ended /\ strbuf # <<>> => strbuf[1] \in L!Breaks \cup {"sp"}

LexerInv == LexInv /\ LexerTyped /\ Collecting /\ Apart /\ Kept /\ NoneCut /\ TailDropped

(* Together they are WordsWhole.                                           *)
LEMMA WordsWholeIs == LexerInv => WordsWhole
  BY DEF LexerInv, WordsWhole, Kept, NoneCut, TailDropped, L!TextKept, L!WordsWhole, L!DroppedTail,
         L!FlattenSeq, FlattenSeq, Strings, Post, Dealt

(* A single character or blanks are no word.                               *)
LEMMA NotAWord ==
    ASSUME NEW lx, lx.kind \in L!Singles \cup {"SP"}
    PROVE  ~L!IsWord(lx)
  <1>1. \A c \in DOMAIN TagOf : TagOf[c] \in P!Tags \ {"*"}
    BY PostAssumption
  <1>2. lx.kind # "WORD" /\ lx.kind \notin P!Tags \ {"*"}
    BY DEF L!Singles, P!Tags, P!Plain, P!Colours, P!Void, P!Valued, P!Words, P!Linked
  <1> QED  BY <1>1, <1>2 DEF L!IsWord

(* The texts of the lexemes are as many as the lexemes.                    *)
LEMMA StringsAre ==
    ASSUME LexInv, LexerTyped
    PROVE  /\ Strings \in Seq(Seq(L!Chars)) /\ Len(Strings) = Len(lexemes) /\ Len(lexemes) \in Nat
           /\ FlattenSeq(Strings) \in Seq(L!Chars)
  <1>1. Len(lexemes) \in Nat /\ DOMAIN lexemes = 1..Len(lexemes)
    BY SeqIs DEF LexInv
  <1>2. Strings \in [1..Len(lexemes) -> Seq(L!Chars)]
    BY <1>1 DEF LexerTyped, Strings
  <1>3. Strings \in Seq(Seq(L!Chars)) /\ Len(Strings) = Len(lexemes)
    BY <1>1, <1>2, FunctionIsSeq
  <1> QED  BY <1>1, <1>3, FlattenType

(* What a lexeme returned does to them.                                    *)
LEMMA ReturnKeeps ==
    ASSUME LexerInv, NEW x \in P!Lexemes, NEW own \in Seq(L!Chars), own # <<>>, L!Return(x, own),
           UNCHANGED post, ended' = FALSE,
           EndsInWord => own[1] \notin L!Letters,
           FlattenSeq(Strings) \o own = SubSeq(Post, 1, Dealt')
    PROVE  /\ LexInv' /\ Kept' /\ NoneCut' /\ TailDropped' /\ Collecting'
           /\ mode' = "Start" /\ strbuf' = <<>>
           /\ lexemes' # <<>> /\ lexemes'[Len(lexemes')].kind = x
           /\ \A k \in 1..Len(lexemes') : lexemes'[k].str \in Seq(L!Chars)
  <1> DEFINE e == [kind |-> x, str |-> own]
  <1>1. lexemes' = Append(lexemes, e) /\ e.kind = x /\ e.str = own /\ mode' = "Start" /\ strbuf' = <<>>
    BY DEF L!Return
  <1> HIDE DEF e
  <1>2. /\ IsSeq(lexemes') /\ Len(lexemes') = Len(lexemes) + 1
        /\ \A k \in 1..Len(lexemes) : lexemes'[k] = lexemes[k]
        /\ lexemes'[Len(lexemes) + 1] = e /\ Len(lexemes) \in Nat
    BY <1>1, SeqAppend, SeqIs DEF LexerInv, LexInv
  <1>3. \A k \in 1..(Len(lexemes) + 1) : k \in 1..Len(lexemes) \/ k = Len(lexemes) + 1
    BY <1>2
  <1>4. LexInv' /\ \A k \in 1..Len(lexemes') : lexemes'[k].str \in Seq(L!Chars)
    <2>1. /\ \A k \in 1..Len(lexemes) : lexemes[k].kind \in P!Lexemes
          /\ \A k \in 1..Len(lexemes) : lexemes[k].str \in Seq(L!Chars)
      BY DEF LexerInv, LexInv, LexerTyped
    <2> QED  BY <1>1, <1>2, <1>3, <2>1 DEF LexInv
  <1>5. lexemes' # <<>> /\ lexemes'[Len(lexemes')].kind = x
    <2>1. Len(lexemes') # 0
      BY <1>2
    <2> QED  BY <1>1, <1>2, <2>1
  <1>6. Kept'
    <2>1. /\ Strings \in Seq(Seq(L!Chars)) /\ Len(Strings) = Len(lexemes)
          /\ FlattenSeq(Strings) \in Seq(L!Chars)
      BY StringsAre DEF LexerInv
    <2>2. Strings' = Append(Strings, own)
      <3> DEFINE s == Strings'
                 t == Append(Strings, own)
      <3>1. DOMAIN lexemes' = 1..Len(lexemes')
        BY <1>2, SeqIs
      <3>2. s \in Seq(Seq(L!Chars)) /\ Len(s) = Len(lexemes) + 1
            /\ \A k \in 1..(Len(lexemes) + 1) : s[k] = lexemes'[k].str
        <4>1. Strings' \in [1..(Len(lexemes) + 1) -> Seq(L!Chars)]
          BY <1>2, <1>4, <3>1 DEF Strings
        <4>2. Strings' \in Seq(Seq(L!Chars)) /\ Len(Strings') = Len(lexemes) + 1
          <5>1. Len(lexemes) + 1 \in Nat
            BY <1>2
          <5> QED  BY <4>1, <5>1, FunctionIsSeq
        <4> QED  BY <1>2, <3>1, <4>2 DEF Strings
      <3>3. /\ t \in Seq(Seq(L!Chars)) /\ Len(t) = Len(lexemes) + 1
            /\ \A k \in 1..Len(lexemes) : t[k] = Strings[k]
            /\ t[Len(lexemes) + 1] = own
        BY <2>1, AppendProperties
      <3>4. \A k \in 1..Len(lexemes) : Strings[k] = lexemes[k].str
        BY SeqIs DEF LexerInv, LexInv, Strings
      <3> HIDE DEF s, t
      <3>5. \A k \in 1..(Len(lexemes) + 1) : s[k] = t[k]
        BY <1>1, <1>2, <1>3, <3>2, <3>3, <3>4
      <3>6. s = t
        BY <3>2, <3>3, <3>5, SeqEqual
      <3> QED  BY <3>6 DEF s, t
    <2>3. FlattenSeq(Strings') = FlattenSeq(Strings) \o own
      BY <2>1, <2>2, FlattenAppend
    <2>4. FlattenSeq(Strings) \o own \in Seq(L!Chars)
      BY <2>1, ConcatProperties
    <2>5. FlattenSeq(Strings') \o <<>> = SubSeq(Post, 1, Dealt')
      BY <2>3, <2>4, ConcatEmptySeq
    <2>6. Post' = Post
      BY DEF Post
    <2> QED  BY <1>1, <2>5, <2>6 DEF Kept
  <1>7. NoneCut'
    <2> SUFFICES ASSUME NEW k \in 1..Len(lexemes') - 1,
                        L!IsWord(lexemes'[k]), L!IsWord(lexemes'[k + 1])
                 PROVE  lexemes'[k + 1].str[1] \notin L!Letters
      BY DEF NoneCut
    <2>1. k \in 1..Len(lexemes) /\ lexemes'[k] = lexemes[k]
      BY <1>2
    <2>2. CASE k = Len(lexemes)
      <3>1. lexemes # <<>>
        BY <2>1
      <3>2. EndsInWord
        BY <2>1, <2>2, <3>1 DEF EndsInWord
      <3> QED  BY <1>1, <1>2, <2>2, <3>2
    <2>3. CASE k # Len(lexemes)
      <3>1. k \in 1..Len(lexemes) - 1 /\ k + 1 \in 1..Len(lexemes)
        BY <1>2, <2>1, <2>3
      <3>2. lexemes'[k + 1] = lexemes[k + 1]
        BY <1>2, <3>1
      <3> QED  BY <2>1, <3>1, <3>2 DEF LexerInv, NoneCut
    <2> QED  BY <2>2, <2>3
  <1>8. TailDropped' /\ Collecting'
    BY <1>1 DEF TailDropped, Collecting
  <1> QED  BY <1>1, <1>4, <1>5, <1>6, <1>7, <1>8

(* A post is a text.                                                       *)
LEMMA PostTyped ==
    ASSUME post \in Posts
    PROVE  Post \in Seq(L!Chars) /\ post.size \in Nat \ {0}
  <1>1. post.size \in Nat \ {0} /\ post.pieces \in Seq(Seq(L!Chars))
    BY PostAssumption
  <1> QED  BY <1>1, FlattenType DEF Post

(* Reading the next piece of the post into the buffer.                     *)
LEMMA RefillKeeps ==
    ASSUME LexerInv, L!Refill, UNCHANGED post
    PROVE  LexerInv'
  <1>1. /\ ~ended /\ i = inBuffer /\ position < Len(Post)
        /\ inBuffer' = IF post.size < Len(Post) - position THEN post.size ELSE Len(Post) - position
        /\ position' = position + inBuffer' /\ i' = 0
        /\ UNCHANGED <<mode, strbuf, lexemes, ended>>
    BY DEF L!Refill, Post
  <1>2. /\ position \in Nat /\ inBuffer \in Nat /\ i \in Nat /\ Len(Post) \in Nat
        /\ post.size \in Nat \ {0}
    BY DEF LexerInv, LexerTyped
  <1>3. Post' = Post /\ Strings' = Strings
    BY <1>1 DEF Post, Strings
  <1>4. inBuffer' \in Nat /\ position' \in Nat /\ position' <= Len(Post) /\ inBuffer' <= position'
    BY <1>1, <1>2
  <1>5. Dealt' = Dealt
    BY <1>1, <1>2, <1>4 DEF Dealt
  <1>6. LexerTyped'
    BY <1>1, <1>3, <1>4 DEF LexerInv, LexerTyped
  <1> QED  BY <1>1, <1>3, <1>5, <1>6
           DEF LexerInv, LexInv, Collecting, Apart, EndsInWord, Kept, NoneCut, TailDropped

(* The end of the post: a word that is left is returned.                   *)
LEMMA AtEndKeeps ==
    ASSUME LexerInv, L!AtEnd, UNCHANGED post
    PROVE  LexerInv'
  <1>1. /\ ~ended /\ i = inBuffer /\ position = Len(Post) /\ i' = 0 /\ inBuffer' = 0
        /\ position' = position
        /\ IF mode = "InWord" THEN L!Return("WORD", strbuf) /\ UNCHANGED ended
           ELSE ended' = TRUE /\ UNCHANGED <<mode, strbuf, lexemes>>
    BY DEF L!AtEnd, Post
  <1>2. position \in Nat /\ inBuffer \in Nat /\ Post \in Seq(L!Chars) /\ Len(Post) \in Nat
    BY DEF LexerInv, LexerTyped
  <1>3. Post' = Post
    BY DEF Post
  <1>4. Dealt' = Dealt /\ Dealt = Len(Post)
    BY <1>1, <1>2 DEF Dealt
  <1>5. CASE mode = "InWord"
    <2>1. /\ "WORD" \in P!Lexemes /\ strbuf \in Seq(L!Chars) /\ strbuf # <<>>
          /\ EndsInWord => strbuf[1] \notin L!Letters
          /\ FlattenSeq(Strings) \o strbuf = SubSeq(Post, 1, Dealt')
          /\ L!Return("WORD", strbuf) /\ ended' = FALSE
      BY <1>1, <1>4, <1>5 DEF LexerInv, LexerTyped, Collecting, Apart, Kept, P!Lexemes
    <2>2. /\ LexInv' /\ Kept' /\ NoneCut' /\ TailDropped' /\ Collecting'
          /\ mode' = "Start" /\ strbuf' = <<>>
          /\ \A k \in 1..Len(lexemes') : lexemes'[k].str \in Seq(L!Chars)
      BY <2>1, ReturnKeeps
    <2>3. Apart'
      BY <1>2, <1>3, <1>4, <2>2 DEF Apart
    <2>4. LexerTyped'
      BY <1>1, <1>2, <1>3, <2>1, <2>2 DEF LexerInv, LexerTyped
    <2> QED  BY <2>2, <2>3, <2>4 DEF LexerInv
  <1>6. CASE mode # "InWord"
    <2>1. ended' = TRUE /\ UNCHANGED <<mode, strbuf, lexemes>> /\ Strings' = Strings
      BY <1>1, <1>6 DEF Strings
    <2>2. LexerTyped'
      BY <1>1, <1>2, <1>3, <2>1 DEF LexerInv, LexerTyped
    <2>3. TailDropped' /\ Kept'
      BY <1>6, <2>1 DEF LexerInv, Collecting, TailDropped, Kept
    <2> QED  BY <1>3, <1>4, <2>1, <2>2, <2>3 DEF LexerInv, LexInv, Collecting, Apart, EndsInWord, NoneCut
  <1> QED  BY <1>5, <1>6

(* The table of the lexer.                                                 *)
LEMMA LexerTable ==
    ASSUME NEW m \in {"Start", "InWord", "AfterCR", "InSpaces"}, NEW c \in L!Chars,
           NEW s, s = L!Lexer(m, c)
    PROVE  /\ s = "WordEnd" => m = "InWord" /\ c \notin L!Letters
           /\ s = "SpacesEnd" => m = "InSpaces"
           /\ s \in L!Singles \/ s \in {"Start", "InWord", "AfterCR", "InSpaces", "WordEnd", "SpacesEnd"}
           /\ m = "InWord" => s \in {"InWord", "WordEnd"}
           /\ m = "Start" /\ s \in {"Start", "AfterCR", "InSpaces"} => c \in L!Breaks \cup {"sp"}
  <1>1. CASE m = "Start"
    <2>1. s = L!FromStart(c)
      BY <1>1 DEF L!Lexer
    <2>2. CASE c \in L!Letters
      <3>1. c \notin L!Breaks \cup {"sp"}
        BY <2>2, PostAssumption DEF L!Letters, L!Breaks
      <3>2. s = "InWord"
        BY <2>1, <2>2, <3>1 DEF L!FromStart, L!Breaks
      <3> QED  BY <1>1, <3>2
    <2>3. CASE c \notin L!Letters
      BY <1>1, <2>1, <2>3 DEF L!FromStart, L!Chars, L!Singles, L!Breaks
    <2> QED  BY <2>2, <2>3
  <1>2. CASE m = "InWord"
    BY <1>2 DEF L!Lexer, L!FromWord
  <1>3. CASE m = "AfterCR"
    <2>1. s = L!FromCR(c)
      BY <1>3 DEF L!Lexer
    <2>2. CASE c \in L!Letters
      <3>1. c \notin {":", "quote", "="}
        BY <2>2, PostAssumption DEF L!Letters, L!Singles
      <3>2. s = "InWord"
        BY <2>1, <2>2, <3>1 DEF L!FromCR
      <3> QED  BY <1>3, <3>2
    <2>3. CASE c \notin L!Letters
      BY <1>3, <2>1, <2>3 DEF L!FromCR, L!Singles
    <2> QED  BY <2>2, <2>3
  <1>4. CASE m = "InSpaces"
    <2>1. s = L!FromSpaces(c)
      BY <1>4 DEF L!Lexer
    <2> QED  BY <1>4, <2>1 DEF L!FromSpaces
  <1> QED  BY <1>1, <1>2, <1>3, <1>4

(* One character adds to what was collected, or returns it.                *)
LEMMA StepKeeps ==
    ASSUME LexerInv, L!Step, UNCHANGED post
    PROVE  LexerInv'
  <1> DEFINE c   == L!Current
             s   == L!Lexer(mode, c)
             str == Append(strbuf, c)
             own == IF L!PushesBack(s) THEN L!Front(str) ELSE str
  <1>1. /\ i < inBuffer /\ UNCHANGED <<position, inBuffer, ended>>
        /\ i' = IF L!PushesBack(s) THEN i ELSE i + 1
        /\ IF L!Found(s) THEN L!Return(L!Kind(s, own), own)
           ELSE mode' = s /\ strbuf' = str /\ UNCHANGED lexemes
    BY DEF L!Step
  <1>2. /\ position \in Nat /\ inBuffer \in Nat /\ i \in Nat /\ Len(Post) \in Nat
        /\ position <= Len(Post) /\ inBuffer <= position
        /\ Post \in Seq(L!Chars) /\ strbuf \in Seq(L!Chars)
        /\ mode \in {"Start", "InWord", "AfterCR", "InSpaces"}
    BY DEF LexerInv, LexerTyped
  <1>3. /\ Dealt \in Nat /\ Dealt < Len(Post) /\ ended = FALSE /\ ended' = FALSE
    BY <1>1, <1>2 DEF LexerInv, LexerTyped, Dealt
  <1>4. c = Post[Dealt + 1] /\ c \in L!Chars
    <2>1. c = Post[Dealt + 1]
      BY DEF L!Current, Post, Dealt, L!FlattenSeq, FlattenSeq
    <2> QED  BY <1>2, <1>3, <2>1
  <1>5. /\ Dealt' = IF L!PushesBack(s) THEN Dealt ELSE Dealt + 1
        /\ Post' = Post
    BY <1>1, <1>2 DEF Dealt, Post
  <1>6. /\ s = "WordEnd" => mode = "InWord" /\ c \notin L!Letters
        /\ s = "SpacesEnd" => mode = "InSpaces"
        /\ s \in L!Singles \/ s \in {"Start", "InWord", "AfterCR", "InSpaces", "WordEnd", "SpacesEnd"}
        /\ mode = "InWord" => s \in {"InWord", "WordEnd"}
        /\ mode = "Start" /\ s \in {"Start", "AfterCR", "InSpaces"} => c \in L!Breaks \cup {"sp"}
    <2> HIDE DEF c
    <2> QED  BY <1>2, <1>4, LexerTable
  <1>7. /\ str \in Seq(L!Chars) /\ str # <<>> /\ L!Front(str) = strbuf
        /\ str[1] = IF strbuf = <<>> THEN c ELSE strbuf[1]
    <2> HIDE DEF c
    <2>1. /\ str \in Seq(L!Chars) /\ Len(str) = Len(strbuf) + 1
          /\ \A k \in 1..Len(strbuf) : str[k] = strbuf[k]
          /\ str[Len(strbuf) + 1] = c
      BY <1>2, <1>4, AppendProperties
    <2>2. SubSeq(str, 1, Len(str) - 1) = strbuf
      <3> HIDE DEF str
      <3>1. Len(str) - 1 = Len(strbuf) /\ Len(strbuf) \in Nat
        BY <1>2, <2>1
      <3>2. /\ SubSeq(str, 1, Len(strbuf)) \in Seq(L!Chars)
            /\ Len(SubSeq(str, 1, Len(strbuf))) = Len(strbuf)
            /\ \A k \in 1..Len(strbuf) : SubSeq(str, 1, Len(strbuf))[k] = str[k]
        BY <2>1, <3>1
      <3>3. SubSeq(str, 1, Len(strbuf)) = strbuf
        BY <1>2, <2>1, <3>2, SeqEqual
      <3> QED  BY <3>1, <3>3
    <2>3. strbuf = <<>> <=> Len(strbuf) = 0
      BY <1>2
    <2> QED  BY <1>2, <2>1, <2>2, <2>3 DEF L!Front
  <1>8. FlattenSeq(Strings) \in Seq(L!Chars)
        /\ FlattenSeq(Strings) \o strbuf = SubSeq(Post, 1, Dealt)
    BY <1>3, StringsAre DEF LexerInv, Kept
  <1>9. FlattenSeq(Strings) \o str = SubSeq(Post, 1, Dealt + 1)
    <2> HIDE DEF c
    <2>1. SubSeq(Post, 1, Dealt + 1) = SubSeq(Post, 1, Dealt) \o <<c>>
      BY <1>2, <1>3, <1>4, OneMore
    <2>2. str = strbuf \o <<c>>
      BY <1>2, <1>4, AppendIsConcat
    <2>3. <<c>> \in Seq(L!Chars)
      BY <1>4
    <2>4. (FlattenSeq(Strings) \o strbuf) \o <<c>> = FlattenSeq(Strings) \o (strbuf \o <<c>>)
      <3> DEFINE f == FlattenSeq(Strings)
      <3>1. f \in Seq(L!Chars)
        BY <1>8
      <3> HIDE DEF f
      <3>2. (f \o strbuf) \o <<c>> = f \o (strbuf \o <<c>>)
        BY <1>2, <2>3, <3>1, ConcatAssociative
      <3> QED  BY <3>2 DEF f
    <2> QED  BY <1>8, <2>1, <2>2, <2>4
  <1>10. EndsInWord => str[1] \notin L!Letters
    BY <1>3, <1>4, <1>7 DEF LexerInv, Apart
  <1>11. CASE L!Found(s)
    <2>1. own \in Seq(L!Chars) /\ own # <<>> /\ FlattenSeq(Strings) \o own = SubSeq(Post, 1, Dealt')
          /\ (EndsInWord => own[1] \notin L!Letters)
      <3>1. CASE L!PushesBack(s)
        <4>1. strbuf # <<>>
          BY <1>6, <3>1 DEF LexerInv, Collecting, L!PushesBack
        <4>2. own = strbuf
          BY <1>7, <3>1
        <4> HIDE DEF own, str, s
        <4> QED  BY <1>2, <1>5, <1>7, <1>8, <1>10, <3>1, <4>1, <4>2
      <3>2. CASE ~L!PushesBack(s)
        <4>1. own = str
          BY <3>2
        <4> HIDE DEF own, str, s
        <4> QED  BY <1>5, <1>7, <1>9, <1>10, <3>2, <4>1
      <3> QED  BY <3>1, <3>2
    <2>2. L!Kind(s, own) \in P!Lexemes
      <3> HIDE DEF s, own
      <3> QED  BY <1>11, KindIs
    <2>3. L!Return(L!Kind(s, own), own)
      BY <1>1, <1>11
    <2>4. L!Kind(s, own) \in L!Singles \cup {"SP"} \/ s = "WordEnd"
      <3> HIDE DEF s, own
      <3> QED  BY <1>11 DEF L!Found, L!PushesBack, L!Kind, L!Singles
    <2> HIDE DEF own
    <2>5. /\ LexInv' /\ Kept' /\ NoneCut' /\ TailDropped' /\ Collecting'
          /\ mode' = "Start" /\ strbuf' = <<>>
          /\ lexemes' # <<>> /\ lexemes'[Len(lexemes')].kind = L!Kind(s, own)
          /\ \A k \in 1..Len(lexemes') : lexemes'[k].str \in Seq(L!Chars)
      <3> DEFINE x == L!Kind(s, own)
      <3>1. x \in P!Lexemes /\ L!Return(x, own)
        BY <2>2, <2>3
      <3> HIDE DEF x, s
      <3>2. /\ LexInv' /\ Kept' /\ NoneCut' /\ TailDropped' /\ Collecting'
            /\ mode' = "Start" /\ strbuf' = <<>>
            /\ lexemes' # <<>> /\ lexemes'[Len(lexemes')].kind = x
            /\ \A k \in 1..Len(lexemes') : lexemes'[k].str \in Seq(L!Chars)
        BY <1>3, <2>1, <3>1, ReturnKeeps
      <3> QED  BY <3>2 DEF x
    <2>6. Apart'
      <3>1. CASE s = "WordEnd"
        <4>1. Dealt' = Dealt
          BY <1>5, <3>1 DEF L!PushesBack
        <4>2. Post'[Dealt' + 1] \notin L!Letters
          BY <1>4, <1>5, <1>6, <3>1, <4>1
        <4> QED  BY <2>5, <4>2 DEF Apart
      <3>2. CASE L!Kind(s, own) \in L!Singles \cup {"SP"}
        <4>1. ~L!IsWord(lexemes'[Len(lexemes')])
          BY <2>5, <3>2, NotAWord
        <4> QED  BY <4>1 DEF Apart, EndsInWord
      <3> QED  BY <2>4, <3>1, <3>2
    <2>7. LexerTyped'
      <3>1. i' \in Nat /\ i' <= inBuffer
        BY <1>1, <1>2
      <3>2. <<>> \in Seq(L!Chars)
        OBVIOUS
      <3> QED  BY <1>1, <1>2, <1>3, <1>5, <2>5, <3>1, <3>2 DEF LexerInv, LexerTyped
    <2> QED  BY <2>5, <2>6, <2>7 DEF LexerInv
  <1>12. CASE ~L!Found(s)
    <2>1. mode' = s /\ strbuf' = str /\ UNCHANGED lexemes /\ ~L!PushesBack(s)
          /\ s \in {"Start", "InWord", "AfterCR", "InSpaces"}
      BY <1>1, <1>6, <1>12 DEF L!Found, L!PushesBack
    <2>2. Dealt' = Dealt + 1 /\ i' = i + 1 /\ Strings' = Strings
      BY <1>1, <1>5, <2>1 DEF Strings
    <2> HIDE DEF str
    <2>3. Collecting'
      <3>1. CASE strbuf = <<>>
        <4>1. mode = "Start"
          BY <3>1 DEF LexerInv, Collecting
        <4>2. s # "InWord" => c \in L!Breaks \cup {"sp"}
          BY <1>6, <2>1, <4>1
        <4> QED  BY <1>7, <2>1, <3>1, <4>2 DEF Collecting
      <3>2. CASE strbuf # <<>>
        <4>1. s # "InWord" => mode # "InWord"
          BY <1>6, <2>1
        <4>2. s # "InWord" => strbuf[1] \in L!Breaks \cup {"sp"}
          BY <3>2, <4>1 DEF LexerInv, Collecting
        <4> QED  BY <1>7, <2>1, <3>2, <4>2 DEF Collecting
      <3> QED  BY <3>1, <3>2
    <2>4. Apart'
      BY <1>7, <1>10, <2>1 DEF Apart, EndsInWord
    <2>5. Kept' /\ NoneCut' /\ TailDropped' /\ LexInv'
      BY <1>3, <1>5, <1>9, <2>1, <2>2 DEF LexerInv, Kept, NoneCut, TailDropped, LexInv
    <2>6. LexerTyped'
      <3>1. i' \in Nat /\ i' <= inBuffer
        BY <1>1, <1>2, <2>2
      <3> QED  BY <1>1, <1>2, <1>3, <1>5, <1>7, <2>1, <3>1 DEF LexerInv, LexerTyped
    <2> QED  BY <2>3, <2>4, <2>5, <2>6 DEF LexerInv
  <1> QED  BY <1>11, <1>12

(* At the beginning nothing has been returned.                             *)
LEMMA LexerInvInit ==
    ASSUME Init PROVE LexerInv /\ post \in Posts
  <1>1. /\ position = 0 /\ i = 0 /\ inBuffer = 0 /\ mode = "Start" /\ strbuf = <<>>
        /\ lexemes = <<>> /\ ended = FALSE /\ post \in Posts
    BY DEF Init, L!Init
  <1>2. Len(lexemes) = 0 /\ LexInv
    BY <1>1, InvInit
  <1>3. Post \in Seq(L!Chars) /\ post.size \in Nat \ {0} /\ Len(Post) \in Nat
    BY <1>1, PostTyped
  <1>4. LexerTyped
    <2>1. strbuf \in Seq(L!Chars)
      BY <1>1
    <2>2. \A k \in 1..Len(lexemes) : lexemes[k].str \in Seq(L!Chars)
      BY <1>2
    <2>3. mode \in {"Start", "InWord", "AfterCR", "InSpaces"} /\ ended \in BOOLEAN
      BY <1>1
    <2>4. /\ position \in Nat /\ position <= Len(Post)
          /\ inBuffer \in Nat /\ inBuffer <= position /\ i \in Nat /\ i <= inBuffer
          /\ (ended => i = inBuffer)
      BY <1>1, <1>3
    <2> QED  BY <1>3, <2>1, <2>2, <2>3, <2>4 DEF LexerTyped
  <1>5. Kept
    <2>1. Strings = <<>>
      BY <1>1 DEF Strings
    <2>2. SubSeq(Post, 1, Dealt) = <<>>
      BY <1>1, <1>3 DEF Dealt
    <2>3. FlattenSeq(<<>>) \o strbuf = <<>>
      <3>1. FlattenSeq(<<>>) = <<>> /\ strbuf = <<>>
        BY <1>1, FlattenEmpty
      <3> QED  BY <3>1
    <2> QED  BY <2>1, <2>2, <2>3 DEF Kept
  <1>6. Collecting /\ Apart /\ NoneCut /\ TailDropped
    BY <1>1, <1>2 DEF Collecting, Apart, EndsInWord, NoneCut, TailDropped
  <1> QED  BY <1>1, <1>2, <1>4, <1>5, <1>6 DEF LexerInv

(* Every step of the library keeps this.                                   *)
LEMMA LexerInvNext ==
    ASSUME LexerInv, [Next]_vars
    PROVE  LexerInv'
  <1>1. CASE Lex
    <2>1. L!Refill \/ L!AtEnd \/ L!Step
      BY <1>1 DEF Lex, L!Next
    <2>2. UNCHANGED post
      BY <1>1 DEF Lex
    <2> QED  BY <2>1, <2>2, RefillKeeps, AtEndKeeps, StepKeeps
  <1>2. ASSUME UNCHANGED <<post, lexer>> PROVE LexerInv'
    BY <1>2 DEF lexer, LexerInv, LexInv, LexerTyped, Collecting, Apart, EndsInWord, Kept, NoneCut,
                TailDropped, Strings, Post, Dealt
  <1>3. CASE Parse
    BY <1>2, <1>3 DEF Parse
  <1>4. CASE UNCHANGED vars
    BY <1>2, <1>4 DEF vars
  <1>5. Lex \/ Parse \/ UNCHANGED vars
    BY DEF Next
  <1> QED  BY <1>1, <1>3, <1>4, <1>5

(* However the buffer cuts a post into pieces, the lexer loses nothing of  *)
(* it, reads nothing twice and cuts no word in two.                        *)
THEOREM WordsStayWhole == Spec => []WordsWhole
  <1>1. Init => LexerInv
    BY LexerInvInit
  <1>2. LexerInv /\ [Next]_vars => LexerInv'
    BY LexerInvNext
  <1>3. LexerInv => WordsWhole
    BY WordsWholeIs
  <1> QED  BY <1>1, <1>2, <1>3, PTL DEF Spec

-----------------------------------------------------------------------------
(* A lexeme that is written [name] or [/name], or would be but for the two *)
(* rows of the table that take a blank for another name.                   *)
Same(w, n) == w = n \/ <<w, n>> \in P!Misread

(* Where the name of a tag is.                                             *)
NameAt(t) == t.left + (IF t.type = "closing" THEN 3 ELSE 2)

(* The tags whose text is no address.                                      *)
Unlinked == P!Tags \ P!Linked

(* A complete tag is where it was found, and the name in it is its name.   *)
Stands(d, t) ==
    /\ P!InPlace(d, t) /\ NameAt(t) <= t.right
    /\ d[t.left + 2].name = "/" <=> t.type = "closing"
    /\ Same(d[NameAt(t)].name, t.name)

(* The HTML put in so far is that of the tags written.                     *)
Faithful(d) ==
    \A k \in 1..Len(d) :
        d[k].kind # "text" =>
            /\ d[k].kind \in IF d[k].src[2] = "/" THEN {"close"} ELSE {"open", "void"}
            /\ Same(P!Written(d[k].src), d[k].name)

(* The opening tags kept are where they were found, one after the other;   *)
(* what closing tags are kept come before them.                            *)
Stack(ts, d) ==
    /\ \A k \in 1..Len(ts) :
          /\ ts[k].name \in Unlinked \ P!Void
          /\ ts[k].type = "opening" => Stands(d, ts[k])
    /\ \A j, k \in 1..Len(ts) : j < k =>
          /\ ts[j].type = "opening" => ts[k].type = "opening"
          /\ ts[j].type = "opening" => ts[j].right <= ts[k].left
(* The opening tags kept end by position n.                                *)
Before(ts, n) == \A k \in 1..Len(ts) : ts[k].type = "opening" => ts[k].right <= n

-----------------------------------------------------------------------------
(* What stands in a part of the text stands in another text with that part.*)
LEMMA LeftOf ==
    ASSUME NEW d, AreItems(d), NEW e, AreItems(e), NEW t, IsTag(t), NEW n \in Nat, n <= Len(e),
           \A k \in 1..n : e[k] = d[k],
           Stands(d, t), t.right <= n
    PROVE  Stands(e, t) /\ P!InPlace(e, t)
  <1>1. t.left \in Nat /\ t.right \in Nat /\ t.left < t.right /\ t.right <= Len(e)
        /\ t.left <= Len(d) /\ t.left <= Len(e)
    <2>1. Len(d) \in Nat /\ Len(e) \in Nat
      BY SeqIs DEF AreItems
    <2> QED  BY <2>1 DEF IsTag, Stands, P!InPlace
  <1>2. NameAt(t) \in Nat /\ NameAt(t) >= t.left + 2 /\ NameAt(t) <= t.right
    BY <1>1 DEF NameAt, Stands
  <1>3. \A k \in t.left + 1..t.right : k \in 1..n
    BY <1>1
  <1>4. \A k \in t.left + 1..t.right : e[k] = d[k]
    BY <1>3
  <1>5. t.left + 1 \in t.left + 1..t.right /\ t.left + 2 \in t.left + 1..t.right
        /\ NameAt(t) \in t.left + 1..t.right
    BY <1>1, <1>2
  <1>6. SubSeq(e, 1, t.left) = SubSeq(d, 1, t.left)
    <2>1. \A k \in 1..t.left : e[k] = d[k]
      BY <1>1
    <2> QED  BY <1>1, <2>1, SamePrefix DEF AreItems
  <1> QED  BY <1>1, <1>4, <1>5, <1>6 DEF Stands, P!InPlace

(* What is erased for a tag in place: a lexeme for each item, and those    *)
(* items.                                                                  *)
LEMMA ErasedIs ==
    ASSUME NEW d, AreItems(d), NEW t, IsTag(t), P!InPlace(d, t)
    PROVE  /\ P!Erased(d, t) \in Seq(P!Lexemes) /\ Len(P!Erased(d, t)) = t.right - t.left
           /\ \A k \in 1..(t.right - t.left) : P!Erased(d, t)[k] = d[t.left + k].name
  <1> DEFINE b == SubSeq(d, t.left + 1, t.right)
             names == [k \in 1..(t.right - t.left) |-> d[t.left + k].name]
  <1>1. t.left \in Nat /\ t.right \in Nat /\ t.left < t.right /\ t.right <= Len(d) /\ Len(d) \in Nat
    BY SeqIs DEF IsTag, P!InPlace, AreItems
  <1>2. /\ AreItems(b) /\ Len(b) = t.right - t.left
        /\ \A k \in 1..(t.right - t.left) : b[k] = d[t.left + k]
    <2>1. AreItems(b)
      BY <1>1, ItemsPart
    <2> DEFINE l == t.left
               r == t.right
    <2>2. l \in Nat /\ r \in Nat /\ l <= r /\ r <= Len(d) /\ IsSeq(d) /\ b = SubSeq(d, l + 1, r)
      BY <1>1 DEF AreItems
    <2> HIDE DEF b, l, r
    <2>3. Len(b) = r - l /\ \A k \in 1..(r - l) : b[k] = d[l + k]
      BY <2>2, PartBehind
    <2> QED  BY <2>1, <2>3 DEF l, r
  <1>3. ASSUME NEW k \in 1..(t.right - t.left)
        PROVE  /\ d[t.left + k].name \in P!Lexemes
               /\ d[t.left + k].src = <<d[t.left + k].name>>
    <2>1. t.left + k \in 1..Len(d)
      BY <1>1
    <2>2. d[t.left + k].kind = "text"
      <3>1. t.left + k \in t.left + 1..t.right
        BY <1>1
      <3> QED  BY <3>1 DEF P!InPlace
    <2>3. d[t.left + k].name \in P!Lexemes /\ d[t.left + k] = P!Lexeme(d[t.left + k].name)
      BY <2>1, <2>2 DEF AreItems, IsItem
    <2> QED  BY <2>3 DEF P!Lexeme
  <1>4. /\ names \in Seq(P!Lexemes) /\ Len(names) = t.right - t.left
        /\ \A k \in 1..(t.right - t.left) : names[k] = d[t.left + k].name
    <2>1. names \in [1..(t.right - t.left) -> P!Lexemes] /\ t.right - t.left \in Nat
      BY <1>1, <1>3
    <2> QED  BY <2>1, FunctionIsSeq
  <1> HIDE DEF b, names
  <1>5. /\ Sources(b) \in Seq(Seq(P!Lexemes)) /\ Len(Sources(b)) = Len(b)
        /\ \A k \in 1..Len(b) : Sources(b)[k] = b[k].src
    BY <1>2, SourcesAre
  <1>6. \A k \in 1..Len(b) : Sources(b)[k] = <<names[k]>>
    BY <1>2, <1>3, <1>4, <1>5
  <1>7. FlattenSeq(Sources(b)) = names
    BY <1>2, <1>4, <1>5, <1>6, FlattenSingles DEF Singly
  <1>8. P!Erased(d, t) = names
    BY <1>7, SourceIs DEF P!Erased, b
  <1> QED  BY <1>4, <1>8

(* The HTML of a tag that stands is that of the tag written.               *)
LEMMA ReplacedFaithfully ==
    ASSUME NEW d, AreItems(d), NEW t, IsTag(t), Stands(d, t), Faithful(d),
           t.type = "closing" => t.name \notin P!Void
    PROVE  Faithful(P!Replaced(d, t))
  <1> DEFINE r == P!Replaced(d, t)
             h == r[t.left + 1]
             s == P!Erased(d, t)
  <1>0. P!InPlace(d, t) /\ Len(d) \in Nat
    BY SeqIs DEF Stands, AreItems
  <1>1. /\ t.left \in Nat /\ t.right \in Nat /\ t.left < t.right /\ t.right <= Len(d)
        /\ Len(r) = t.left + 1 + (Len(d) - t.right)
        /\ \A k \in 1..t.left : r[k] = d[k]
        /\ P!Html(t, s) = <<h>>
        /\ \A k \in 1..(Len(d) - t.right) : r[t.left + 1 + k] = d[t.right + k]
    BY <1>0, ReplacedIs
  <1>2. /\ s \in Seq(P!Lexemes) /\ Len(s) = t.right - t.left
        /\ \A k \in 1..(t.right - t.left) : s[k] = d[t.left + k].name
    BY <1>0, ErasedIs
  <1> HIDE DEF r, s
  <1>3. /\ h.src = s /\ h.name = t.name
        /\ h.kind = IF t.name \in P!Void
                    THEN IF t.type = "closing" THEN "stray" ELSE "void"
                    ELSE IF t.type = "closing" THEN "close" ELSE "open"
    <2>1. PICK g : /\ P!Html(t, s) = <<g>> /\ IsItem(g) /\ g.src = s /\ g.name = t.name
                   /\ g.kind = IF t.name \in P!Void
                               THEN IF t.type = "closing" THEN "stray" ELSE "void"
                               ELSE IF t.type = "closing" THEN "close" ELSE "open"
      BY <1>2, HtmlIs
    <2>2. <<h>> = <<g>> => h = g
      OBVIOUS
    <2> QED  BY <1>1, <2>1, <2>2
  <1>4. /\ s[2] = d[t.left + 2].name
        /\ s[IF t.type = "closing" THEN 3 ELSE 2] = d[NameAt(t)].name
    <2>1. t.right - t.left >= IF t.type = "closing" THEN 3 ELSE 2
      BY <1>1 DEF Stands, NameAt
    <2>2. /\ 2 \in 1..(t.right - t.left)
          /\ (IF t.type = "closing" THEN 3 ELSE 2) \in 1..(t.right - t.left)
      BY <1>1, <2>1
    <2> QED  BY <1>2, <2>2 DEF NameAt
  <1>5. s[2] = "/" <=> t.type = "closing"
    BY <1>4 DEF Stands
  <1>6. P!Written(s) = d[NameAt(t)].name
    BY <1>4, <1>5 DEF P!Written
  <1>7. /\ h.kind \in IF h.src[2] = "/" THEN {"close"} ELSE {"open", "void"}
        /\ Same(P!Written(h.src), h.name)
    BY <1>3, <1>5, <1>6 DEF Stands
  <1>8. ASSUME NEW k \in 1..Len(r), r[k].kind # "text"
        PROVE  /\ r[k].kind \in IF r[k].src[2] = "/" THEN {"close"} ELSE {"open", "void"}
               /\ Same(P!Written(r[k].src), r[k].name)
    <2>1. CASE k <= t.left
      <3>1. k \in 1..t.left /\ k \in 1..Len(d)
        BY <1>0, <1>1, <2>1
      <3>2. r[k] = d[k]
        BY <1>1, <3>1
      <3> QED  BY <1>8, <3>1, <3>2 DEF Faithful
    <2>2. CASE k = t.left + 1
      BY <1>7, <2>2
    <2>3. CASE k > t.left + 1
      <3> DEFINE j == k - (t.left + 1)
      <3>1. j \in 1..(Len(d) - t.right) /\ k = t.left + 1 + j /\ t.right + j \in 1..Len(d)
        <4>1. /\ t.left \in Nat /\ t.right \in Nat /\ t.right <= Len(d) /\ Len(d) \in Nat
              /\ k \in 1..(t.left + 1 + (Len(d) - t.right))
          BY <1>0, <1>1
        <4>2. k \in Nat /\ k - (t.left + 1) >= 1 /\ k - (t.left + 1) <= Len(d) - t.right
          BY <2>3, <4>1
        <4>3. j \in Nat /\ j >= 1 /\ j <= Len(d) - t.right
          BY <4>1, <4>2
        <4>4. k = t.left + 1 + j
          BY <4>1, <4>2
        <4> HIDE DEF j
        <4> QED  BY <4>1, <4>3, <4>4
      <3> HIDE DEF j
      <3>2. r[k] = d[t.right + j]
        BY <1>1, <3>1
      <3> QED  BY <1>8, <3>1, <3>2 DEF Faithful
    <2> QED  BY <1>1, <2>1, <2>2, <2>3
  <1> QED  BY <1>8 DEF Faithful, r

-----------------------------------------------------------------------------
(* A stack stands in any text with the part it stands in.                  *)
LEMMA StackLeft ==
    ASSUME NEW ts, AreTags(ts), NEW d, AreItems(d), NEW e, AreItems(e),
           NEW n \in Nat, n <= Len(e),
           \A k \in 1..n : e[k] = d[k], Stack(ts, d), Before(ts, n)
    PROVE  Stack(ts, e)
  <1>1. ASSUME NEW k \in 1..Len(ts), ts[k].type = "opening" PROVE Stands(e, ts[k])
    <2>1. IsTag(ts[k]) /\ Stands(d, ts[k]) /\ ts[k].right <= n
      BY <1>1 DEF AreTags, Stack, Before
    <2> QED  BY <2>1, LeftOf
  <1> QED  BY <1>1 DEF Stack

(* A tag behind all of them goes on the stack.                             *)
LEMMA StackPush ==
    ASSUME NEW ts, AreTags(ts), NEW d, NEW t, IsTag(t), Stack(ts, d), Before(ts, t.left),
           Stands(d, t), t.type = "opening", t.name \in Unlinked \ P!Void
    PROVE  Stack(Append(ts, t), d)
  <1> DEFINE us == Append(ts, t)
             n == Len(ts)
  <1>1. /\ Len(us) = n + 1 /\ \A k \in 1..n : us[k] = ts[k]
        /\ us[n + 1] = t /\ n \in Nat
    BY TagsAppend
  <1> HIDE DEF us
  <1>2. \A k \in 1..(n + 1) : k \in 1..n \/ k = n + 1
    BY <1>1
  <1>3. ASSUME NEW k \in 1..Len(us)
        PROVE  us[k].name \in Unlinked \ P!Void /\ (us[k].type = "opening" => Stands(d, us[k]))
    BY <1>1, <1>2 DEF Stack
  <1>4. ASSUME NEW j \in 1..Len(us), NEW k \in 1..Len(us), j < k, us[j].type = "opening"
        PROVE  us[k].type = "opening" /\ us[j].right <= us[k].left
    <2>1. j \in 1..n
      BY <1>1, <1>4
    <2>2. CASE k \in 1..n
      BY <1>1, <1>4, <2>1, <2>2 DEF Stack
    <2>3. CASE k = n + 1
      BY <1>1, <1>4, <2>1, <2>3 DEF Before
    <2> QED  BY <1>1, <1>2, <2>2, <2>3
  <1> QED  BY <1>3, <1>4 DEF Stack, us

(* Closing tags that were kept stay a stack, whatever the text.            *)
LEMMA StackClosings ==
    ASSUME NEW us, NEW d, AreTags(us), \A k \in 1..Len(us) : /\ us[k].type = "closing"
                                                /\ us[k].name \in Unlinked \ P!Void
    PROVE  Stack(us, d)
  BY DEF Stack

(* A closing tag without an opening one stays on the stack, with the other *)
(* closing ones.                                                           *)
LEMMA ClosingsLeft ==
    ASSUME NEW ts, AreTags(ts), ts # <<>>, ts[Len(ts)].type = "closing", NEW d,
           \A k \in 1..Len(ts) : ts[k].name \in Unlinked \ P!Void
    PROVE  /\ AreTags(Append(P!LeaveClosings(ts, 1), ts[Len(ts)]))
           /\ Stack(Append(P!LeaveClosings(ts, 1), ts[Len(ts)]), d)
           /\ \A m : Before(Append(P!LeaveClosings(ts, 1), ts[Len(ts)]), m)
  <1> DEFINE ls == P!LeaveClosings(ts, 1)
             t  == ts[Len(ts)]
             us == Append(ls, t)
  <1>1. Len(ts) \in 1..Len(ts) /\ 1 \in 1..Len(ts)
    <2>1. Len(ts) \in Nat /\ Len(ts) # 0
      BY SeqIs, EmptySeq DEF AreTags
    <2> QED  BY <2>1
  <1>2. /\ AreTags(ls)
        /\ \A k \in 1..Len(ls) : ls[k].type = "closing" /\ ls[k] \in {ts[j] : j \in 1..Len(ts)}
    BY <1>1, LeaveIs
  <1>3. IsTag(t)
    BY <1>1 DEF AreTags
  <1> HIDE DEF ls, t
  <1>4. /\ AreTags(us) /\ Len(us) = Len(ls) + 1
        /\ \A k \in 1..Len(ls) : us[k] = ls[k]
        /\ us[Len(ls) + 1] = t /\ Len(ls) \in Nat
    BY <1>2, <1>3, TagsAppend
  <1> HIDE DEF us
  <1>5. ASSUME NEW k \in 1..Len(us)
        PROVE  us[k].type = "closing" /\ us[k].name \in Unlinked \ P!Void
    <2>1. k \in 1..Len(ls) \/ k = Len(ls) + 1
      BY <1>4
    <2>2. CASE k \in 1..Len(ls)
      BY <1>2, <1>4, <2>2
    <2>3. CASE k = Len(ls) + 1
      BY <1>1, <1>4, <2>3 DEF t
    <2> QED  BY <2>1, <2>2, <2>3
  <1>6. Stack(us, d)
    BY <1>4, <1>5, StackClosings
  <1>7. \A m : Before(us, m)
    BY <1>5 DEF Before
  <1> QED  BY <1>4, <1>6, <1>7 DEF us, ls, t

(* Replacing when nothing was added to a stack leaves the text, and a      *)
(* stack.                                                                  *)
LEMMA PairIdle ==
    ASSUME NEW r, IsResult(r), ~r.lost, Stack(r.tags, r.data)
    PROVE  /\ P!PairReplaced(r).data = r.data /\ ~P!PairReplaced(r).lost
           /\ Stack(P!PairReplaced(r).tags, r.data)
           /\ \A m : Before(r.tags, m) => Before(P!PairReplaced(r).tags, m)
  <1> DEFINE ts == r.tags
             n == Len(ts)
  <1>0. AreTags(ts) /\ n \in Nat
    BY SeqIs DEF IsResult, AreTags
  <1>1. CASE ts = <<>> \/ ts[n].type = "opening"
    <2>1. P!PairReplaced(r) = r
      BY <1>1 DEF P!PairReplaced, P!Last
    <2> QED  BY <2>1
  <1>2. CASE ~(ts = <<>> \/ ts[n].type = "opening")
    <2>1. n \in 1..n
      <3>1. n # 0
        BY <1>0, <1>2, EmptySeq, SeqIs DEF AreTags
      <3> QED  BY <1>0, <3>1
    <2>2. P!OpenerOf(ts) = 0
      <3>1. ASSUME NEW k \in 1..n - 1 PROVE ts[k].type # "opening"
        <4>1. k \in 1..n /\ k < n
          BY <1>0
        <4> QED  BY <1>2, <2>1, <4>1 DEF Stack
      <3> QED  BY <1>0, <1>2, <3>1, OpenerIs
    <2>3. P!PairReplaced(r) = [r EXCEPT !.tags = Append(P!LeaveClosings(ts, 1), ts[n])]
      BY <1>2, <2>2 DEF P!PairReplaced, P!Last
    <2>4. ts[n].type = "closing"
      <3>1. IsTag(ts[n])
        BY <1>0, <2>1 DEF AreTags
      <3> QED  BY <1>2, <3>1 DEF IsTag
    <2>5. /\ Stack(Append(P!LeaveClosings(ts, 1), ts[n]), r.data)
          /\ \A m : Before(Append(P!LeaveClosings(ts, 1), ts[n]), m)
      BY <1>0, <1>2, <2>4, ClosingsLeft DEF Stack
    <2> QED  BY <2>3, <2>5 DEF IsResult
  <1> QED  BY <1>1, <1>2

(* The [ behind the text of a list replaces nothing.                       *)
LEMMA BreakFaithful ==
    ASSUME NEW ts, AreTags(ts), NEW d, AreItems(d), Stack(ts, d), Faithful(d),
           NEW r, r = P!Replacements(ts, d)
    PROVE  /\ ~r.lost /\ r.data = d /\ Stack(r.tags, r.data) /\ Faithful(r.data)
           /\ \A m : Before(ts, m) => Before(r.tags, m)
  <1> DEFINE q == [tags |-> ts, data |-> d, lost |-> FALSE]
  <1>1. IsResult(q) /\ ~q.lost /\ q.tags = ts /\ q.data = d
    BY DEF IsResult
  <1>2. r = P!PairReplaced(P!VoidReplaced(q))
    BY DEF P!Replacements
  <1> HIDE DEF q
  <1>3. P!VoidReplaced(q) = q
    <2>1. CASE ts = <<>>
      BY <1>1, <2>1 DEF P!VoidReplaced
    <2>2. CASE ts # <<>>
      <3>1. Len(ts) \in 1..Len(ts)
        <4>1. Len(ts) \in Nat /\ Len(ts) # 0
          BY <2>2, SeqIs, EmptySeq DEF AreTags
        <4> QED  BY <4>1
      <3>2. P!Last(ts).name \notin P!Void
        BY <3>1 DEF Stack, P!Last
      <3> QED  BY <1>1, <3>2 DEF P!VoidReplaced
    <2> QED  BY <2>1, <2>2
  <1> QED  BY <1>1, <1>2, <1>3, PairIdle

(* A complete tag is recorded, and what it completes is replaced.          *)
LEMMA RecordFaithful ==
    ASSUME NEW ts, AreTags(ts), NEW d, AreItems(d), Stack(ts, d), Faithful(d),
           NEW t, IsTag(t), Stands(d, t), t.right = Len(d), Before(ts, t.left),
           t.name \in Unlinked, t.type = "closing" => t.name \notin P!Void,
           NEW r, r = P!Replacements(Append(ts, t), d)
    PROVE  ~r.lost /\ Stack(r.tags, r.data) /\ Faithful(r.data)
  <1> DEFINE us == Append(ts, t)
             n  == Len(us)
             q  == [tags |-> us, data |-> d, lost |-> FALSE]
             d1 == P!Replaced(d, t)
  <1>0. /\ AreTags(us) /\ n = Len(ts) + 1 /\ Len(ts) \in Nat
        /\ \A k \in 1..Len(ts) : us[k] = ts[k]
        /\ us[n] = t /\ us # <<>>
    <2>1. /\ AreTags(us) /\ Len(us) = Len(ts) + 1
          /\ \A k \in 1..Len(ts) : us[k] = ts[k]
          /\ us[Len(ts) + 1] = t /\ Len(ts) \in Nat
      BY TagsAppend
    <2>2. us # <<>>
      <3>1. Len(us) # 0
        BY <2>1
      <3> HIDE DEF us
      <3> QED  BY <3>1
    <2> QED  BY <2>1, <2>2
  <1>1. IsResult(q) /\ q.lost = FALSE /\ q.tags = us /\ q.data = d
    BY <1>0 DEF IsResult
  <1>2. r = P!PairReplaced(P!VoidReplaced(q))
    BY DEF P!Replacements
  <1>3. P!Last(us) = t
    BY <1>0 DEF P!Last
  <1>4. P!Front(us) = ts
    <2>1. SubSeq(us, 1, n - 1) = ts
      <3>1. n - 1 = Len(ts) /\ Len(ts) <= Len(us)
        BY <1>0
      <3>2. us \in Seq({us[k] : k \in 1..n}) /\ ts \in Seq({ts[k] : k \in 1..Len(ts)})
        BY <1>0, SeqIs DEF AreTags
      <3>3. /\ Len(SubSeq(us, 1, Len(ts))) = Len(ts)
            /\ \A k \in 1..Len(ts) : SubSeq(us, 1, Len(ts))[k] = us[k]
            /\ AreTags(SubSeq(us, 1, Len(ts)))
        <4> HIDE DEF us
        <4> QED  BY <1>0, <3>1, TagsPart
      <3>4. SubSeq(us, 1, Len(ts)) \in
              Seq({SubSeq(us, 1, Len(ts))[k] : k \in 1..Len(SubSeq(us, 1, Len(ts)))})
        BY <3>3, SeqIs DEF AreTags
      <3> DEFINE p == SubSeq(us, 1, Len(ts))
      <3> HIDE DEF p, us
      <3>5. p = ts
        BY <1>0, <3>2, <3>3, <3>4, SeqEqual DEF p
      <3> QED  BY <3>1, <3>5 DEF p
    <2> QED  BY <2>1 DEF P!Front
  <1>5. /\ P!InPlace(d, t) /\ t.left \in Nat /\ t.right \in Nat /\ t.left < t.right
        /\ AreItems(d1) /\ Len(d1) = t.left + 1 /\ Len(d) \in Nat
        /\ \A k \in 1..t.left : d1[k] = d[k]
    <2>1. P!InPlace(d, t) /\ Len(d) \in Nat
      BY SeqIs DEF Stands, AreItems
    <2>2. /\ t.left \in Nat /\ t.right \in Nat /\ t.left < t.right
          /\ AreItems(d1) /\ Len(d1) = t.left + 1 + (Len(d) - t.right)
          /\ \A k \in 1..t.left : d1[k] = d[k]
      BY <2>1, ReplacedIs
    <2> QED  BY <2>1, <2>2
  <1>6. Faithful(d1)
    BY ReplacedFaithfully
  <1> HIDE DEF q, us, d1
  <1>7. CASE t.name \in P!Void
    <2>1. P!VoidReplaced(q) = [q EXCEPT !.data = d1, !.tags = ts]
      BY <1>0, <1>1, <1>3, <1>4, <1>5, <1>7 DEF P!VoidReplaced, d1
    <2> DEFINE v == P!VoidReplaced(q)
    <2>2. IsResult(v) /\ ~v.lost /\ v.tags = ts /\ v.data = d1
      BY <1>1, <1>5, <2>1 DEF IsResult
    <2>3. Stack(ts, d1)
      <3>1. t.left <= Len(d1) /\ Len(d1) \in Nat
        BY <1>5
      <3> QED  BY <1>5, <3>1, StackLeft
    <2> HIDE DEF v
    <2>4. P!PairReplaced(v).data = d1 /\ ~P!PairReplaced(v).lost /\ Stack(P!PairReplaced(v).tags, d1)
      BY <2>2, <2>3, PairIdle
    <2> QED  BY <1>2, <1>6, <2>4 DEF v
  <1>8. CASE t.name \notin P!Void /\ t.type = "opening"
    <2>1. P!VoidReplaced(q) = q
      BY <1>1, <1>3, <1>8 DEF P!VoidReplaced
    <2>2. Stack(us, d)
      BY <1>8, StackPush DEF us
    <2>3. P!PairReplaced(q).data = d /\ ~P!PairReplaced(q).lost /\ Stack(P!PairReplaced(q).tags, d)
      BY <1>1, <2>2, PairIdle
    <2> QED  BY <1>2, <2>1, <2>3
  <1>9. CASE t.name \notin P!Void /\ t.type = "closing"
    <2>1. P!VoidReplaced(q) = q
      BY <1>1, <1>3, <1>9 DEF P!VoidReplaced
    <2> DEFINE k == P!OpenerOf(us)
    <2>2. \A j \in 1..n : us[j].name \in Unlinked \ P!Void
      <3>1. \A j \in 1..n : j \in 1..Len(ts) \/ j = n
        BY <1>0
      <3> QED  BY <1>0, <1>9, <3>1 DEF Stack
    <2>3. CASE k = 0
      <3>1. P!PairReplaced(q) = [q EXCEPT !.tags = Append(P!LeaveClosings(us, 1), t)]
        BY <1>0, <1>1, <1>3, <1>9, <2>3 DEF P!PairReplaced
      <3>2. Stack(Append(P!LeaveClosings(us, 1), t), d)
        BY <1>0, <1>9, <2>2, ClosingsLeft
      <3> QED  BY <1>1, <1>2, <2>1, <3>1, <3>2 DEF IsResult
    <2>4. CASE k # 0
      <3>1. k \in 1..Len(ts) /\ us[k].type = "opening" /\ ts[k] = us[k]
        <4>1. k \in 1..n - 1 /\ us[k].type = "opening"
          BY <1>0, <2>4, OpenerIs
        <4>2. n - 1 = Len(ts)
          BY <1>0
        <4> QED  BY <1>0, <4>1, <4>2
      <3>2. IsTag(ts[k]) /\ Stands(d, ts[k]) /\ ts[k].right <= t.left /\ ts[k].type = "opening"
        BY <3>1 DEF AreTags, Stack, Before
      <3>3. Stands(d1, ts[k]) /\ P!InPlace(d1, ts[k])
        <4>1. t.left \in Nat /\ AreItems(d1) /\ t.left <= Len(d1)
              /\ \A m \in 1..t.left : d1[m] = d[m]
          BY <1>5
        <4>2. ts[k].right <= t.left
          BY <3>2
        <4> HIDE DEF k
        <4> QED  BY <3>2, <4>1, LeftOf
      <3> DEFINE d2 == P!Replaced(d1, ts[k])
                 ps == SubSeq(us, 1, k - 1)
      <3>4. Faithful(d2)
        <4> HIDE DEF k
        <4> QED  BY <1>5, <1>6, <3>2, <3>3, ReplacedFaithfully
      <3>5. /\ ts[k].left \in Nat /\ ts[k].left < t.left /\ AreItems(d2) /\ ts[k].left <= Len(d2)
            /\ \A m \in 1..ts[k].left : d2[m] = d[m]
        <4> DEFINE o == ts[k]
        <4>0. AreItems(d1) /\ IsTag(o) /\ P!InPlace(d1, o) /\ d2 = P!Replaced(d1, o)
          BY <1>5, <3>2, <3>3
        <4> HIDE DEF k, d2, o
        <4>a. /\ o.left \in Nat /\ o.right \in Nat /\ o.left < o.right
              /\ o.right <= Len(d1) /\ AreItems(d2)
              /\ Len(d2) = o.left + 1 + (Len(d1) - o.right)
              /\ \A m \in 1..o.left : d2[m] = d1[m]
          BY <4>0, ReplacedIs
        <4>1. /\ ts[k].left \in Nat /\ ts[k].right \in Nat /\ ts[k].left < ts[k].right
              /\ ts[k].right <= Len(d1) /\ AreItems(d2)
              /\ Len(d2) = ts[k].left + 1 + (Len(d1) - ts[k].right)
              /\ \A m \in 1..ts[k].left : d2[m] = d1[m]
          BY <4>a DEF o
        <4>2. ts[k].left < t.left /\ ts[k].left <= Len(d2)
          <5>1. /\ o.left \in Nat /\ o.right \in Nat /\ o.left < o.right
                /\ o.right <= Len(d1) /\ Len(d2) = o.left + 1 + (Len(d1) - o.right)
            BY <4>a
          <5>2. Len(d1) = t.left + 1 /\ t.left \in Nat
            BY <1>5
          <5>3. o.right <= t.left
            BY <3>2 DEF o
          <5>4. o.left < t.left /\ o.left <= Len(d2)
            BY <5>1, <5>2, <5>3
          <5> QED  BY <5>4 DEF o
        <4>3. \A m \in 1..ts[k].left : m \in 1..t.left
          BY <1>5, <4>1, <4>2
        <4> QED  BY <1>5, <4>1, <4>2, <4>3
      <3>6. P!LeaveClosings(us, k + 1) = <<>>
        <4>1. k + 1 \in 1..n
          BY <1>0, <3>1
        <4>2. ASSUME NEW m \in k + 1..n - 1 PROVE us[m].type = "opening"
          <5>1. m \in 1..Len(ts) /\ k < m
            BY <1>0, <3>1
          <5> QED  BY <1>0, <3>1, <5>1 DEF Stack
        <4> HIDE DEF k
        <4> QED  BY <1>0, <4>1, <4>2, LeaveIs
      <3>7. /\ AreTags(ps) /\ Len(ps) = k - 1 /\ \A m \in 1..k - 1 : ps[m] = ts[m]
        <4>1. k - 1 \in Nat /\ k - 1 <= n /\ \A m \in 1..k - 1 : m \in 1..Len(ts)
          BY <1>0, <3>1
        <4>2. AreTags(ps) /\ Len(ps) = k - 1 /\ \A m \in 1..k - 1 : ps[m] = us[m]
          BY <1>0, <4>1, TagsPart
        <4> HIDE DEF ps
        <4> QED  BY <1>0, <4>1, <4>2
      <3>8. ps \o <<>> = ps
        <4>1. ps \in Seq({ps[m] : m \in 1..Len(ps)})
          BY <3>7, SeqIs DEF AreTags
        <4> HIDE DEF ps
        <4> QED  BY <4>1, ConcatEmptySeq
      <3>9. P!PairReplaced(q) = [q EXCEPT !.tags = ps, !.data = d2]
        <4>1. P!InPlace(q.data, P!Last(us)) /\ P!InPlace(d1, us[k])
          BY <1>1, <1>3, <1>5, <3>1, <3>3
        <4>2. /\ P!Replaced(q.data, P!Last(us)) = d1
              /\ SubSeq(us, 1, k - 1) \o P!LeaveClosings(us, k + 1) = ps
              /\ P!Replaced(d1, us[k]) = d2
          BY <1>1, <1>3, <3>1, <3>6, <3>8 DEF d1
        <4>3. ~(q.lost \/ us = <<>> \/ P!Last(us).type = "opening")
          BY <1>0, <1>1, <1>3, <1>9
        <4> HIDE DEF ps, d2
        <4> QED  BY <1>1, <2>4, <4>1, <4>2, <4>3 DEF P!PairReplaced
      <3>10. Stack(ps, d2)
        <4>1. \A m \in 1..k - 1 : m \in 1..Len(ts) /\ m < k
          BY <1>0, <3>1
        <4> HIDE DEF k, ps, d2
        <4>2. Stack(ps, d)
          BY <3>7, <4>1 DEF Stack
        <4>3. Before(ps, ts[k].left)
          <5>1. ASSUME NEW m \in 1..Len(ps), ps[m].type = "opening" PROVE ps[m].right <= ts[k].left
            BY <3>1, <3>7, <4>1, <5>1 DEF Stack
          <5> QED  BY <5>1 DEF Before
        <4> QED  BY <3>5, <3>7, <4>2, <4>3, StackLeft
      <3> HIDE DEF ps, d2
      <3> QED  BY <1>1, <1>2, <2>1, <3>4, <3>9, <3>10 DEF IsResult
    <2> QED  BY <2>3, <2>4
  <1>10. t.type \in {"opening", "closing"}
    BY DEF IsTag
  <1> QED  BY <1>7, <1>8, <1>9, <1>10

-----------------------------------------------------------------------------
(* A tag has been begun, and its name has been read.                       *)
Begun(d, left, from) ==
    /\ left \in Nat /\ left < Len(d)
    /\ Len(P!Source(SubSeq(d, 1, left))) = from - 1
    /\ \A n \in left + 1..Len(d) : d[n].kind = "text"
NameRead(t, d, x) ==
    /\ NameAt(t) <= Len(d)
    /\ d[t.left + 2].name = "/" <=> t.type = "closing"
    /\ Same(d[NameAt(t)].name, x)

(* What the state of the table says of the tag being read.                 *)
Fits(st, t, ts, d) ==
    \/ st \in {P!Text, <<"link", "EMAIL">>} /\ t.type = "opening"
    \/ /\ Begun(d, t.left, t.from) /\ Before(ts, t.left)
       /\ \/ st = <<"open", "">> /\ t.type = "opening" /\ Len(d) = t.left + 1
          \/ /\ st = <<"close", "">> /\ t.type = "closing"
             /\ Len(d) = t.left + 2 /\ d[t.left + 2].name = "/"
          \/ \E x \in Unlinked :
                /\ st = <<"name", x>> /\ NameRead(t, d, x)
                /\ t.type = "closing" => x \in P!Plain
          \/ \E x \in Unlinked :
                /\ st = <<"endname", x>> /\ NameRead(t, d, x)
                /\ t.type = "closing" /\ x \in P!Valued
          \/ \E x \in Unlinked :
                /\ st \in {<<"equals", x>>, <<"value", x>>} /\ NameRead(t, d, x)
                /\ t.type = "opening" /\ x \in P!Valued

(* What one lexeme more does to these.                                     *)
LEMMA Grown ==
    ASSUME AreItems(data), NEW l \in P!Lexemes, NEW d, d = Append(data, P!Lexeme(l)),
           AreTags(tags), Stack(tags, data), Faithful(data), Len(P!Source(data)) = at, at \in Nat
    PROVE  /\ Len(data) \in Nat /\ Len(d) = Len(data) + 1 /\ AreItems(d)
           /\ \A k \in 1..Len(data) : d[k] = data[k]
           /\ d[Len(data) + 1] = P!Lexeme(l)
           /\ Stack(tags, d) /\ Faithful(d) /\ Before(tags, Len(data))
           /\ \A b, f : Begun(data, b, f) => Begun(d, b, f)
           /\ Begun(d, Len(data), at + 1)
  <1>1. /\ AreItems(d) /\ Len(data) \in Nat /\ Len(d) = Len(data) + 1
        /\ \A k \in 1..Len(data) : d[k] = data[k]
        /\ d[Len(data) + 1] = P!Lexeme(l)
    BY WithLexeme
  <1>2. Before(tags, Len(data))
    BY DEF Before, Stack, Stands, P!InPlace
  <1>3. Stack(tags, d)
    <2>1. Len(data) <= Len(d) /\ Len(d) \in Nat
      BY <1>1
    <2> QED  BY <1>1, <1>2, <2>1, StackLeft
  <1>4. \A k \in 1..Len(d) : k \in 1..Len(data) \/ k = Len(data) + 1
    BY <1>1
  <1>5. P!Lexeme(l).kind = "text" /\ P!Lexeme(l).name = l
    BY DEF P!Lexeme
  <1>6. Faithful(d)
    BY <1>1, <1>4, <1>5 DEF Faithful
  <1>7. ASSUME NEW b, NEW f, Begun(data, b, f) PROVE Begun(d, b, f)
    <2>1. b \in Nat /\ b < Len(data) /\ b < Len(d) /\ b <= Len(data) /\ b <= Len(d)
      BY <1>1, <1>7 DEF Begun
    <2>2. \A n \in b + 1..Len(d) : d[n].kind = "text"
      BY <1>1, <1>5, <1>7, <2>1 DEF Begun
    <2>3. SubSeq(d, 1, b) = SubSeq(data, 1, b)
      <3>1. \A k \in 1..b : d[k] = data[k]
        BY <1>1, <2>1
      <3> QED  BY <1>1, <2>1, <3>1, SamePrefix DEF AreItems
    <2> QED  BY <1>7, <2>1, <2>2, <2>3 DEF Begun
  <1>8. Begun(d, Len(data), at + 1)
    <2>1. Len(data) < Len(d) /\ Len(data) <= Len(d) /\ Len(data) <= Len(data)
      BY <1>1
    <2>2. \A n \in Len(data) + 1..Len(d) : d[n].kind = "text"
      BY <1>1, <1>5
    <2>3. SubSeq(d, 1, Len(data)) = SubSeq(data, 1, Len(data))
      BY <1>1, <2>1, SamePrefix DEF AreItems
    <2>4. SubSeq(data, 1, Len(data)) = data
      BY SeqIs, SubSeqFull DEF AreItems
    <2>5. Len(P!Source(SubSeq(d, 1, Len(data)))) = at + 1 - 1
      <3>1. at + 1 - 1 = at
        OBVIOUS
      <3> QED  BY <2>3, <2>4, <3>1
    <2> QED  BY <1>1, <2>1, <2>2, <2>5 DEF Begun
  <1> QED  BY <1>1, <1>2, <1>3, <1>6, <1>7, <1>8

(* The name stays read.                                                    *)
LEMMA NameGrown ==
    ASSUME NEW t, IsTag(t), NEW d, Len(data) \in Nat, Len(d) = Len(data) + 1,
           \A k \in 1..Len(data) : d[k] = data[k], NEW x, NameRead(t, data, x)
    PROVE  NameRead(t, d, x)
  <1>1. t.left \in Nat /\ NameAt(t) \in 1..Len(data) /\ t.left + 2 \in 1..Len(data)
    BY DEF IsTag, NameRead, NameAt
  <1> QED  BY <1>1 DEF NameRead

(* A tag that is complete stands.                                          *)
LEMMA Completed ==
    ASSUME NEW t, IsTag(t), NEW d, NEW l, Len(data) \in Nat, Len(d) = Len(data) + 1,
           \A k \in 1..Len(data) : d[k] = data[k], d[Len(data) + 1] = P!Lexeme(l),
           Begun(d, t.left, t.from), t.left < Len(data), NEW x, NameRead(t, data, x),
           NEW c, IsTag(c), c.from = t.from, c.left = t.left, c.type = t.type, c.name = x,
           c.right = Len(d)
    PROVE  Stands(d, c)
  <1>1. NameRead(t, d, x)
    BY NameGrown
  <1>2. P!InPlace(d, c)
    BY DEF Begun, P!InPlace
  <1>6. NameAt(c) = NameAt(t)
    BY DEF NameAt
  <1> QED  BY <1>1, <1>2, <1>6 DEF Stands, NameRead

-----------------------------------------------------------------------------
(* The table of the parser, in a post without links.                       *)
LEMMA KindOf ==
    ASSUME NEW l \in P!Lexemes \ P!Linked
    PROVE  /\ P!Kind(l) \in P!Lexemes \ P!Linked
           /\ P!Kind(l) # "WORD" => P!Kind(l) = l
           /\ l # "LONG" => P!Kind(l) = l
           /\ \A x \in P!Tags \cup {"[", "]", "/", "SP", "="} : P!Kind(l) = x <=> l = x
  BY DEF P!Kind, P!Lexemes, P!Tags, P!Plain, P!Colours, P!Void, P!Valued, P!Words, P!Linked

(* The classes of tags.                                                    *)
LEMMA SetsOfTags ==
    /\ P!Plain \cap P!Valued = {} /\ P!Void \cap P!Valued = {} /\ P!Void \cap P!Plain = {}
    /\ P!Linked \subseteq P!Valued /\ P!Words \subseteq P!Valued
    /\ P!Plain \subseteq Unlinked /\ P!Valued \ P!Linked \subseteq Unlinked
    /\ Unlinked \cap {"", "[", "]", "/", "SP", "=", "WORD", "LONG"} = {}
    /\ P!Valued \ P!Linked = P!Words \cup {"QUOTE"} /\ "QUOTE" \notin P!Words
    /\ "O" \in P!Plain /\ "WHITE" \in P!Plain /\ "CODE" \in P!Plain /\ "LIST" \in P!Plain
    /\ "BLACK" \in P!Plain /\ "COLOR" \in P!Words
  BY DEF Unlinked, P!Tags, P!Plain, P!Colours, P!Void, P!Valued, P!Words, P!Linked

(* From the text: [ may begin a tag.                                       *)
LEMMA FromText ==
    ASSUME NEW l \in P!Lexemes \ P!Linked
    PROVE  /\ P!Parser(P!Text, P!Kind(l)) = IF l = "[" THEN <<"open", "">> ELSE P!Text
           /\ P!Parser(P!Text, l) = IF l = "[" THEN <<"open", "">> ELSE P!Text
  <1>1. P!Kind(l) = "[" <=> l = "["
    BY KindOf
  <1> QED  BY <1>1 DEF P!Parser, P!Text

(* After [.                                                                *)
LEMMA FromOpen ==
    ASSUME NEW l \in P!Lexemes \ P!Linked, NEW s, s = P!Parser(<<"open", "">>, P!Kind(l))
    PROVE  \/ s = P!Error
           \/ l \in Unlinked /\ s = <<"name", l>>
           \/ l = "/" /\ s = <<"close", "">>
  <1>1. s = P!Opened(P!Kind(l))
    BY DEF P!Parser
  <1>2. CASE P!Kind(l) \in P!Tags
    <2>1. P!Kind(l) = l
      BY <1>2, KindOf DEF P!Tags, P!Plain, P!Colours, P!Void, P!Valued, P!Words, P!Linked
    <2>2. s = <<"name", l>>
      BY <1>1, <1>2, <2>1, SetsOfTags DEF P!Opened, P!Tags, P!Plain, P!Colours, P!Void, P!Valued,
         P!Words, P!Linked
    <2> QED  BY <1>2, <2>1, <2>2 DEF Unlinked
  <1>3. CASE P!Kind(l) \notin P!Tags
    <2>1. P!Kind(l) = "/" <=> l = "/"
      BY KindOf
    <2> QED  BY <1>1, <1>3, <2>1 DEF P!Opened
  <1> QED  BY <1>2, <1>3

(* After [/.                                                               *)
LEMMA FromClose ==
    ASSUME NEW l \in P!Lexemes \ P!Linked, NEW s, s = P!Parser(<<"close", "">>, P!Kind(l))
    PROVE  \/ s = P!Error
           \/ l \in P!Plain /\ s = <<"name", l>>
           \/ l \in P!Valued \ P!Linked /\ s = <<"endname", l>>
  <1>1. s = P!Closing(P!Kind(l))
    BY DEF P!Parser
  <1>2. P!Kind(l) \in P!Plain \cup P!Valued => P!Kind(l) = l
    BY KindOf DEF P!Plain, P!Colours, P!Valued, P!Words, P!Linked
  <1>3. CASE P!Kind(l) \in P!Plain
    BY <1>1, <1>2, <1>3, SetsOfTags DEF P!Closing
  <1>4. CASE P!Kind(l) \in P!Valued
    BY <1>1, <1>2, <1>4, SetsOfTags DEF P!Closing
  <1>5. CASE P!Kind(l) \notin P!Plain \cup P!Valued
    BY <1>1, <1>5 DEF P!Closing
  <1> QED  BY <1>3, <1>4, <1>5

(* After the name of a tag.                                                *)
LEMMA FromName ==
    ASSUME NEW l \in P!Lexemes \ P!Linked, NEW x \in Unlinked,
           NEW s, s = P!Parser(<<"name", x>>, P!Kind(l))
    PROVE  \/ s = P!Error
           \/ l \in {"]", "SP"} /\ s = <<"found", x>>
           \/ l = "=" /\ x \in P!Valued /\ s = <<"equals", x>>
           \/ /\ l = "SP" /\ \E y \in Unlinked :
                 /\ s = <<"name", y>> /\ \A w : Same(w, x) => Same(w, y)
                 /\ x \in P!Plain => y \in P!Plain
  <1>1. s = P!AfterName(x, P!Kind(l))
    BY DEF P!Parser
  <1>2. P!Kind(l) = "]" <=> l = "]"
    BY KindOf
  <1>3. P!Kind(l) = "=" <=> l = "="
    BY KindOf
  <1>4. P!Kind(l) = "SP" <=> l = "SP"
    BY KindOf
  <1>5. CASE P!Kind(l) = "]"
    BY <1>1, <1>2, <1>5 DEF P!AfterName
  <1>6. CASE P!Kind(l) = "="
    BY <1>1, <1>3, <1>6 DEF P!AfterName
  <1>7. CASE P!Kind(l) = "SP"
    <2>1. s = P!NameBlank(x)
      BY <1>1, <1>7 DEF P!AfterName
    <2>2. CASE x = "CODE"
      BY <1>4, <1>7, <2>1, <2>2 DEF P!NameBlank
    <2>3. CASE x = "COLOR"
      <3>1. s = <<"name", "O">> /\ "O" \in Unlinked /\ x \notin P!Plain
        BY <2>1, <2>3, SetsOfTags DEF P!NameBlank
      <3>2. \A w : Same(w, x) => Same(w, "O")
        BY <2>3 DEF Same, P!Misread
      <3> QED  BY <1>4, <1>7, <3>1, <3>2
    <2>4. CASE x = "BLACK"
      <3>1. s = <<"name", "WHITE">> /\ "WHITE" \in Unlinked /\ "WHITE" \in P!Plain
        BY <2>1, <2>4, SetsOfTags DEF P!NameBlank
      <3>2. \A w : Same(w, x) => Same(w, "WHITE")
        BY <2>4 DEF Same, P!Misread
      <3> QED  BY <1>4, <1>7, <3>1, <3>2
    <2>5. CASE x \notin {"CODE", "COLOR", "BLACK"}
      BY <1>4, <1>7, <2>1, <2>5 DEF P!NameBlank
    <2> QED  BY <2>2, <2>3, <2>4, <2>5
  <1>8. CASE P!Kind(l) \notin {"]", "=", "SP"}
    BY <1>1, <1>8 DEF P!AfterName
  <1> QED  BY <1>5, <1>6, <1>7, <1>8

(* After the name of a closing tag.                                        *)
LEMMA FromEndName ==
    ASSUME NEW l \in P!Lexemes \ P!Linked, NEW x \in P!Valued \ P!Linked,
           NEW s, s = P!Parser(<<"endname", x>>, P!Kind(l))
    PROVE  \/ s = P!Error
           \/ l = "]" /\ s = <<"ended", x>>
           \/ l = "SP" /\ s = <<"endname", x>>
  <1>1. s = P!AfterEndName(x, P!Kind(l))
    BY DEF P!Parser
  <1>2. P!Kind(l) = "]" <=> l = "]"
    BY KindOf
  <1>3. P!Kind(l) = "SP" <=> l = "SP"
    BY KindOf
  <1>4. x # "URL" /\ x # "EMAIL"
    BY DEF P!Linked
  <1> QED  BY <1>1, <1>2, <1>3, <1>4 DEF P!AfterEndName, P!EndBlank

(* After =.                                                                *)
LEMMA FromEquals ==
    ASSUME NEW l \in P!Lexemes \ P!Linked, NEW x \in P!Valued \ P!Linked,
           NEW s, s = P!Parser(<<"equals", x>>, P!Kind(l))
    PROVE  \/ s = P!Error
           \/ l \notin {"[", "]", "/"} /\ s \in {<<"equals", x>>, <<"value", x>>}
  <1>1. s = P!AfterEquals(x, P!Kind(l))
    BY DEF P!Parser
  <1>2. x \in {"COLOR", "SIZE", "FACE", "QUOTE"}
    BY DEF P!Valued, P!Words, P!Linked
  <1>3. s \in {P!Error, <<"equals", x>>, <<"value", x>>}
    BY <1>1, <1>2 DEF P!AfterEquals, P!Stay
  <1>4. CASE P!Kind(l) \in {"[", "]", "/"}
    <2>1. P!Kind(l) \notin P!ValueLexemes(x) /\ P!Kind(l) # "SP"
      BY <1>2, <1>4 DEF P!ValueLexemes, P!Colours, P!Words, P!Lexemes
    <2> QED  BY <1>1, <1>2, <2>1 DEF P!AfterEquals, P!Stay
  <1>5. l \in {"[", "]", "/"} => P!Kind(l) = l
    BY KindOf
  <1> QED  BY <1>3, <1>4, <1>5

(* In a value.                                                             *)
LEMMA FromValue ==
    ASSUME NEW l \in P!Lexemes \ P!Linked, NEW x \in P!Valued \ P!Linked,
           NEW s, s = P!Parser(<<"value", x>>, P!Kind(l))
    PROVE  \/ s = P!Error
           \/ l = "]" /\ s \in {<<"found", x>>, <<"set", x>>}
           \/ l \notin {"[", "]", "/"} /\ s = <<"value", x>>
  <1>1. s = P!AfterValue(x, P!Kind(l))
    BY DEF P!Parser
  <1>2. x \in {"COLOR", "SIZE", "FACE", "QUOTE"}
    BY DEF P!Valued, P!Words, P!Linked
  <1>3. l \in {"[", "]", "/"} => P!Kind(l) = l
    BY KindOf
  <1>4. CASE P!Kind(l) = "]"
    <2>1. l = "]"
      BY <1>4, KindOf
    <2> QED  BY <1>1, <1>4, <2>1 DEF P!AfterValue
  <1>5. CASE P!Kind(l) # "]" /\ x \in P!Words
    <2>1. s = P!Stay(<<"value", x>>, {"SP"}, P!Kind(l))
      BY <1>1, <1>5 DEF P!AfterValue
    <2> QED  BY <1>3, <1>5, <2>1 DEF P!Stay
  <1>6. CASE P!Kind(l) # "]" /\ x \notin P!Words
    <2>1. s = P!Stay(<<"value", x>>, P!ValueLexemes(x) \cup {"SP"}, P!Kind(l))
      BY <1>1, <1>6 DEF P!AfterValue
    <2>2. x = "QUOTE"
      BY <1>2, <1>6 DEF P!Words
    <2>3. P!ValueLexemes(x) \cap {"[", "]", "/"} = {}
      BY <2>2 DEF P!ValueLexemes
    <2> QED  BY <1>3, <1>6, <2>1, <2>3 DEF P!Stay
  <1> QED  BY <1>4, <1>5, <1>6

(* In the text of an e-mail tag or a list.                                 *)
LEMMA FromLink ==
    ASSUME NEW l \in P!Lexemes \ P!Linked, NEW s, s = P!Parser(<<"link", "EMAIL">>, P!Kind(l))
    PROVE  \/ s = P!Error
           \/ l = "[" /\ s = <<"break", "EMAIL">>
           \/ l \notin {"[", "]", "/"} /\ s = <<"link", "EMAIL">>
  <1>1. s = P!AfterLink("EMAIL", P!Kind(l))
    BY DEF P!Parser
  <1>2. l \in {"[", "]", "/"} => P!Kind(l) = l
    BY KindOf
  <1>3. P!Kind(l) = "[" <=> l = "["
    BY KindOf
  <1>4. CASE P!Kind(l) = "["
    BY <1>1, <1>3, <1>4 DEF P!AfterLink
  <1>5. CASE P!Kind(l) # "["
    <2>1. s = P!Stay(<<"link", "EMAIL">>, P!Lexemes \ P!NotInLink("EMAIL"), P!Kind(l))
      BY <1>1, <1>5 DEF P!AfterLink
    <2>2. {"]", "/"} \subseteq P!NotInLink("EMAIL")
      BY DEF P!NotInLink
    <2> QED  BY <1>2, <1>5, <2>1, <2>2 DEF P!Stay
  <1> QED  BY <1>4, <1>5

-----------------------------------------------------------------------------
(* In a post without links, what has been parsed is sound.                 *)
Sound == /\ ~lost /\ Faithful(data) /\ Stack(tags, data) /\ Fits(state, tmp, tags, data)

(* A step that replaces nothing.                                           *)
LEMMA GoesOn ==
    ASSUME NEW s, NEW ts, NEW d, P!Go(s, ts, d), ~P!Ends(s)
    PROVE  state' = s /\ tags' = ts /\ data' = d /\ lost' = FALSE
  BY DEF P!Go

(* A lexeme that does not fit is text, or begins a tag.                    *)
LEMMA RecoverSound ==
    ASSUME LexInv, ParserInv, Sound, NEW l \in P!Lexemes \ P!Linked,
           NEW d, d = Append(data, P!Lexeme(l)), P!Recover(l, d)
    PROVE  Sound'
  <1>1. /\ Len(data) \in Nat /\ Len(d) = Len(data) + 1 /\ Stack(tags, d) /\ Faithful(d)
        /\ Before(tags, Len(data)) /\ Begun(d, Len(data), at + 1)
    BY Grown, AllRead DEF ParserInv, Sound
  <1>2. /\ state' = P!Parser(P!Text, l) /\ data' = d /\ tags' = tags /\ lost' = FALSE
        /\ tmp' = IF l = "[" THEN P!Noted(P!Cleared, l, d) ELSE P!Cleared
    BY DEF P!Recover, Sound
  <1>3. CASE l = "["
    <2>1. state' = <<"open", "">>
      BY <1>2, <1>3, FromText
    <2>2. tmp'.type = "opening" /\ tmp'.left = Len(data) /\ tmp'.from = at + 1
      <3>1. Len(d) - 1 = Len(data)
        BY <1>1
      <3> QED  BY <1>2, <1>3, <3>1 DEF P!Noted, P!Cleared
    <2>3. Fits(state', tmp', tags', data')
      BY <1>1, <1>2, <1>3, <2>1, <2>2 DEF Fits
    <2> QED  BY <1>1, <1>2, <2>3 DEF Sound
  <1>4. CASE l # "["
    <2>1. state' = P!Text /\ tmp'.type = "opening"
      BY <1>2, <1>4, FromText DEF P!Cleared
    <2>2. Fits(state', tmp', tags', data')
      BY <2>1 DEF Fits
    <2> QED  BY <1>1, <1>2, <2>2 DEF Sound
  <1> QED  BY <1>3, <1>4

(* A tag is complete.                                                      *)
LEMMA RecordSound ==
    ASSUME LexInv, ParserInv, Sound, NEW l \in {"]", "SP"}, NEW d, d = Append(data, P!Lexeme(l)),
           NEW x \in Unlinked, NameRead(tmp, data, x), Begun(data, tmp.left, tmp.from),
           Before(tags, tmp.left), tmp.type = "closing" => x \notin P!Void,
           NEW s \in {<<"found", x>>, <<"set", x>>, <<"ended", x>>},
           P!Accept(s, l, P!Noted(tmp, l, d), d)
    PROVE  Sound'
  <1> DEFINE n == P!Noted(tmp, l, d)
             c == P!Recorded(n, s, d)
             r == P!Replacements(Append(tags, c), d)
  <1>1. l \in P!Lexemes
    BY DEF P!Lexemes
  <1>2. /\ Len(data) \in Nat /\ Len(d) = Len(data) + 1 /\ AreItems(d)
        /\ \A k \in 1..Len(data) : d[k] = data[k]
        /\ d[Len(data) + 1] = P!Lexeme(l)
        /\ Stack(tags, d) /\ Faithful(d) /\ Begun(d, tmp.left, tmp.from)
    BY <1>1, AllRead, Grown DEF ParserInv, Sound
  <1>3. s[1] \in {"found", "set", "ended"} /\ s[2] = x /\ s # P!Text
        /\ s \notin {<<"found", "URL">>, <<"set", "URL">>, <<"ended", "IMG">>, <<"found", "IMG">>,
                     <<"found", "EMAIL">>}
    <2>1. x \notin {"URL", "IMG", "EMAIL"}
      BY DEF Unlinked, P!Linked
    <2>2. CASE s = <<"found", x>>
      BY <2>1, <2>2 DEF P!Text
    <2>3. CASE s = <<"set", x>>
      BY <2>1, <2>3 DEF P!Text
    <2>4. CASE s = <<"ended", x>>
      BY <2>1, <2>4 DEF P!Text
    <2> QED  BY <2>2, <2>3, <2>4
  <1>4. tmp' = P!Cleared /\ P!Go(s, Append(tags, c), d)
    BY <1>3 DEF P!Accept
  <1>5. IsTag(tmp) /\ IsTag(n) /\ Len(d) \in Nat \ {0}
    <2>1. Len(d) \in Nat \ {0} /\ IsTag(tmp) /\ at \in Nat
      BY <1>2 DEF ParserInv
    <2> QED  BY <2>1, TmpTyped
  <1>6. n.from = tmp.from /\ n.left = tmp.left /\ n.type = tmp.type
    <2>1. IsTag([tmp EXCEPT !.right = Len(d) - 1])
          /\ [tmp EXCEPT !.right = Len(d) - 1].from = tmp.from
          /\ [tmp EXCEPT !.right = Len(d) - 1].left = tmp.left
          /\ [tmp EXCEPT !.right = Len(d) - 1].type = tmp.type
      BY <1>2, <1>5 DEF IsTag
    <2> QED  BY <2>1 DEF P!Noted
  <1> HIDE DEF n
  <1>7. /\ IsTag(c) /\ c.from = tmp.from /\ c.left = tmp.left /\ c.type = tmp.type
        /\ c.name = x /\ c.right = Len(d)
    <2>1. IsTag(c)
      BY <1>5, TmpTyped DEF ParserInv
    <2>2. c.from = n.from /\ c.left = n.left /\ c.type = n.type /\ c.name = x /\ c.right = Len(d)
      <3>1. \A a : LET e == [n EXCEPT !.name = x, !.right = Len(d), !.type = n.type, !.attr = a]
                   IN e.from = n.from /\ e.left = n.left /\ e.type = n.type /\ e.name = x /\ e.right = Len(d)
        BY <1>5 DEF IsTag
      <3>2. \E a : c = [n EXCEPT !.name = x, !.right = Len(d), !.type = n.type, !.attr = a]
        BY <1>3 DEF P!Recorded
      <3> QED  BY <3>1, <3>2
    <2> QED  BY <1>6, <2>1, <2>2
  <1> HIDE DEF c
  <1>8. Stands(d, c)
    <2>1. tmp.left < Len(data)
      BY DEF Begun
    <2> QED  BY <1>2, <1>5, <1>7, <2>1, Completed
  <1>9. ~r.lost /\ Stack(r.tags, r.data) /\ Faithful(r.data)
    <2>1. AreTags(tags)
      BY DEF ParserInv
    <2> HIDE DEF r
    <2>2. /\ Before(tags, c.left) /\ c.name \in Unlinked
          /\ (c.type = "closing" => c.name \notin P!Void)
      BY <1>7
    <2> QED  BY <1>2, <1>7, <1>8, <2>1, <2>2, RecordFaithful DEF r
  <1>10. P!Ends(s) /\ P!Ret(s) \in {P!Text, <<"link", "EMAIL">>}
    BY <1>3 DEF P!Ends, P!Ret
  <1>11. state' = P!Ret(s) /\ tags' = r.tags /\ data' = r.data /\ lost' = r.lost
    BY <1>4, <1>10 DEF P!Go
  <1>12. Fits(state', tmp', tags', data')
    BY <1>4, <1>10, <1>11 DEF Fits, P!Cleared
  <1> QED  BY <1>9, <1>11, <1>12 DEF Sound

(* The post has no link, image or e-mail address so far.                   *)
NoLinks == ToSet(Handed) \cap P!Linked = {}

(* The next lexeme, whatever the state.                                    *)
LEMMA ParseSound ==
    ASSUME LexInv, ParserInv, NoLinks, Sound, P!Parse
    PROVE  Sound'
  <1> DEFINE l == Handed[at + 1]
             d == Append(data, P!Lexeme(l))
             n == P!Noted(tmp, l, d)
             s == P!Parser(state, P!Kind(l))
  <1>1. IF s = P!Error THEN P!Recover(l, d) ELSE P!Accept(s, l, n, d)
    BY DEF P!Parse
  <1>2. l \in P!Lexemes \ P!Linked
    <2>1. Handed \in Seq(P!Lexemes) /\ at + 1 \in 1..Len(Handed)
      <3>1. Handed \in Seq(P!Lexemes) /\ Len(Handed) = Len(lexemes)
        BY HandedIs
      <3>2. at \in Nat /\ at < Len(Handed)
        BY DEF ParserInv, P!Parse
      <3> QED  BY <3>1, <3>2
    <2>2. l \in ToSet(Handed)
      BY <2>1 DEF ToSet
    <2> QED  BY <2>1, <2>2 DEF NoLinks
  <1> HIDE DEF l, d, n, s
  <1>3. /\ Len(data) \in Nat /\ Len(d) = Len(data) + 1
        /\ \A k \in 1..Len(data) : d[k] = data[k]
        /\ d[Len(data) + 1] = P!Lexeme(l)
        /\ Stack(tags, d) /\ Faithful(d) /\ Before(tags, Len(data))
        /\ \A b, f : Begun(data, b, f) => Begun(d, b, f)
        /\ Begun(d, Len(data), at + 1)
    BY <1>2, AllRead, Grown DEF ParserInv, Sound, d
  <1>4. P!Lexeme(l).kind = "text" /\ P!Lexeme(l).name = l
    BY DEF P!Lexeme
  <1>5. IsTag(tmp) /\ AreTags(tags)
    BY DEF ParserInv
  <1>6. /\ l \notin {"[", "]", "/"} => n = tmp
        /\ l = "[" => n.left = Len(data) /\ n.from = at + 1 /\ n.type = tmp.type
        /\ l = "/" => n.left = tmp.left /\ n.from = tmp.from /\ n.type = "closing"
    <2>1. Len(d) - 1 = Len(data)
      BY <1>3
    <2> QED  BY <1>5, <2>1 DEF n, P!Noted, IsTag
  <1>7. CASE s = P!Error
    BY <1>1, <1>2, <1>7, RecoverSound DEF d
  <1>8. ASSUME s # P!Error, s # P!Text, s[1] \notin {"found", "set", "ended", "break", "value", "link"},
               Fits(s, n, tags, d)
        PROVE  Sound'
    <2>1. tmp' = n /\ P!Go(s, tags, d)
      BY <1>1, <1>8 DEF P!Accept
    <2>2. ~P!Ends(s)
      BY <1>8 DEF P!Ends
    <2>3. state' = s /\ tags' = tags /\ data' = d /\ lost' = FALSE
      BY <2>1, <2>2, GoesOn
    <2> QED  BY <1>3, <1>8, <2>1, <2>3 DEF Sound
  <1>9. CASE state = P!Text /\ tmp.type = "opening" /\ s # P!Error
    <2>1. CASE l = "["
      <3>1. s = <<"open", "">>
        BY <1>2, <1>9, <2>1, FromText DEF s
      <3>2. n.left = Len(data) /\ n.from = at + 1 /\ n.type = "opening"
        BY <1>6, <1>9, <2>1
      <3>3. Fits(s, n, tags, d)
        BY <1>3, <2>1, <3>1, <3>2 DEF Fits
      <3> QED  BY <1>8, <1>9, <3>1, <3>3 DEF P!Text
    <2>2. CASE l # "["
      <3>1. s = P!Text
        BY <1>2, <1>9, <2>2, FromText DEF s
      <3>2. tmp' = P!Cleared /\ P!Go(s, tags, d)
        BY <1>1, <1>9, <3>1 DEF P!Accept, P!Text
      <3>3. ~P!Ends(s)
        BY <3>1 DEF P!Ends, P!Text
      <3>4. state' = s /\ tags' = tags /\ data' = d /\ lost' = FALSE
        BY <3>2, <3>3, GoesOn
      <3> QED  BY <1>3, <3>1, <3>2, <3>4 DEF Sound, Fits, P!Cleared
    <2> QED  BY <2>1, <2>2
  <1>10. CASE state = <<"link", "EMAIL">> /\ tmp.type = "opening" /\ s # P!Error
    <2>1. \/ l = "[" /\ s = <<"break", "EMAIL">>
          \/ l \notin {"[", "]", "/"} /\ s = <<"link", "EMAIL">>
      BY <1>2, <1>10, FromLink DEF s
    <2>2. CASE l = "[" /\ s = <<"break", "EMAIL">>
      <3> DEFINE r == P!Replacements(tags, d)
      <3>1. tmp' = n /\ P!Go(s, tags, d)
        BY <1>1, <1>10, <2>2 DEF P!Accept, P!Text
      <3>2. P!Ends(s) /\ P!Ret(s) = <<"open", "">>
        BY <2>2 DEF P!Ends, P!Ret
      <3>3. state' = <<"open", "">> /\ tags' = r.tags /\ data' = r.data /\ lost' = r.lost
        BY <3>1, <3>2 DEF P!Go
      <3>4. AreItems(d)
        BY <1>2, AllRead, Grown DEF ParserInv, Sound, d
      <3>5. /\ ~r.lost /\ r.data = d /\ Stack(r.tags, r.data) /\ Faithful(r.data)
            /\ Before(r.tags, Len(data))
        <4> HIDE DEF r
        <4> QED  BY <1>3, <1>5, <3>4, BreakFaithful DEF r
      <3>6. n.left = Len(data) /\ n.from = at + 1 /\ n.type = "opening"
        BY <1>6, <1>10, <2>2
      <3> HIDE DEF r
      <3>7. Fits(state', tmp', tags', data')
        BY <1>3, <2>2, <3>1, <3>3, <3>5, <3>6 DEF Fits
      <3> QED  BY <3>3, <3>5, <3>7 DEF Sound
    <2>3. CASE l \notin {"[", "]", "/"} /\ s = <<"link", "EMAIL">>
      <3>1. tmp' = P!Collected(n, "EMAIL", l) /\ P!Go(s, P!AddToBack(tags, "EMAIL", l), d)
        BY <1>1, <1>10, <2>3 DEF P!Accept, P!Text
      <3>2. P!AddToBack(tags, "EMAIL", l) = tags
        <4>1. \A k \in 1..Len(tags) : tags[k].name # "EMAIL"
          BY DEF Sound, Stack, Unlinked, P!Linked
        <4> QED  BY <1>5, <4>1, BackTyped
      <3>3. ~P!Ends(s)
        BY <2>3 DEF P!Ends
      <3>4. state' = s /\ tags' = tags /\ data' = d /\ lost' = FALSE
        BY <3>1, <3>2, <3>3, GoesOn
      <3>5. tmp'.type = "opening"
        <4>1. n = tmp
          BY <1>6, <2>3
        <4>2. \A a : [tmp EXCEPT !.attr = a].type = "opening"
          BY <1>5, <1>10 DEF IsTag
        <4> QED  BY <3>1, <4>1, <4>2 DEF P!Collected
      <3> QED  BY <1>3, <2>3, <3>4, <3>5 DEF Sound, Fits
    <2> QED  BY <2>1, <2>2, <2>3
  <1>11. CASE Begun(data, tmp.left, tmp.from) /\ Before(tags, tmp.left) /\ s # P!Error
    <2>0. /\ tmp.left \in Nat /\ tmp.left < Len(data)
          /\ Begun(d, tmp.left, tmp.from)
      BY <1>3, <1>11 DEF Begun
    <2>1. CASE state = <<"open", "">> /\ tmp.type = "opening" /\ Len(data) = tmp.left + 1
      <3>1. \/ l \in Unlinked /\ s = <<"name", l>>
            \/ l = "/" /\ s = <<"close", "">>
        BY <1>2, <1>11, <2>1, FromOpen DEF s
      <3>2. d[tmp.left + 2].name = l /\ Len(d) = tmp.left + 2
        <4>1. Len(data) = tmp.left + 1
          BY <2>1
        <4>2. tmp.left + 2 = Len(data) + 1
          BY <2>0, <4>1
        <4> QED  BY <1>3, <1>4, <4>2
      <3>3. CASE l \in Unlinked /\ s = <<"name", l>>
        <4>1. l \notin {"[", "]", "/"} /\ n = tmp
          BY <1>6, <3>3, SetsOfTags
        <4>2. NameRead(n, d, l)
          <5>1. NameAt(n) = tmp.left + 2 /\ n.type = "opening"
            BY <2>1, <4>1 DEF NameAt
          <5>2. NameAt(n) <= Len(d)
            BY <2>0, <3>2, <5>1
          <5> QED  BY <3>2, <4>1, <5>1, <5>2 DEF NameRead, Same
        <4>3. Fits(s, n, tags, d)
          BY <1>11, <2>0, <2>1, <3>3, <4>1, <4>2 DEF Fits
        <4> QED  BY <1>8, <1>11, <3>3, <4>3 DEF P!Text
      <3>4. CASE l = "/" /\ s = <<"close", "">>
        <4>1. n.left = tmp.left /\ n.from = tmp.from /\ n.type = "closing"
          BY <1>6, <3>4
        <4>2. Fits(s, n, tags, d)
          BY <1>11, <2>0, <3>2, <3>4, <4>1 DEF Fits
        <4> QED  BY <1>8, <1>11, <3>4, <4>2 DEF P!Text
      <3> QED  BY <3>1, <3>3, <3>4
    <2>2. CASE /\ state = <<"close", "">> /\ tmp.type = "closing"
               /\ Len(data) = tmp.left + 2 /\ data[tmp.left + 2].name = "/"
      <3>1. \/ l \in P!Plain /\ s = <<"name", l>>
            \/ l \in P!Valued \ P!Linked /\ s = <<"endname", l>>
        BY <1>2, <1>11, <2>2, FromClose DEF s
      <3>2. l \in Unlinked /\ l \notin {"[", "]", "/"} /\ n = tmp
        BY <1>6, <3>1, SetsOfTags
      <3>3. NameRead(n, d, l)
        <4>0. Len(data) = tmp.left + 2
          BY <2>2
        <4>1. tmp.left + 3 = Len(data) + 1 /\ tmp.left + 2 \in 1..Len(data)
          BY <2>0, <4>0
        <4>2. NameAt(n) = tmp.left + 3
          BY <2>2, <3>2 DEF NameAt
        <4>3. d[tmp.left + 2].name = "/" /\ d[tmp.left + 3].name = l
          BY <1>3, <1>4, <2>2, <4>1
        <4>4. n.type = "closing" /\ n.left = tmp.left /\ NameAt(n) <= Len(d)
          <5>1. NameAt(n) = Len(d) /\ Len(d) \in Nat
            BY <1>3, <4>1, <4>2
          <5>2. n.type = "closing" /\ n.left = tmp.left
            BY <2>2, <3>2
          <5> QED  BY <5>1, <5>2
        <4> QED  BY <4>2, <4>3, <4>4 DEF NameRead, Same
      <3>4. Fits(s, n, tags, d)
        BY <1>11, <2>0, <2>2, <3>1, <3>2, <3>3 DEF Fits
      <3>5. s # P!Text /\ s[1] \notin {"found", "set", "ended", "break", "value", "link"}
        <4>1. CASE s = <<"name", l>>
          BY <4>1 DEF P!Text
        <4>2. CASE s = <<"endname", l>>
          BY <4>2 DEF P!Text
        <4> QED  BY <3>1, <4>1, <4>2
      <3> QED  BY <1>8, <1>11, <3>4, <3>5
    <2>3. ASSUME NEW x \in Unlinked, state = <<"name", x>>, NameRead(tmp, data, x),
                 tmp.type = "closing" => x \in P!Plain
          PROVE  Sound'
      <3>1. \/ l \in {"]", "SP"} /\ s = <<"found", x>>
            \/ l = "=" /\ x \in P!Valued /\ s = <<"equals", x>>
            \/ /\ l = "SP" /\ \E y \in Unlinked :
                  /\ s = <<"name", y>> /\ \A w : Same(w, x) => Same(w, y)
                  /\ x \in P!Plain => y \in P!Plain
        BY <1>2, <1>11, <2>3, FromName DEF s
      <3>2. CASE l \in {"]", "SP"} /\ s = <<"found", x>>
        <4>1. tmp.type = "closing" => x \notin P!Void
          BY <2>3, SetsOfTags
        <4> QED  BY <1>1, <1>11, <2>3, <3>2, <4>1, RecordSound DEF d, n
      <3>3. CASE l # "]" /\ \E y \in Unlinked :
                  /\ \/ s = <<"name", y>> /\ l = "SP"
                     \/ s = <<"equals", y>> /\ l = "=" /\ y = x /\ x \in P!Valued
                  /\ \A w : Same(w, x) => Same(w, y)
                  /\ x \in P!Plain => y \in P!Plain
        <4>1. PICK y \in Unlinked :
                  /\ \/ s = <<"name", y>> /\ l = "SP"
                     \/ s = <<"equals", y>> /\ l = "=" /\ y = x /\ x \in P!Valued
                  /\ \A w : Same(w, x) => Same(w, y)
                  /\ x \in P!Plain => y \in P!Plain
          BY <3>3
        <4>2. l \notin {"[", "]", "/"} /\ n = tmp
          BY <1>6, <4>1
        <4>3. NameRead(tmp, d, x)
          BY <1>3, <1>5, <2>3, NameGrown
        <4>4. NameRead(n, d, y)
          BY <4>1, <4>2, <4>3 DEF NameRead
        <4>5. s = <<"equals", y>> => tmp.type = "opening" /\ y \in P!Valued
          <5>1. tmp.type \in {"opening", "closing"}
            BY <1>5 DEF IsTag
          <5>2. s = <<"equals", y>> => y = x /\ x \in P!Valued
            BY <4>1
          <5> QED  BY <2>3, <5>1, <5>2, SetsOfTags
        <4>6. Fits(s, n, tags, d)
          BY <1>11, <2>0, <2>3, <4>1, <4>2, <4>4, <4>5 DEF Fits
        <4>7. s # P!Text /\ s[1] \notin {"found", "set", "ended", "break", "value", "link"}
          <5>1. CASE s = <<"name", y>>
            BY <5>1 DEF P!Text
          <5>2. CASE s = <<"equals", y>>
            BY <5>2 DEF P!Text
          <5> QED  BY <4>1, <5>1, <5>2
        <4> QED  BY <1>8, <1>11, <4>6, <4>7
      <3>4. (l = "=" /\ x \in P!Valued /\ s = <<"equals", x>>) =>
              (\E y \in Unlinked :
                  /\ \/ s = <<"name", y>> /\ l = "SP"
                     \/ s = <<"equals", y>> /\ l = "=" /\ y = x /\ x \in P!Valued
                  /\ \A w : Same(w, x) => Same(w, y)
                  /\ x \in P!Plain => y \in P!Plain)
        BY <2>3
      <3>5. l \in {"=", "SP"} => l # "]"
        OBVIOUS
      <3> QED  BY <3>1, <3>2, <3>3, <3>4, <3>5
    <2>4. ASSUME NEW x \in Unlinked, state = <<"endname", x>>, NameRead(tmp, data, x),
                 tmp.type = "closing", x \in P!Valued
          PROVE  Sound'
      <3>0. x \in P!Valued \ P!Linked /\ x \notin P!Void
        BY <2>4, SetsOfTags DEF Unlinked
      <3>1. \/ l = "]" /\ s = <<"ended", x>>
            \/ l = "SP" /\ s = <<"endname", x>>
        BY <1>2, <1>11, <2>4, <3>0, FromEndName DEF s
      <3>2. CASE l = "]" /\ s = <<"ended", x>>
        BY <1>1, <1>11, <2>4, <3>0, <3>2, RecordSound DEF d, n
      <3>3. CASE l = "SP" /\ s = <<"endname", x>>
        <4>1. n = tmp /\ NameRead(n, d, x)
          BY <1>3, <1>5, <1>6, <2>4, <3>3, NameGrown
        <4>2. Fits(s, n, tags, d)
          BY <1>11, <2>0, <2>4, <3>3, <4>1 DEF Fits
        <4> QED  BY <1>8, <1>11, <3>3, <4>2 DEF P!Text
      <3> QED  BY <3>1, <3>2, <3>3
    <2>5. ASSUME NEW x \in Unlinked, state \in {<<"equals", x>>, <<"value", x>>},
                 NameRead(tmp, data, x), tmp.type = "opening", x \in P!Valued
          PROVE  Sound'
      <3>0. x \in P!Valued \ P!Linked
        BY <2>5 DEF Unlinked
      <3>1. \/ l = "]" /\ s \in {<<"found", x>>, <<"set", x>>}
            \/ l \notin {"[", "]", "/"} /\ s = <<"equals", x>>
            \/ l \notin {"[", "]", "/"} /\ s = <<"value", x>>
        <4>1. CASE state = <<"equals", x>>
          BY <1>2, <1>11, <3>0, <4>1, FromEquals DEF s
        <4>2. CASE state = <<"value", x>>
          BY <1>2, <1>11, <3>0, <4>2, FromValue DEF s
        <4> QED  BY <2>5, <4>1, <4>2
      <3>2. CASE l = "]" /\ s \in {<<"found", x>>, <<"set", x>>}
        BY <1>1, <1>11, <2>5, <3>2, RecordSound DEF d, n
      <3>3. CASE l \notin {"[", "]", "/"} /\ s = <<"equals", x>>
        <4>1. n = tmp /\ NameRead(n, d, x)
          BY <1>3, <1>5, <1>6, <2>5, <3>3, NameGrown
        <4>2. Fits(s, n, tags, d)
          BY <1>11, <2>0, <2>5, <3>3, <4>1 DEF Fits
        <4> QED  BY <1>8, <1>11, <3>3, <4>2 DEF P!Text
      <3>4. CASE l \notin {"[", "]", "/"} /\ s = <<"value", x>>
        <4>1. n = tmp /\ NameRead(tmp, d, x)
          BY <1>3, <1>5, <1>6, <2>5, <3>4, NameGrown
        <4>2. tmp' = P!Collected(n, x, l) /\ P!Go(s, tags, d)
          BY <1>1, <1>11, <3>4 DEF P!Accept, P!Text
        <4>3. state' = s /\ tags' = tags /\ data' = d /\ lost' = FALSE
          <5>1. ~P!Ends(s)
            BY <3>4 DEF P!Ends
          <5> QED  BY <4>2, <5>1, GoesOn
        <4>4. tmp'.left = tmp.left /\ tmp'.from = tmp.from /\ tmp'.type = tmp.type
          <5>1. \A a : /\ [tmp EXCEPT !.attr = a].from = tmp.from
                       /\ [tmp EXCEPT !.attr = a].left = tmp.left
                       /\ [tmp EXCEPT !.attr = a].type = tmp.type
            BY <1>5 DEF IsTag
          <5> QED  BY <4>1, <4>2, <5>1 DEF P!Collected
        <4>5. NameRead(tmp', d, x)
          BY <4>1, <4>4 DEF NameRead, NameAt
        <4>6. Fits(state', tmp', tags', data')
          BY <1>11, <2>0, <2>5, <3>4, <4>3, <4>4, <4>5 DEF Fits
        <4> QED  BY <1>3, <4>3, <4>6 DEF Sound
      <3> QED  BY <3>1, <3>2, <3>3, <3>4
    <2>6. Fits(state, tmp, tags, data)
      BY DEF Sound
    <2>7. CASE state \in {P!Text, <<"link", "EMAIL">>} /\ tmp.type = "opening"
      BY <1>9, <1>10, <1>11, <2>7
    <2> QED  BY <2>1, <2>2, <2>3, <2>4, <2>5, <2>6, <2>7 DEF Fits
  <1>12. Fits(state, tmp, tags, data)
    BY DEF Sound
  <1> QED  BY <1>7, <1>9, <1>10, <1>11, <1>12 DEF Fits

(* The lexer brings no link into a post that has none so far, or the post  *)
(* has one from then on.                                                   *)
LEMMA LinksStay ==
    ASSUME LexInv, [Next]_vars, NoLinks'
    PROVE  NoLinks
  <1>1. /\ LexInv' /\ Len(lexemes) <= Len(lexemes')
        /\ \A k \in 1..Len(lexemes) : lexemes'[k] = lexemes[k]
    <2>1. CASE L!Next
      BY <2>1, LexAdds
    <2>2. CASE UNCHANGED lexemes
      <3>1. Len(lexemes) \in Nat
        BY SeqIs DEF LexInv
      <3> QED  BY <2>2, <3>1 DEF LexInv
    <2> QED  BY <2>1, <2>2 DEF Next, Lex, Parse, vars, lexer
  <1>2. Len(lexemes) \in Nat /\ Len(lexemes') \in Nat /\ DOMAIN lexemes' = 1..Len(lexemes')
    BY <1>1, SeqIs DEF LexInv
  <1>3. /\ Handed \in Seq(P!Lexemes) /\ Len(Handed) = Len(lexemes)
        /\ \A k \in 1..Len(lexemes) :
              Handed[k] = IF lexemes[k].kind = "WORD" /\ Contains(lexemes[k].str, "w")
                          THEN "LONG" ELSE lexemes[k].kind
    BY HandedIs
  <1>4. ASSUME NEW k \in 1..Len(Handed) PROVE Handed[k] \notin P!Linked
    <2>1. k \in 1..Len(lexemes) /\ k \in 1..Len(lexemes')
      BY <1>1, <1>2, <1>3
    <2>2. Handed'[k] = Handed[k] /\ k \in DOMAIN Handed'
      BY <1>1, <1>2, <1>3, <2>1 DEF Handed
    <2>3. Handed'[k] \in ToSet(Handed')
      BY <2>2 DEF ToSet
    <2> QED  BY <2>2, <2>3 DEF NoLinks
  <1>5. DOMAIN Handed = 1..Len(Handed)
    BY <1>3
  <1> QED  BY <1>4, <1>5 DEF NoLinks, ToSet

(* Nothing is sound.                                                       *)
LEMMA SoundInit == Init => Sound
  <1> SUFFICES ASSUME Init PROVE Sound
    OBVIOUS
  <1>1. data = <<>> /\ tags = <<>> /\ state = P!Text /\ tmp = P!Cleared /\ lost = FALSE
    BY DEF Init, P!Init, P!Text
  <1>2. \A k : k \in 1..Len(<<>>) => FALSE
    OBVIOUS
  <1>3. Faithful(data) /\ Stack(tags, data)
    BY <1>1, <1>2 DEF Faithful, Stack
  <1>4. Fits(state, tmp, tags, data)
    BY <1>1 DEF Fits, P!Cleared
  <1> QED  BY <1>1, <1>3, <1>4 DEF Sound

(* Every step keeps a post without links sound.                            *)
LEMMA SoundNext ==
    ASSUME LexInv, ParserInv, NoLinks => Sound, [Next]_vars
    PROVE  (NoLinks => Sound)'
  <1> SUFFICES ASSUME NoLinks' PROVE Sound'
    OBVIOUS
  <1>1. NoLinks /\ Sound
    BY LinksStay
  <1>2. CASE Parse
    BY <1>1, <1>2, ParseSound DEF Parse
  <1>3. CASE UNCHANGED parser
    BY <1>1, <1>3 DEF parser, Sound
  <1> QED  BY <1>2, <1>3 DEF Next, Lex, vars

(* What is sound is as written.                                            *)
LEMMA SoundIs == ParserInv /\ Sound => P!AsWritten
  <1> SUFFICES ASSUME ParserInv, Sound PROVE P!AsWritten
    OBVIOUS
  <1>1. DOMAIN data = 1..Len(data)
    BY SeqIs DEF ParserInv, AreItems
  <1> QED  BY <1>1 DEF P!AsWritten, Sound, Faithful, Same

(* In a post without links and images every tag that is replaced is where  *)
(* it was found, and its HTML is that of the tag that was written.         *)
THEOREM FormattingStands == Spec => []FormattingAsWritten
  <1>1. Init => LexInv /\ ParserInv /\ (NoLinks => Sound)
    BY InvInit, SoundInit
  <1>2. LexInv /\ ParserInv /\ (NoLinks => Sound) /\ [Next]_vars
        => (LexInv /\ ParserInv /\ (NoLinks => Sound))'
    BY InvNext, SoundNext
  <1>3. LexInv /\ ParserInv /\ (NoLinks => Sound) => FormattingAsWritten
    BY SoundIs DEF FormattingAsWritten, NoLinks
  <1> QED  BY <1>1, <1>2, <1>3, PTL DEF Spec
=============================================================================
