------------------------ MODULE BBCodeNestingProofs ------------------------
(***************************************************************************)
(* The HTML of a post is well nested whatever its tags are: WellNested for *)
(* all posts (HtmlNests).  The argument is about positions: a tag keeps    *)
(* the positions it was found at while tags in front of it are replaced,   *)
(* so it is replaced only where nothing in front of it has been (see       *)
(* InPlace), and what is between the tags of a pair then closes what it    *)
(* opens.                                                                  *)
(***************************************************************************)
EXTENDS BBCodeProofs

-----------------------------------------------------------------------------
(* How many lexemes the first n items stand for; an item that is still to  *)
(* come is a lexeme.                                                       *)
Covered(d, n) == IF n <= Len(d) THEN Len(P!Source(SubSeq(d, 1, n)))
                 ELSE Len(P!Source(d)) + (n - Len(d))

(* Every item stands for something, and HTML has the name of a tag.        *)
Solid(d) == \A k \in 1..Len(d) :
               /\ d[k].src # <<>>
               /\ d[k].kind \in {"open", "close"} => d[k].name \in P!Tags

(* It is a number.                                                         *)
LEMMA CoveredNat ==
    ASSUME NEW d, AreItems(d), NEW n \in Nat
    PROVE  Covered(d, n) \in Nat
  <1>1. Len(d) \in Nat
    BY SeqIs DEF AreItems
  <1>2. ASSUME n <= Len(d) PROVE Len(P!Source(SubSeq(d, 1, n))) \in Nat
    <2>1. AreItems(SubSeq(d, 1, n))
      BY <1>2, ItemsPart
    <2> QED  BY <2>1, SourcesAre
  <1>3. Len(P!Source(d)) \in Nat
    BY SourcesAre
  <1> QED  BY <1>1, <1>2, <1>3 DEF Covered

(* All items stand for all the lexemes parsed.                             *)
LEMMA CoveredAll ==
    ASSUME NEW d, AreItems(d)
    PROVE  Covered(d, Len(d)) = Len(P!Source(d))
  <1>1. Len(d) \in Nat /\ SubSeq(d, 1, Len(d)) = d
    BY SeqIs, SubSeqFull DEF AreItems
  <1>2. Len(d) <= Len(d)
    BY <1>1
  <1> QED  BY <1>1, <1>2 DEF Covered

(* The source of two parts next to each other.                             *)
LEMMA PartsNext ==
    ASSUME NEW d, AreItems(d), NEW m \in Nat, NEW n \in Nat, m <= n, n <= Len(d)
    PROVE  /\ AreItems(SubSeq(d, m + 1, n)) /\ AreItems(SubSeq(d, 1, m))
           /\ P!Source(SubSeq(d, 1, n)) = P!Source(SubSeq(d, 1, m)) \o P!Source(SubSeq(d, m + 1, n))
           /\ Covered(d, n) = Covered(d, m) + Len(P!Source(SubSeq(d, m + 1, n)))
  <1>0. Len(d) \in Nat /\ d \in Seq({d[k] : k \in 1..Len(d)})
    BY SeqIs DEF AreItems
  <1>1. AreItems(SubSeq(d, m + 1, n)) /\ AreItems(SubSeq(d, 1, m))
    BY <1>0, ItemsPart
  <1>2. SubSeq(d, 1, m) \o SubSeq(d, m + 1, n) = SubSeq(d, 1, n)
    <2>1. m \in 1 - 1..Len(d) /\ n \in m..Len(d) /\ 1 \in 1..Len(d) + 1
      BY <1>0
    <2> QED  BY <1>0, <2>1, ConcatAdjacentSubSeq
  <1>3. P!Source(SubSeq(d, 1, n)) = P!Source(SubSeq(d, 1, m)) \o P!Source(SubSeq(d, m + 1, n))
    BY <1>1, <1>2, SourceConcat
  <1>4. Len(P!Source(SubSeq(d, 1, n)))
           = Len(P!Source(SubSeq(d, 1, m))) + Len(P!Source(SubSeq(d, m + 1, n)))
    <2>1. /\ P!Source(SubSeq(d, 1, m)) \in Seq(P!Lexemes)
          /\ P!Source(SubSeq(d, m + 1, n)) \in Seq(P!Lexemes)
      BY <1>1, SourcesAre
    <2> QED  BY <1>3, <2>1, ConcatProperties
  <1>5. m <= Len(d)
    BY <1>0
  <1> QED  BY <1>1, <1>3, <1>4, <1>5 DEF Covered

(* The next item adds the lexemes it stands for, one that is to come adds  *)
(* one.                                                                    *)
LEMMA CoveredStep ==
    ASSUME NEW d, AreItems(d), NEW n \in Nat
    PROVE  /\ n < Len(d) => Covered(d, n + 1) = Covered(d, n) + Len(d[n + 1].src)
           /\ n >= Len(d) => Covered(d, n + 1) = Covered(d, n) + 1
  <1>0. Len(d) \in Nat
    BY SeqIs DEF AreItems
  <1>1. CASE n < Len(d)
    <2>1. /\ Covered(d, n + 1) = Covered(d, n) + Len(P!Source(SubSeq(d, n + 1, n + 1)))
          /\ AreItems(SubSeq(d, n + 1, n + 1))
      <3>1. n + 1 \in Nat /\ n <= n + 1 /\ n + 1 <= Len(d)
        BY <1>0, <1>1
      <3> QED  BY <3>1, PartsNext
    <2>2. SubSeq(d, n + 1, n + 1) = <<d[n + 1]>>
      <3> DEFINE s == SubSeq(d, n + 1, n + 1)
      <3>1. IsSeq(s) /\ Len(s) = 1 /\ s[1] = d[n + 1]
        <4>1. /\ IsSeq(s)
              /\ Len(s) = IF n + 1 <= n + 1 THEN n + 1 - (n + 1) + 1 ELSE 0
              /\ \A k \in 1..(n + 1 - (n + 1) + 1) : s[k] = d[n + 1 + k - 1]
          BY <1>0, <1>1, SeqPart DEF AreItems
        <4>2. n + 1 - (n + 1) + 1 = 1 /\ n + 1 + 1 - 1 = n + 1 /\ n + 1 <= n + 1
          OBVIOUS
        <4> HIDE DEF s
        <4> QED  BY <4>1, <4>2
      <3> HIDE DEF s
      <3>2. s \in Seq({s[k] : k \in 1..Len(s)})
        BY <3>1, SeqIs
      <3>3. s = <<s[1]>>
        BY <3>1, <3>2
      <3> QED  BY <3>1, <3>3 DEF s
    <2>3. IsItem(d[n + 1])
      BY <1>0, <1>1 DEF AreItems
    <2>4. P!Source(<<d[n + 1]>>) = d[n + 1].src
      BY <2>3, ItemOne
    <2>5. Covered(d, n + 1) = Covered(d, n) + Len(d[n + 1].src)
      BY <2>1, <2>2, <2>4
    <2>6. ~(n >= Len(d))
      BY <1>0, <1>1
    <2> QED  BY <2>5, <2>6
  <1>2. CASE n = Len(d)
    <2>1. Covered(d, n) = Len(P!Source(d))
      BY <1>2, CoveredAll
    <2>2. Covered(d, n + 1) = Len(P!Source(d)) + (n + 1 - Len(d))
      BY <1>0, <1>2 DEF Covered
    <2>3. Len(P!Source(d)) \in Nat /\ n + 1 - Len(d) = 1
      BY <1>0, <1>2, SourcesAre
    <2>4. ~(n < Len(d))
      BY <1>0, <1>2
    <2> QED  BY <2>1, <2>2, <2>3, <2>4
  <1>3. CASE n > Len(d)
    <2>1. /\ Covered(d, n) = Len(P!Source(d)) + (n - Len(d))
          /\ Covered(d, n + 1) = Len(P!Source(d)) + (n + 1 - Len(d))
      BY <1>0, <1>3 DEF Covered
    <2>2. Len(P!Source(d)) \in Nat
      BY SourcesAre
    <2>3. Covered(d, n + 1) = Covered(d, n) + 1
      BY <1>0, <1>3, <2>1, <2>2
    <2>4. ~(n < Len(d))
      BY <1>0, <1>3
    <2> QED  BY <2>3, <2>4
  <1> QED  BY <1>0, <1>1, <1>2, <1>3

(* Every item counts, so a later position stands for more.                 *)
LEMMA CoveredGrows ==
    ASSUME NEW d, AreItems(d), Solid(d), NEW m \in Nat, NEW n \in Nat, m < n
    PROVE  Covered(d, m) < Covered(d, n)
  <1> DEFINE D == {k \in Nat : Covered(d, m) < Covered(d, m + k + 1)}
  <1>0. ASSUME NEW k \in Nat PROVE Covered(d, k) < Covered(d, k + 1)
    <2>1. Covered(d, k) \in Nat /\ Covered(d, k + 1) \in Nat /\ Len(d) \in Nat
      BY CoveredNat, SeqIs DEF AreItems
    <2>2. CASE k < Len(d)
      <3>1. k + 1 \in 1..Len(d)
        BY <2>1, <2>2
      <3>2. d[k + 1].src \in Seq(P!Lexemes) /\ d[k + 1].src # <<>>
        BY <3>1 DEF AreItems, IsItem, Solid
      <3>3. Len(d[k + 1].src) \in Nat \ {0}
        BY <3>2, EmptySeq
      <3> QED  BY <2>1, <2>2, <3>3, CoveredStep
    <2>3. CASE k >= Len(d)
      BY <2>1, <2>3, CoveredStep
    <2> QED  BY <2>1, <2>2, <2>3
  <1>1. 0 \in D
    BY <1>0
  <1>2. ASSUME NEW k \in Nat, k \in D PROVE k + 1 \in D
    <2>1. m + k + 1 \in Nat /\ m + (k + 1) + 1 = m + k + 1 + 1 /\ m + (k + 1) + 1 \in Nat
      OBVIOUS
    <2>2. Covered(d, m + k + 1) < Covered(d, m + k + 1 + 1)
      BY <1>0, <2>1
    <2>3. Covered(d, m) \in Nat /\ Covered(d, m + k + 1) \in Nat /\ Covered(d, m + (k + 1) + 1) \in Nat
      BY <2>1, CoveredNat
    <2>4. Covered(d, m) < Covered(d, m + k + 1)
      BY <1>2
    <2> QED  BY <2>1, <2>2, <2>3, <2>4
  <1> HIDE DEF D
  <1>3. n - m - 1 \in D
    <2>1. n - m - 1 \in Nat
      OBVIOUS
    <2>2. \A k \in Nat : k \in D
      BY <1>1, <1>2, SetInduction
    <2> QED  BY <2>1, <2>2
  <1>4. m + (n - m - 1) + 1 = n
    OBVIOUS
  <1> QED  BY <1>3, <1>4 DEF D

(* It depends on the items before the position alone.                      *)
LEMMA CoveredPrefix ==
    ASSUME NEW d, AreItems(d), NEW e, AreItems(e), NEW n \in Nat, n <= Len(d), n <= Len(e),
           \A k \in 1..n : e[k] = d[k]
    PROVE  Covered(e, n) = Covered(d, n)
  <1>1. SubSeq(e, 1, n) = SubSeq(d, 1, n)
    BY SamePrefix DEF AreItems
  <1> QED  BY <1>1 DEF Covered

(* A lexeme more changes nothing.                                          *)
LEMMA CoveredAppend ==
    ASSUME AreItems(data), NEW l \in P!Lexemes, NEW d, d = Append(data, P!Lexeme(l)), NEW n \in Nat
    PROVE  Covered(d, n) = Covered(data, n)
  <1>1. /\ AreItems(d) /\ P!Source(d) = P!Source(data) \o <<l>>
        /\ Len(data) \in Nat /\ Len(d) = Len(data) + 1
        /\ \A k \in 1..Len(data) : d[k] = data[k]
    BY WithLexeme
  <1>2. Len(P!Source(d)) = Len(P!Source(data)) + 1 /\ Len(P!Source(data)) \in Nat
    <2>1. P!Source(data) \in Seq(P!Lexemes) /\ <<l>> \in Seq(P!Lexemes) /\ Len(<<l>>) = 1
      BY SourcesAre
    <2>2. Len(P!Source(data) \o <<l>>) = Len(P!Source(data)) + Len(<<l>>)
      BY <2>1, ConcatProperties
    <2> QED  BY <1>1, <2>1, <2>2
  <1>3. CASE n <= Len(data)
    <2>1. n <= Len(d) /\ \A k \in 1..n : d[k] = data[k]
      BY <1>1, <1>3
    <2> QED  BY <1>1, <1>3, <2>1, CoveredPrefix
  <1>4. CASE n = Len(d)
    <2>1. Covered(d, n) = Len(P!Source(d))
      BY <1>1, <1>4, CoveredAll
    <2>2. Covered(data, n) = Len(P!Source(data)) + (n - Len(data))
      BY <1>1, <1>4 DEF Covered
    <2>3. n - Len(data) = 1
      BY <1>1, <1>4
    <2> QED  BY <1>2, <2>1, <2>2, <2>3
  <1>5. CASE n > Len(d)
    <2>1. /\ Covered(d, n) = Len(P!Source(d)) + (n - Len(d))
          /\ Covered(data, n) = Len(P!Source(data)) + (n - Len(data))
      BY <1>1, <1>5 DEF Covered
    <2> QED  BY <1>1, <1>2, <2>1
  <1> QED  BY <1>1, <1>3, <1>4, <1>5

(* A range of text stands for as many lexemes as it has items.             *)
LEMMA CoveredText ==
    ASSUME NEW d, AreItems(d), NEW t, IsTag(t), P!InPlace(d, t)
    PROVE  Covered(d, t.right) = Covered(d, t.left) + (t.right - t.left)
  <1>1. t.left \in Nat /\ t.right \in Nat /\ t.left <= t.right /\ t.right <= Len(d)
    BY ReplacedIs
  <1>2. Len(P!Source(SubSeq(d, t.left + 1, t.right))) = t.right - t.left
    BY ErasedIs DEF P!Erased
  <1> QED  BY <1>1, <1>2, PartsNext

(* Replacing a tag moves what is behind it to the front.                   *)
LEMMA CoveredReplaced ==
    ASSUME NEW d, AreItems(d), NEW t, IsTag(t), P!InPlace(d, t), NEW e, e = P!Replaced(d, t),
           NEW n \in Nat
    PROVE  /\ n <= t.left => Covered(e, n) = Covered(d, n)
           /\ n > t.left => Covered(e, n) = Covered(d, n + (t.right - t.left - 1))
  <1> DEFINE w == t.right - t.left - 1
             s == P!Erased(d, t)
             D == {k \in Nat : Covered(e, t.left + 1 + k) = Covered(d, t.right + k)}
  <1>1. /\ t.left \in Nat /\ t.right \in Nat /\ t.left < t.right /\ t.right <= Len(d)
        /\ AreItems(e) /\ Len(e) = t.left + 1 + (Len(d) - t.right) /\ Len(d) \in Nat
        /\ \A k \in 1..t.left : e[k] = d[k]
        /\ P!Html(t, s) = <<e[t.left + 1]>>
        /\ \A k \in 1..(Len(d) - t.right) : e[t.left + 1 + k] = d[t.right + k]
    BY ReplacedIs, SeqIs DEF AreItems
  <1> HIDE DEF w, s
  <1>2. ASSUME NEW m \in Nat, m <= t.left PROVE Covered(e, m) = Covered(d, m)
    <2>1. m <= Len(d) /\ m <= Len(e) /\ \A k \in 1..m : e[k] = d[k]
      BY <1>1, <1>2
    <2> QED  BY <1>1, <2>1, CoveredPrefix
  <1>3. 0 \in D
    <2>1. t.left < Len(e) /\ t.left <= t.left /\ t.left <= t.right
      BY <1>1
    <2>2. Covered(e, t.left + 1) = Covered(e, t.left) + Len(e[t.left + 1].src)
      BY <1>1, <2>1, CoveredStep
    <2>3. e[t.left + 1].src = s /\ s = P!Source(SubSeq(d, t.left + 1, t.right))
      <3>1. s \in Seq(P!Lexemes)
        BY ErasedIs DEF s
      <3>2. PICK g : P!Html(t, s) = <<g>> /\ g.src = s
        BY <3>1, HtmlIs
      <3>3. <<e[t.left + 1]>> = <<g>> => e[t.left + 1] = g
        OBVIOUS
      <3> QED  BY <1>1, <3>2, <3>3 DEF s, P!Erased
    <2>4. Covered(d, t.right) = Covered(d, t.left) + Len(s)
      BY <1>1, <2>1, <2>3, PartsNext
    <2>5. Covered(e, t.left) = Covered(d, t.left)
      BY <1>1, <1>2, <2>1
    <2>6. t.left + 1 + 0 = t.left + 1 /\ t.right + 0 = t.right
      BY <1>1
    <2> QED  BY <2>2, <2>3, <2>4, <2>5, <2>6
  <1>4. ASSUME NEW k \in Nat, k \in D PROVE k + 1 \in D
    <2> DEFINE i0 == t.left + 1 + k
               j0 == t.right + k
    <2>1. i0 \in Nat /\ j0 \in Nat /\ i0 + 1 = t.left + 1 + (k + 1) /\ j0 + 1 = t.right + (k + 1)
      <3>1. t.left \in Nat /\ t.right \in Nat
        BY <1>1
      <3> QED  BY <3>1
    <2>2. Covered(e, i0) = Covered(d, j0)
      BY <1>4
    <2>3. i0 < Len(e) <=> j0 < Len(d)
      BY <1>1
    <2>4. j0 < Len(d) => e[i0 + 1] = d[j0 + 1]
      <3>1. j0 < Len(d) => k + 1 \in 1..(Len(d) - t.right)
        BY <1>1
      <3> HIDE DEF i0, j0
      <3> QED  BY <1>1, <2>1, <3>1
    <2>5. i0 >= Len(e) <=> ~(i0 < Len(e))
      BY <1>1
    <2>6. j0 >= Len(d) <=> ~(j0 < Len(d))
      BY <1>1
    <2> HIDE DEF i0, j0
    <2>7. Covered(e, i0 + 1) = Covered(d, j0 + 1)
      <3>1. /\ i0 < Len(e) => Covered(e, i0 + 1) = Covered(e, i0) + Len(e[i0 + 1].src)
            /\ i0 >= Len(e) => Covered(e, i0 + 1) = Covered(e, i0) + 1
        BY <1>1, <2>1, CoveredStep
      <3>2. /\ j0 < Len(d) => Covered(d, j0 + 1) = Covered(d, j0) + Len(d[j0 + 1].src)
            /\ j0 >= Len(d) => Covered(d, j0 + 1) = Covered(d, j0) + 1
        BY <2>1, CoveredStep
      <3> QED  BY <2>2, <2>3, <2>4, <2>5, <2>6, <3>1, <3>2
    <2> QED  BY <2>1, <2>7
  <1> HIDE DEF D
  <1>5. \A k \in Nat : k \in D
    BY <1>3, <1>4, SetInduction
  <1>6. ASSUME n > t.left PROVE Covered(e, n) = Covered(d, n + w)
    <2>1. n - (t.left + 1) \in Nat
      BY <1>1, <1>6
    <2>2. t.left + 1 + (n - (t.left + 1)) = n /\ t.right + (n - (t.left + 1)) = n + w
      <3>1. t.left \in Nat /\ t.right \in Nat
        BY <1>1
      <3> QED  BY <3>1 DEF w
    <2>3. n - (t.left + 1) \in D
      BY <1>5, <2>1
    <2> QED  BY <2>2, <2>3 DEF D
  <1> QED  BY <1>2, <1>6 DEF w

(* So a position does not stand for less, and one behind the tag for more. *)
LEMMA CoveredMore ==
    ASSUME NEW d, AreItems(d), Solid(d), NEW t, IsTag(t), P!InPlace(d, t), t.left + 1 < t.right,
           NEW n \in Nat
    PROVE  /\ Covered(P!Replaced(d, t), n) >= Covered(d, n)
           /\ n > t.left => Covered(P!Replaced(d, t), n) > Covered(d, n)
  <1>1. t.left \in Nat /\ t.right \in Nat /\ Covered(d, n) \in Nat
    BY CoveredNat DEF IsTag
  <1>2. CASE n <= t.left
    BY <1>1, <1>2, CoveredReplaced
  <1>3. CASE n > t.left
    <2> DEFINE m == n + (t.right - t.left - 1)
    <2>1. m \in Nat /\ n < m
      BY <1>1
    <2>2. Covered(P!Replaced(d, t), n) = Covered(d, m)
      BY <1>3, CoveredReplaced
    <2> HIDE DEF m
    <2>3. Covered(d, n) < Covered(d, m) /\ Covered(d, m) \in Nat
      BY <2>1, CoveredGrows, CoveredNat
    <2> QED  BY <1>1, <2>2, <2>3
  <1> QED  BY <1>1, <1>2, <1>3

-----------------------------------------------------------------------------
(* The names of the tags that are open, or that one was closed that is not *)
(* the last of them.                                                       *)
Stacks == Seq(P!Tags) \cup {<<"broken">>}

(* g has those after each item from a + 1 to b, and those before them.     *)
Turns(g, d, a, b) == /\ g \in [a..b -> Stacks]
                     /\ \A k \in a + 1..b : g[k] = P!Nest(g[k - 1], d[k])

(* The items from a + 1 to b close what they open, whatever is open.       *)
Neutral(d, a, b) == \A g : Turns(g, d, a, b) => g[b] = g[a]

(* What is open stays a stack of tags, or broken.                          *)
LEMMA NestIs ==
    ASSUME NEW s \in Stacks, NEW it, it.kind \in {"open", "close"} => it.name \in P!Tags
    PROVE  P!Nest(s, it) \in Stacks
  <1>1. <<"broken">> \in Stacks
    BY DEF Stacks
  <1>2. CASE s = <<"broken">> \/ it.kind \notin {"open", "close"}
    BY <1>2 DEF P!Nest
  <1>3. CASE ~(s = <<"broken">> \/ it.kind \notin {"open", "close"})
    <2>1. s \in Seq(P!Tags) /\ it.name \in P!Tags
      BY <1>3 DEF Stacks
    <2>2. CASE it.kind = "open"
      <3>1. Append(s, it.name) \in Seq(P!Tags)
        BY <2>1
      <3> QED  BY <1>3, <2>2, <3>1 DEF P!Nest, Stacks
    <2>3. CASE it.kind # "open" /\ s # <<>> /\ P!Last(s) = it.name
      <3>1. Len(s) \in Nat \ {0}
        BY <2>1, <2>3, EmptySeq
      <3>2. \A k \in 1..Len(s) - 1 : s[k] \in P!Tags
        BY <2>1
      <3>3. SubSeq(s, 1, Len(s) - 1) \in Seq(P!Tags)
        BY <2>1, <3>1, <3>2, SubSeqProperties
      <3> QED  BY <1>3, <2>3, <3>3 DEF P!Nest, P!Front, Stacks
    <2>4. CASE it.kind # "open" /\ ~(s # <<>> /\ P!Last(s) = it.name)
      BY <1>1, <1>3, <2>4 DEF P!Nest
    <2> QED  BY <2>2, <2>3, <2>4
  <1> QED  BY <1>2, <1>3

(* From any stack on.                                                      *)
LEMMA TurnsExist ==
    ASSUME NEW d, Solid(d), NEW a \in Nat, NEW b \in Nat, a <= b, b <= Len(d), Len(d) \in Nat,
           NEW s \in Stacks
    PROVE  \E g : Turns(g, d, a, b) /\ g[a] = s
  <1> DEFINE D == {n \in Nat : a + n <= Len(d) => \E g : Turns(g, d, a, a + n) /\ g[a] = s}
  <1>1. 0 \in D
    <2> DEFINE g == [k \in a..a |-> s]
    <2>1. Turns(g, d, a, a) /\ g[a] = s
      <3>1. g \in [a..a -> Stacks] /\ g[a] = s /\ a + 1..a = {}
        OBVIOUS
      <3> QED  BY <3>1 DEF Turns
    <2> HIDE DEF g
    <2>2. a + 0 = a
      OBVIOUS
    <2> QED  BY <2>1, <2>2
  <1>2. ASSUME NEW n \in Nat, n \in D PROVE n + 1 \in D
    <2>1. SUFFICES ASSUME a + (n + 1) <= Len(d)
                   PROVE  \E g : Turns(g, d, a, a + (n + 1)) /\ g[a] = s
      OBVIOUS
    <2> DEFINE m == a + n
    <2>2. m \in Nat /\ a + (n + 1) = m + 1 /\ m <= Len(d) /\ a <= m /\ m + 1 \in 1..Len(d)
      BY <2>1
    <2>3. PICK g : Turns(g, d, a, m) /\ g[a] = s
      BY <1>2, <2>2
    <2> HIDE DEF m
    <2> DEFINE h == [k \in a..m + 1 |-> IF k = m + 1 THEN P!Nest(g[m], d[m + 1]) ELSE g[k]]
    <2>4. g \in [a..m -> Stacks] /\ \A k \in a + 1..m : g[k] = P!Nest(g[k - 1], d[k])
      BY <2>3 DEF Turns
    <2>5. P!Nest(g[m], d[m + 1]) \in Stacks
      <3>1. g[m] \in Stacks
        BY <2>2, <2>4
      <3>2. d[m + 1].kind \in {"open", "close"} => d[m + 1].name \in P!Tags
        BY <2>2 DEF Solid
      <3> QED  BY <3>1, <3>2, NestIs
    <2>6. h \in [a..m + 1 -> Stacks]
      <3>1. ASSUME NEW k \in a..m + 1, k # m + 1 PROVE g[k] \in Stacks
        <4>1. k \in a..m
          BY <2>2, <3>1
        <4> QED  BY <2>4, <4>1
      <3> QED  BY <2>5, <3>1
    <2>7. ASSUME NEW k \in a + 1..m + 1 PROVE h[k] = P!Nest(h[k - 1], d[k])
      <3>1. k \in a..m + 1 /\ k - 1 \in a..m + 1 /\ k - 1 # m + 1
        BY <2>2
      <3>2. h[k - 1] = g[k - 1]
        BY <3>1
      <3>3. CASE k = m + 1
        <4>1. k - 1 = m
          BY <2>2, <3>3
        <4>2. h[k] = P!Nest(g[m], d[m + 1])
          BY <3>1, <3>3
        <4> HIDE DEF h
        <4> QED  BY <3>2, <3>3, <4>1, <4>2
      <3>4. CASE k # m + 1
        <4>1. k \in a + 1..m
          BY <2>2, <3>4
        <4>2. h[k] = g[k]
          BY <3>1, <3>4
        <4> HIDE DEF h
        <4> QED  BY <2>4, <3>2, <4>1, <4>2
      <3> QED  BY <3>3, <3>4
    <2>8. h[a] = s
      <3>1. a \in a..m + 1 /\ a # m + 1
        BY <2>2
      <3> QED  BY <2>3, <3>1
    <2> HIDE DEF h
    <2> QED  BY <2>2, <2>6, <2>7, <2>8 DEF Turns
  <1> HIDE DEF D
  <1>3. b - a \in Nat /\ a + (b - a) = b
    OBVIOUS
  <1>4. \A n \in Nat : n \in D
    BY <1>1, <1>2, SetInduction
  <1> QED  BY <1>3, <1>4 DEF D

(* A part of such a row of stacks is one for the part.                     *)
LEMMA TurnsPart ==
    ASSUME NEW d, NEW a \in Nat, NEW b \in Nat, NEW g, Turns(g, d, a, b),
           NEW m \in Nat, NEW n \in Nat, a <= m, m <= n, n <= b
    PROVE  Turns([k \in m..n |-> g[k]], d, m, n)
  <1>1. \A k \in m..n : k \in a..b
    OBVIOUS
  <1>2. \A k \in m + 1..n : k \in a + 1..b /\ k \in m..n /\ k - 1 \in m..n
    OBVIOUS
  <1> QED  BY <1>1, <1>2 DEF Turns

(* Two parts, one after the other.                                         *)
LEMMA TurnsJoined ==
    ASSUME NEW d, NEW a \in Nat, NEW m \in Nat, NEW b \in Nat, a <= m, m <= b,
           NEW g, Turns(g, d, a, m), NEW h, Turns(h, d, m, b), h[m] = g[m]
    PROVE  \E f : Turns(f, d, a, b) /\ f[a] = g[a] /\ f[m] = g[m] /\ f[b] = h[b]
  <1> DEFINE f == [k \in a..b |-> IF k <= m THEN g[k] ELSE h[k]]
  <1>1. f \in [a..b -> Stacks]
    <2>1. \A k \in a..b : IF k <= m THEN k \in a..m ELSE k \in m..b
      OBVIOUS
    <2> QED  BY <2>1 DEF Turns
  <1>2. ASSUME NEW k \in a + 1..b PROVE f[k] = P!Nest(f[k - 1], d[k])
    <2>1. k \in a..b /\ k - 1 \in a..b
      OBVIOUS
    <2>2. CASE k <= m
      <3>1. k \in a + 1..m /\ k - 1 <= m
        BY <2>2
      <3>2. f[k] = g[k] /\ f[k - 1] = g[k - 1]
        BY <2>1, <2>2, <3>1
      <3> HIDE DEF f
      <3> QED  BY <3>1, <3>2 DEF Turns
    <2>3. CASE ~(k <= m)
      <3>1. k \in m + 1..b
        BY <2>3
      <3>2. f[k] = h[k]
        BY <2>1, <2>3
      <3>3. f[k - 1] = h[k - 1]
        <4>1. CASE k - 1 <= m
          <5>1. k - 1 = m
            BY <2>3, <4>1
          <5> QED  BY <2>1, <4>1, <5>1
        <4>2. CASE ~(k - 1 <= m)
          BY <2>1, <4>2
        <4> QED  BY <4>1, <4>2
      <3> HIDE DEF f
      <3> QED  BY <3>1, <3>2, <3>3 DEF Turns
    <2> QED  BY <2>2, <2>3
  <1>3. f[a] = g[a] /\ f[m] = g[m]
    OBVIOUS
  <1>4. f[b] = h[b]
    <2>1. CASE b <= m
      <3>1. b = m
        BY <2>1
      <3> QED  BY <1>3, <3>1
    <2>2. CASE ~(b <= m)
      BY <2>2
    <2> QED  BY <2>1, <2>2
  <1> HIDE DEF f
  <1> QED  BY <1>1, <1>2, <1>3, <1>4 DEF Turns

(* Of three such ranges, two make the third.                               *)
LEMMA NeutralJoin ==
    ASSUME NEW d, NEW a \in Nat, NEW m \in Nat, NEW b \in Nat, a <= m, m <= b,
           Neutral(d, a, m), Neutral(d, m, b)
    PROVE  Neutral(d, a, b)
  <1> SUFFICES ASSUME NEW g, Turns(g, d, a, b) PROVE g[b] = g[a]
    BY DEF Neutral
  <1> DEFINE p == [k \in a..m |-> g[k]]
             q == [k \in m..b |-> g[k]]
  <1>1. Turns(p, d, a, m) /\ Turns(q, d, m, b)
    <2>1. a <= a /\ b <= b
      OBVIOUS
    <2> QED  BY <2>1, TurnsPart
  <1>2. p[a] = g[a] /\ p[m] = g[m] /\ q[m] = g[m] /\ q[b] = g[b]
    OBVIOUS
  <1> HIDE DEF p, q
  <1>3. p[m] = p[a] /\ q[b] = q[m]
    BY <1>1 DEF Neutral
  <1> QED  BY <1>2, <1>3

(* The front of a range that closes what it opens does so if the rest      *)
(* does.                                                                   *)
LEMMA NeutralFront ==
    ASSUME NEW d, Solid(d), Len(d) \in Nat, NEW a \in Nat, NEW m \in Nat, NEW b \in Nat,
           a <= m, m <= b, b <= Len(d), Neutral(d, a, b), Neutral(d, m, b)
    PROVE  Neutral(d, a, m)
  <1> SUFFICES ASSUME NEW g, Turns(g, d, a, m) PROVE g[m] = g[a]
    BY DEF Neutral
  <1>1. g[m] \in Stacks
    BY DEF Turns
  <1>2. PICK h : Turns(h, d, m, b) /\ h[m] = g[m]
    BY <1>1, TurnsExist
  <1>3. PICK f : Turns(f, d, a, b) /\ f[a] = g[a] /\ f[m] = g[m] /\ f[b] = h[b]
    BY <1>2, TurnsJoined
  <1>4. f[b] = f[a] /\ h[b] = h[m]
    BY <1>2, <1>3 DEF Neutral
  <1> QED  BY <1>2, <1>3, <1>4

(* So does the rest if the front does.                                     *)
LEMMA NeutralBack ==
    ASSUME NEW d, Solid(d), Len(d) \in Nat, NEW a \in Nat, NEW m \in Nat, NEW b \in Nat,
           a <= m, m <= b, b <= Len(d), Neutral(d, a, b), Neutral(d, a, m)
    PROVE  Neutral(d, m, b)
  <1> SUFFICES ASSUME NEW h, Turns(h, d, m, b) PROVE h[b] = h[m]
    BY DEF Neutral
  <1>1. h[m] \in Stacks
    BY DEF Turns
  <1>2. PICK g : Turns(g, d, a, m) /\ g[a] = h[m]
    <2>1. m <= Len(d)
      OBVIOUS
    <2> QED  BY <1>1, <2>1, TurnsExist
  <1>3. g[m] = g[a]
    BY <1>2 DEF Neutral
  <1>4. h[m] = g[m]
    BY <1>2, <1>3
  <1>5. PICK f : Turns(f, d, a, b) /\ f[a] = g[a] /\ f[m] = g[m] /\ f[b] = h[b]
    BY <1>2, <1>4, TurnsJoined
  <1>6. f[b] = f[a]
    BY <1>5 DEF Neutral
  <1> QED  BY <1>2, <1>5, <1>6

(* What neither opens nor closes.                                          *)
LEMMA NeutralFlat ==
    ASSUME NEW d, NEW a \in Nat, NEW b \in Nat, a <= b,
           \A k \in a + 1..b : d[k].kind \notin {"open", "close"}
    PROVE  Neutral(d, a, b)
  <1> SUFFICES ASSUME NEW g, Turns(g, d, a, b) PROVE g[b] = g[a]
    BY DEF Neutral
  <1> DEFINE D == {n \in Nat : a + n <= b => g[a + n] = g[a]}
  <1>1. 0 \in D
    OBVIOUS
  <1>2. ASSUME NEW n \in Nat, n \in D PROVE n + 1 \in D
    <2>1. SUFFICES ASSUME a + (n + 1) <= b PROVE g[a + (n + 1)] = g[a]
      OBVIOUS
    <2>2. a + (n + 1) \in a + 1..b /\ a + (n + 1) - 1 = a + n /\ a + n <= b
      BY <2>1
    <2>3. g[a + (n + 1)] = P!Nest(g[a + n], d[a + (n + 1)])
      BY <2>2 DEF Turns
    <2>4. g[a + n] = g[a]
      BY <1>2, <2>2
    <2> QED  BY <2>2, <2>3, <2>4 DEF P!Nest
  <1> HIDE DEF D
  <1>3. \A n \in Nat : n \in D
    BY <1>1, <1>2, SetInduction
  <1>4. b - a \in Nat /\ a + (b - a) = b /\ b <= b
    OBVIOUS
  <1> QED  BY <1>3, <1>4 DEF D

(* The same items elsewhere.                                               *)
LEMMA NeutralMoved ==
    ASSUME NEW d, NEW a \in Nat, NEW n \in Nat, Neutral(d, a, a + n),
           NEW e, NEW j \in Nat, \A k \in 1..n : e[j + k] = d[a + k]
    PROVE  Neutral(e, j, j + n)
  <1> SUFFICES ASSUME NEW g, Turns(g, e, j, j + n) PROVE g[j + n] = g[j]
    BY DEF Neutral
  <1> DEFINE f == [k \in a..a + n |-> g[j + (k - a)]]
  <1>1. f \in [a..a + n -> Stacks]
    <2>1. \A k \in a..a + n : j + (k - a) \in j..j + n
      OBVIOUS
    <2> QED  BY <2>1 DEF Turns
  <1>2. ASSUME NEW k \in a + 1..a + n PROVE f[k] = P!Nest(f[k - 1], d[k])
    <2> DEFINE i0 == k - a
    <2>1. /\ i0 \in 1..n /\ k = a + i0 /\ k \in a..a + n /\ k - 1 \in a..a + n
          /\ j + i0 \in j + 1..j + n /\ j + (k - 1 - a) = j + i0 - 1
      OBVIOUS
    <2>2. f[k] = g[j + i0] /\ f[k - 1] = g[j + i0 - 1]
      BY <2>1
    <2> HIDE DEF f, i0
    <2>3. g[j + i0] = P!Nest(g[j + i0 - 1], e[j + i0])
      BY <2>1 DEF Turns
    <2>4. e[j + i0] = d[k]
      BY <2>1
    <2> QED  BY <2>2, <2>3, <2>4
  <1>3. f[a] = g[j] /\ f[a + n] = g[j + n]
    <2>1. a \in a..a + n /\ a + n \in a..a + n /\ j + (a - a) = j /\ j + (a + n - a) = j + n
      OBVIOUS
    <2> QED  BY <2>1
  <1> HIDE DEF f
  <1>4. f[a + n] = f[a]
    BY <1>1, <1>2 DEF Neutral, Turns
  <1> QED  BY <1>3, <1>4

(* e has from j + 1 what d has from a + 1.                                  *)
Copied(e, j, d, a, n) == \A k \in 1..n : e[j + k] = d[a + k]

(* A range goes on closing what it opens where it is copied to.            *)
LEMMA NeutralCopied ==
    ASSUME NEW d, NEW a \in Nat, NEW e, NEW j \in Nat, NEW n \in Nat,
           Neutral(d, a, a + n), Copied(e, j, d, a, n)
    PROVE  Neutral(e, j, j + n)
  BY NeutralMoved DEF Copied

(* The same of ranges given by their ends.                                 *)
LEMMA NeutralShifted ==
    ASSUME NEW d, NEW a \in Nat, NEW b \in Nat, NEW e, NEW j \in Nat, NEW c \in Nat, NEW n \in Nat,
           b = a + n, c = j + n, Neutral(d, a, b), Copied(e, j, d, a, n)
    PROVE  Neutral(e, j, c)
  <1>1. Neutral(d, a, a + n)
    OBVIOUS
  <1>2. Neutral(e, j, j + n)
    BY <1>1, NeutralCopied
  <1> QED  BY <1>2

(* Where nothing before p differs, a range before p stays as it is.        *)
LEMMA NeutralBefore ==
    ASSUME NEW d, NEW a \in Nat, NEW p \in Nat, a <= p, NEW e, Copied(e, 0, d, 0, p),
           Neutral(d, a, p)
    PROVE  Neutral(e, a, p)
  <1> DEFINE n == p - a
  <1>1. n \in Nat /\ p = a + n
    OBVIOUS
  <1>2. Copied(e, a, d, a, n)
    <2>1. ASSUME NEW k \in 1..n PROVE a + k \in 1..p /\ 0 + (a + k) = a + k
      OBVIOUS
    <2> QED  BY <2>1 DEF Copied
  <1> HIDE DEF n
  <1> QED  BY <1>1, <1>2, NeutralShifted

(* A pair of tags around a range.                                          *)
LEMMA NeutralWrap ==
    ASSUME NEW d, NEW a \in Nat, NEW b \in Nat, a + 1 < b, Neutral(d, a + 1, b - 1),
           d[a + 1].kind = "open", d[b].kind = "close", d[b].name = d[a + 1].name,
           d[b].name \in P!Tags
    PROVE  Neutral(d, a, b)
  <1> SUFFICES ASSUME NEW g, Turns(g, d, a, b) PROVE g[b] = g[a]
    BY DEF Neutral
  <1> DEFINE p == [k \in a + 1..b - 1 |-> g[k]]
             x == d[b].name
  <1>1. Turns(p, d, a + 1, b - 1)
    <2>1. a + 1 \in Nat /\ b - 1 \in Nat /\ a <= a + 1 /\ a + 1 <= b - 1 /\ b - 1 <= b
      OBVIOUS
    <2> QED  BY <2>1, TurnsPart
  <1>2. p[a + 1] = g[a + 1] /\ p[b - 1] = g[b - 1]
    OBVIOUS
  <1> HIDE DEF p
  <1>3. g[b - 1] = g[a + 1]
    BY <1>1, <1>2 DEF Neutral
  <1>4. g[a + 1] = P!Nest(g[a], d[a + 1]) /\ g[b] = P!Nest(g[b - 1], d[b]) /\ g[a] \in Stacks
    <2>1. a + 1 \in a + 1..b /\ b \in a + 1..b /\ a \in a..b /\ a + 1 - 1 = a
      OBVIOUS
    <2> QED  BY <2>1 DEF Turns
  <1>5. CASE g[a] = <<"broken">>
    BY <1>3, <1>4, <1>5 DEF P!Nest
  <1>6. CASE g[a] # <<"broken">>
    <2>1. g[a] \in Seq(P!Tags)
      BY <1>4, <1>6 DEF Stacks
    <2>2. g[a + 1] = Append(g[a], x)
      BY <1>4, <1>6 DEF P!Nest
    <2>3. /\ Append(g[a], x) \in Seq(P!Tags) /\ Len(Append(g[a], x)) = Len(g[a]) + 1
          /\ Len(g[a]) \in Nat /\ Append(g[a], x)[Len(g[a]) + 1] = x
      BY <2>1
    <2>4. Append(g[a], x) # <<"broken">> /\ Append(g[a], x) # <<>>
      <3>1. "broken" \notin P!Tags
        BY DEF P!Tags, P!Plain, P!Colours, P!Void, P!Valued, P!Words, P!Linked
      <3> DEFINE y == Append(g[a], x)
      <3>2. y \in Seq(P!Tags) /\ Len(y) \in Nat \ {0}
        BY <2>3
      <3> HIDE DEF y
      <3>3. y[1] \in P!Tags /\ Len(y) # 0
        BY <3>2
      <3>4. y # <<>>
        BY <3>3
      <3>5. y # <<"broken">>
        BY <3>1, <3>3
      <3> QED  BY <3>4, <3>5 DEF y
    <2>5. P!Front(Append(g[a], x)) = g[a]
      <3>1. Len(Append(g[a], x)) - 1 = Len(g[a])
        BY <2>3
      <3>2. SubSeq(Append(g[a], x), 1, Len(g[a])) = g[a]
        <4>1. IsSeq(g[a]) /\ IsSeq(Append(g[a], x))
          BY <2>1, <2>3 DEF IsSeq
        <4>2. Len(g[a]) <= Len(g[a]) /\ Len(g[a]) <= Len(Append(g[a], x))
              /\ \A k \in 1..Len(g[a]) : Append(g[a], x)[k] = g[a][k]
          BY <2>1, <2>3
        <4>3. SubSeq(Append(g[a], x), 1, Len(g[a])) = SubSeq(g[a], 1, Len(g[a]))
          BY <2>3, <4>1, <4>2, SamePrefix
        <4> QED  BY <2>1, <4>3, SubSeqFull
      <3> QED  BY <3>1, <3>2 DEF P!Front
    <2>6. P!Last(Append(g[a], x)) = x
      BY <2>3 DEF P!Last
    <2> QED  BY <1>3, <1>4, <2>2, <2>4, <2>5, <2>6 DEF P!Nest
  <1> QED  BY <1>5, <1>6

-----------------------------------------------------------------------------
(* FoldLeft goes through the sets of positions, the greatest one last.     *)
Folds(f, d, n) ==
    f = [s \in SUBSET (1..n) |->
            IF s = {} THEN <<>> ELSE P!Nest(f[s \ {P!Max(s)}], d[P!Max(s)])]

(* The greatest position of a set.                                         *)
LEMMA MaxIs ==
    ASSUME NEW n \in Nat, NEW s \in SUBSET (1..n), NEW m \in s, \A k \in s : m >= k
    PROVE  P!Max(s) = m
  <1>1. \A x \in s : x \in Nat
    OBVIOUS
  <1>2. ASSUME NEW x \in s, \A k \in s : x >= k PROVE x = m
    <2>1. x >= m /\ m >= x
      BY <1>2
    <2> QED  BY <1>1, <2>1
  <1> QED  BY <1>2 DEF P!Max

(* There is a function that goes through the sets, by induction on the     *)
(* positions.                                                              *)
LEMMA FoldsExist ==
    ASSUME NEW d, NEW n \in Nat
    PROVE  \E f : Folds(f, d, n)
  <1> DEFINE D == {m \in Nat : \E f : Folds(f, d, m)}
  <1>1. 0 \in D
    <2> DEFINE f == [s \in SUBSET (1..0) |-> <<>>]
    <2>1. \A s \in SUBSET (1..0) : s = {}
      OBVIOUS
    <2>2. f = [s \in SUBSET (1..0) |->
                 IF s = {} THEN <<>> ELSE P!Nest(f[s \ {P!Max(s)}], d[P!Max(s)])]
      BY <2>1
    <2>3. Folds(f, d, 0)
      BY <2>2 DEF Folds
    <2> HIDE DEF f
    <2> QED  BY <2>3
  <1>2. ASSUME NEW m \in Nat, m \in D PROVE m + 1 \in D
    <2>1. PICK f : Folds(f, d, m)
      BY <1>2
    <2> DEFINE h == [s \in SUBSET (1..m + 1) |->
                       IF m + 1 \in s THEN P!Nest(f[s \ {m + 1}], d[m + 1]) ELSE f[s]]
    <2>2. ASSUME NEW s \in SUBSET (1..m + 1)
          PROVE  h[s] = IF s = {} THEN <<>> ELSE P!Nest(h[s \ {P!Max(s)}], d[P!Max(s)])
      <3>1. CASE m + 1 \in s
        <4>1. P!Max(s) = m + 1
          <5>1. \A k \in s : m + 1 >= k
            OBVIOUS
          <5>2. m + 1 \in Nat
            OBVIOUS
          <5> QED  BY <3>1, <5>1, <5>2, MaxIs
        <4>2. s \ {m + 1} \in SUBSET (1..m + 1) /\ m + 1 \notin s \ {m + 1}
          OBVIOUS
        <4>3. h[s \ {m + 1}] = f[s \ {m + 1}]
          BY <4>2
        <4>4. h[s] = P!Nest(f[s \ {m + 1}], d[m + 1])
          BY <3>1
        <4> HIDE DEF h
        <4> QED  BY <3>1, <4>1, <4>3, <4>4
      <3>2. CASE m + 1 \notin s
        <4>1. s \in SUBSET (1..m)
          BY <3>2
        <4>2. h[s] = f[s]
          BY <3>2
        <4>3. f[s] = IF s = {} THEN <<>> ELSE P!Nest(f[s \ {P!Max(s)}], d[P!Max(s)])
          BY <2>1, <4>1 DEF Folds
        <4>4. h[s \ {P!Max(s)}] = f[s \ {P!Max(s)}]
          BY <3>2
        <4> HIDE DEF h
        <4> QED  BY <4>2, <4>3, <4>4
      <3> QED  BY <3>1, <3>2
    <2>3. h = [s \in SUBSET (1..m + 1) |->
                 IF s = {} THEN <<>> ELSE P!Nest(h[s \ {P!Max(s)}], d[P!Max(s)])]
      <3> DEFINE e == [s \in SUBSET (1..m + 1) |->
                 IF s = {} THEN <<>> ELSE P!Nest(h[s \ {P!Max(s)}], d[P!Max(s)])]
      <3>1. \A s \in SUBSET (1..m + 1) : h[s] = e[s]
        BY <2>2
      <3>2. DOMAIN h = SUBSET (1..m + 1) /\ DOMAIN e = SUBSET (1..m + 1)
        OBVIOUS
      <3> QED  BY <3>1, <3>2
    <2>4. Folds(h, d, m + 1)
      BY <2>3 DEF Folds
    <2> HIDE DEF h
    <2> QED  BY <2>4
  <1> HIDE DEF D
  <1>3. n \in D
    BY <1>1, <1>2, SetInduction
  <1> QED  BY <1>3 DEF D

(* It gives the last of the stacks the items lead to.                      *)
LEMMA FoldIs ==
    ASSUME NEW d, Len(d) \in Nat, DOMAIN d = 1..Len(d), NEW g, Turns(g, d, 0, Len(d)), g[0] = <<>>
    PROVE  P!FoldLeft(P!Nest, <<>>, d) = g[Len(d)]
  <1> DEFINE n == Len(d)
             f == CHOOSE h : Folds(h, d, n)
  <1>1. Folds(f, d, n)
    BY FoldsExist
  <1>2. P!FoldLeft(P!Nest, <<>>, d) = f[1..n]
    <2>1. P!FoldLeft(P!Nest, <<>>, d)
            = (CHOOSE h : h = [s \in SUBSET DOMAIN d |->
                 IF s = {} THEN <<>> ELSE P!Nest(h[s \ {P!Max(s)}], d[P!Max(s)])])[DOMAIN d]
      BY DEF P!FoldLeft, P!MapThenFoldSet
    <2> QED  BY <2>1 DEF Folds
  <1> HIDE DEF f
  <1> DEFINE D == {m \in Nat : m <= n => f[1..m] = g[m]}
  <1>3. 0 \in D
    <2>1. 1..0 = {} /\ 1..0 \in SUBSET (1..n)
      OBVIOUS
    <2> QED  BY <1>1, <2>1 DEF Folds
  <1>4. ASSUME NEW m \in Nat, m \in D PROVE m + 1 \in D
    <2>1. SUFFICES ASSUME m + 1 <= n PROVE f[1..m + 1] = g[m + 1]
      OBVIOUS
    <2>2. f[1..m] = g[m]
      BY <1>4, <2>1
    <2>3. P!Max(1..m + 1) = m + 1
      <3>1. 1..m + 1 \in SUBSET (1..m + 1) /\ m + 1 \in 1..m + 1 /\ \A k \in 1..m + 1 : m + 1 >= k
        OBVIOUS
      <3>2. m + 1 \in Nat
        OBVIOUS
      <3> DEFINE K == 1..m + 1
                 x == m + 1
      <3>3. K \in SUBSET (1..x) /\ x \in K /\ x \in Nat /\ \A k \in K : x >= k
        BY <3>1, <3>2
      <3> HIDE DEF K, x
      <3>4. P!Max(K) = x
        BY <3>3, MaxIs
      <3> QED  BY <3>4 DEF K, x
    <2>4. (1..m + 1) \ {m + 1} = 1..m /\ 1..m + 1 # {} /\ 1..m + 1 \in SUBSET (1..n)
      <3>1. \A k : k \in 1..m + 1 /\ k # m + 1 <=> k \in 1..m
        OBVIOUS
      <3>2. m + 1 \in 1..m + 1
        OBVIOUS
      <3>3. \A k \in 1..m + 1 : k \in 1..n
        BY <2>1
      <3> QED  BY <3>1, <3>2, <3>3
    <2>5. f[1..m + 1] = P!Nest(f[1..m], d[m + 1])
      BY <1>1, <2>3, <2>4 DEF Folds
    <2>6. g[m + 1] = P!Nest(g[m], d[m + 1])
      <3>1. m + 1 \in 0 + 1..n /\ m + 1 - 1 = m
        BY <2>1
      <3> QED  BY <3>1 DEF Turns
    <2> QED  BY <2>2, <2>5, <2>6
  <1> HIDE DEF D
  <1>5. n \in D
    BY <1>3, <1>4, SetInduction
  <1>6. n <= n
    OBVIOUS
  <1> QED  BY <1>2, <1>5, <1>6 DEF D

(* So text that closes what it opens is well nested.                       *)
LEMMA NestedIs ==
    ASSUME NEW d, AreItems(d), Solid(d), Neutral(d, 0, Len(d))
    PROVE  P!FoldLeft(P!Nest, <<>>, d) = <<>>
  <1>1. Len(d) \in Nat /\ DOMAIN d = 1..Len(d)
    BY SeqIs DEF AreItems
  <1>2. <<>> \in Stacks
    BY DEF Stacks
  <1>3. PICK g : Turns(g, d, 0, Len(d)) /\ g[0] = <<>>
    <2>1. 0 <= Len(d) /\ Len(d) <= Len(d)
      BY <1>1
    <2> QED  BY <1>1, <1>2, <2>1, TurnsExist
  <1> QED  BY <1>1, <1>3, FoldIs DEF Neutral

-----------------------------------------------------------------------------
(* A tag is at the lexeme it begins with or behind it, and has a name if   *)
(* it is there.                                                            *)
Placed(d, t) == /\ Covered(d, t.left) >= t.from - 1
                /\ Covered(d, t.left) = t.from - 1 => t.left + 1 < t.right

(* What follows a tag that can be replaced closes what it opens.           *)
Closed(d, t) == P!InPlace(d, t) => Neutral(d, t.left, Len(d))

(* All tags of the stack are like that.                                    *)
Rooted(d, ts) == \A k \in 1..Len(ts) : Placed(d, ts[k]) /\ Closed(d, ts[k])

(* Such a tag is wider than its HTML.                                      *)
LEMMA PlacedWide ==
    ASSUME NEW d, AreItems(d), NEW t, IsTag(t), P!InPlace(d, t), Placed(d, t)
    PROVE  t.left + 1 < t.right /\ Covered(d, t.left) = t.from - 1
  <1>1. t.left \in Nat /\ t.right \in Nat /\ t.left < t.right /\ t.right <= Len(d) /\ Len(d) \in Nat
    BY SeqIs DEF IsTag, P!InPlace, AreItems
  <1>2. Covered(d, t.left) = t.from - 1
    BY <1>1 DEF Covered, P!InPlace
  <1> QED  BY <1>2 DEF Placed

(* e is d with HTML for the tag t.                                         *)
Put(e, d, t) ==
    /\ t.left \in Nat /\ t.right \in Nat /\ t.left < t.right /\ t.right <= Len(d)
    /\ Len(d) \in Nat /\ Len(e) \in Nat
    /\ AreItems(e) /\ Solid(e) /\ Len(e) = t.left + 1 + (Len(d) - t.right)
    /\ \A k \in 1..t.left : e[k] = d[k]
    /\ \A k \in 1..(Len(d) - t.right) : e[t.left + 1 + k] = d[t.right + k]
    /\ e[t.left + 1].name = t.name /\ e[t.left + 1].kind # "text"
    /\ t.name \in P!Void => e[t.left + 1].kind \notin {"open", "close"}
    /\ t.name \notin P!Void =>
         e[t.left + 1].kind = IF t.type = "closing" THEN "close" ELSE "open"

(* That is what replacing a tag at its positions makes.                    *)
LEMMA ReplacedAt ==
    ASSUME NEW d, AreItems(d), Solid(d), NEW t, IsTag(t), P!InPlace(d, t), t.name \in P!Tags
    PROVE  Put(P!Replaced(d, t), d, t)
  <1> DEFINE s == P!Erased(d, t)
             e == P!Replaced(d, t)
  <1>1. /\ t.left \in Nat /\ t.right \in Nat /\ t.left < t.right /\ t.right <= Len(d)
        /\ AreItems(e) /\ Len(e) = t.left + 1 + (Len(d) - t.right)
        /\ \A k \in 1..t.left : e[k] = d[k]
        /\ P!Html(t, s) = <<e[t.left + 1]>>
        /\ \A k \in 1..(Len(d) - t.right) : e[t.left + 1 + k] = d[t.right + k]
    BY ReplacedIs
  <1>2. Len(d) \in Nat /\ Len(e) \in Nat
    BY <1>1, SeqIs DEF AreItems
  <1>3. s \in Seq(P!Lexemes) /\ Len(s) = t.right - t.left
    BY ErasedIs
  <1> HIDE DEF s, e
  <1>4. /\ e[t.left + 1].name = t.name /\ e[t.left + 1].src = s
        /\ e[t.left + 1].kind = IF t.name \in P!Void
                                THEN IF t.type = "closing" THEN "stray" ELSE "void"
                                ELSE IF t.type = "closing" THEN "close" ELSE "open"
    <2>1. PICK g : /\ P!Html(t, s) = <<g>> /\ IsItem(g) /\ g.src = s /\ g.name = t.name
                   /\ g.kind = IF t.name \in P!Void
                               THEN IF t.type = "closing" THEN "stray" ELSE "void"
                               ELSE IF t.type = "closing" THEN "close" ELSE "open"
      BY <1>3, HtmlIs
    <2>2. <<e[t.left + 1]>> = <<g>> => e[t.left + 1] = g
      OBVIOUS
    <2> QED  BY <1>1, <2>1, <2>2
  <1>5. s # <<>>
    <2>1. Len(s) # 0
      BY <1>1, <1>3
    <2> QED  BY <2>1
  <1>6. ASSUME NEW k \in 1..Len(e)
        PROVE  e[k].src # <<>> /\ (e[k].kind \in {"open", "close"} => e[k].name \in P!Tags)
    <2>1. CASE k <= t.left
      <3>1. k \in 1..t.left /\ k \in 1..Len(d)
        BY <1>1, <1>2, <2>1
      <3> QED  BY <1>1, <3>1 DEF Solid
    <2>2. CASE k = t.left + 1
      BY <1>4, <1>5, <2>2
    <2>3. CASE k > t.left + 1
      <3> DEFINE j == k - (t.left + 1)
      <3>1. k \in Nat /\ k <= t.left + 1 + (Len(d) - t.right)
        BY <1>1, <1>2
      <3>2. t.left \in Nat /\ t.right \in Nat /\ t.right <= Len(d)
        BY <1>1
      <3>3. j \in 1..(Len(d) - t.right) /\ k = t.left + 1 + j
        BY <1>2, <2>3, <3>1, <3>2
      <3> HIDE DEF j
      <3>4. t.right + j \in 1..Len(d)
        BY <1>2, <3>2, <3>3
      <3> QED  BY <1>1, <3>3, <3>4 DEF Solid
    <2> QED  BY <1>1, <1>2, <2>1, <2>2, <2>3
  <1>7. Solid(e)
    BY <1>6 DEF Solid
  <1> QED  BY <1>1, <1>2, <1>4, <1>7 DEF Put, e

(* A tag that can be replaced after another one has been is in front of    *)
(* it, and could have been before: positions behind the other one stand    *)
(* for more than they did.                                                 *)
LEMMA InFront ==
    ASSUME NEW d, AreItems(d), Solid(d), NEW c, IsTag(c), P!InPlace(d, c), Placed(d, c),
           c.name \in P!Tags, NEW t, IsTag(t), Placed(d, t), NEW e, e = P!Replaced(d, c)
    PROVE  /\ Placed(e, t)
           /\ P!InPlace(e, t) => t.right <= c.left /\ P!InPlace(d, t)
  <1>1. /\ c.left \in Nat /\ c.right \in Nat /\ c.left < c.right /\ c.right <= Len(d)
        /\ Len(d) \in Nat /\ AreItems(e) /\ Len(e) \in Nat
        /\ \A k \in 1..c.left : e[k] = d[k]
        /\ e[c.left + 1].kind # "text"
    <2>1. Put(e, d, c)
      BY ReplacedAt
    <2> QED  BY <2>1 DEF Put
  <1>2. t.left \in Nat /\ t.right \in Nat /\ t.from \in Nat
    BY DEF IsTag
  <1>3. /\ Covered(e, t.left) >= Covered(d, t.left)
        /\ t.left > c.left => Covered(e, t.left) > Covered(d, t.left)
        /\ Covered(e, t.left) \in Nat /\ Covered(d, t.left) \in Nat
    <2>1. c.left + 1 < c.right
      BY PlacedWide
    <2> QED  BY <1>1, <1>2, <2>1, CoveredMore, CoveredNat
  <1>4. Placed(e, t)
    BY <1>2, <1>3 DEF Placed
  <1>5. ASSUME P!InPlace(e, t) PROVE t.right <= c.left /\ P!InPlace(d, t)
    <2>1. Covered(e, t.left) = t.from - 1
      BY <1>1, <1>4, <1>5, PlacedWide
    <2>2. t.left <= c.left
      BY <1>1, <1>2, <1>3, <2>1 DEF Placed
    <2>3. t.left < t.right /\ \A n \in t.left + 1..t.right : e[n].kind = "text"
      BY <1>5 DEF P!InPlace
    <2>4. c.left + 1 \notin t.left + 1..t.right
      BY <1>1, <2>3
    <2>5. t.right <= c.left
      BY <1>1, <1>2, <2>2, <2>4
    <2>6. t.right <= Len(d) /\ t.left <= Len(d) /\ t.left <= Len(e)
          /\ \A n \in t.left + 1..t.right : n \in 1..c.left
      <3>1. P!InPlace(e, t) => t.right <= Len(e)
        BY DEF P!InPlace
      <3> QED  BY <1>1, <1>2, <1>5, <2>3, <2>5, <3>1
    <2>7. \A n \in t.left + 1..t.right : d[n].kind = "text"
      BY <1>1, <2>3, <2>6
    <2>8. SubSeq(e, 1, t.left) = SubSeq(d, 1, t.left)
      <3>1. \A k \in 1..t.left : k \in 1..c.left
        BY <1>1, <1>2, <2>2
      <3> QED  BY <1>1, <1>2, <2>6, <3>1, SamePrefix DEF AreItems
    <2> QED  BY <1>5, <2>3, <2>5, <2>6, <2>7, <2>8 DEF P!InPlace
  <1> QED  BY <1>4, <1>5

(* The text of a tag neither opens nor closes.                             *)
LEMMA TagFlat ==
    ASSUME NEW d, NEW t, IsTag(t), P!InPlace(d, t)
    PROVE  Neutral(d, t.left, t.right)
  <1>1. t.left \in Nat /\ t.right \in Nat /\ t.left <= t.right
    BY DEF IsTag, P!InPlace
  <1>2. \A k \in t.left + 1..t.right : d[k].kind \notin {"open", "close"}
    BY DEF P!InPlace
  <1> QED  BY <1>1, <1>2, NeutralFlat

(* One tag is replaced that is not one of a pair.                          *)
LEMMA VoidNeutral ==
    ASSUME NEW d, AreItems(d), Solid(d), NEW c, IsTag(c), P!InPlace(d, c), Closed(d, c),
           c.name \in P!Void, NEW e, e = P!Replaced(d, c),
           NEW a \in Nat, a <= c.left, Neutral(d, a, Len(d))
    PROVE  Neutral(e, a, Len(e))
  <1>0. c.name \in P!Tags
    BY DEF P!Tags
  <1>1. /\ c.left \in Nat /\ c.right \in Nat /\ c.left < c.right /\ c.right <= Len(d)
        /\ Len(d) \in Nat /\ Len(e) = c.left + 1 + (Len(d) - c.right) /\ Len(e) \in Nat
        /\ \A k \in 1..c.left : e[k] = d[k]
        /\ \A k \in 1..(Len(d) - c.right) : e[c.left + 1 + k] = d[c.right + k]
        /\ e[c.left + 1].kind \notin {"open", "close"}
    <2>1. Put(e, d, c)
      BY <1>0, ReplacedAt
    <2> QED  BY <2>1 DEF Put
  <1>2. Neutral(d, c.left, Len(d))
    BY DEF Closed
  <1>3. Neutral(d, a, c.left)
    <2>1. c.left <= Len(d) /\ Len(d) <= Len(d)
      BY <1>1
    <2> QED  BY <1>1, <1>2, <2>1, NeutralFront
  <1>4. Neutral(d, c.right, Len(d))
    <2>1. c.left <= c.right /\ Len(d) <= Len(d)
      BY <1>1
    <2> QED  BY <1>1, <1>2, <2>1, TagFlat, NeutralBack
  <1>5. Neutral(e, a, c.left)
    <2>1. Copied(e, 0, d, 0, c.left)
      <3>1. ASSUME NEW k \in 1..c.left PROVE 0 + k = k
        BY <1>1
      <3> QED  BY <1>1, <3>1 DEF Copied
    <2> QED  BY <1>1, <1>3, <2>1, NeutralBefore
  <1>6. Neutral(e, c.left, c.left + 1)
    <2>1. \A k \in c.left + 1..c.left + 1 : k = c.left + 1
      BY <1>1
    <2>2. c.left + 1 \in Nat /\ c.left <= c.left + 1
      BY <1>1
    <2> QED  BY <1>1, <2>1, <2>2, NeutralFlat
  <1>7. Neutral(e, c.left + 1, Len(e))
    <2> DEFINE j == c.left + 1
               n == Len(d) - c.right
    <2>1. Copied(e, j, d, c.right, n)
      BY <1>1 DEF Copied
    <2>2. /\ c.right \in Nat /\ j \in Nat /\ n \in Nat
          /\ Len(d) = c.right + n /\ Len(e) = j + n
      BY <1>1
    <2> HIDE DEF j, n
    <2>3. Neutral(d, c.right, c.right + n)
      BY <1>4, <2>2
    <2>4. Neutral(e, j, j + n)
      BY <2>1, <2>2, <2>3, NeutralCopied
    <2> QED  BY <2>2, <2>4 DEF j
  <1>8. Neutral(e, a, c.left + 1)
    <2>1. c.left + 1 \in Nat /\ c.left <= c.left + 1
      BY <1>1
    <2> QED  BY <1>1, <1>5, <1>6, <2>1, NeutralJoin
  <1>9. a <= c.left + 1 /\ c.left + 1 <= Len(e) /\ c.left + 1 \in Nat
    BY <1>1
  <1> QED  BY <1>1, <1>7, <1>8, <1>9, NeutralJoin

(* Two ranges of d, p to q and x to y, become an opening and a closing tag *)
(* in e.                                                                   *)
LEMMA NeutralPair ==
    ASSUME NEW d, Solid(d), Len(d) \in Nat,
           NEW a \in Nat, NEW p \in Nat, NEW q \in Nat, NEW x \in Nat, NEW y \in Nat,
           NEW m \in Nat, NEW n \in Nat, NEW b \in Nat, NEW z \in Nat,
           a <= p, p <= q, q + m = x, x <= y, y + n = Len(d), b = p + 1 + m, z = b + 1 + n,
           Neutral(d, a, Len(d)), Neutral(d, p, Len(d)), Neutral(d, x, Len(d)),
           Neutral(d, p, q), Neutral(d, x, y),
           NEW e, Copied(e, 0, d, 0, p), Copied(e, p + 1, d, q, m), Copied(e, b + 1, d, y, n),
           e[p + 1].kind = "open", e[b + 1].kind = "close", e[b + 1].name = e[p + 1].name,
           e[b + 1].name \in P!Tags
    PROVE  Neutral(e, a, z)
  <1>1. /\ q <= x /\ p <= x /\ y <= Len(d) /\ p <= Len(d) /\ x <= Len(d) /\ Len(d) <= Len(d)
        /\ p + 1 \in Nat /\ b + 1 \in Nat
    OBVIOUS
  <1>2. Neutral(d, a, p)
    BY <1>1, NeutralFront
  <1>3. Neutral(d, q, x)
    <2>1. Neutral(d, p, x)
      BY <1>1, NeutralFront
    <2> QED  BY <1>1, <2>1, NeutralBack
  <1>4. Neutral(d, y, Len(d))
    BY <1>1, NeutralBack
  <1>5. Neutral(e, a, p)
    BY <1>2, NeutralBefore
  <1>6. Neutral(e, p + 1, b)
    <2> DEFINE u == p + 1
    <2>1. u \in Nat /\ b = u + m /\ x = q + m
      OBVIOUS
    <2>2. Copied(e, u, d, q, m)
      OBVIOUS
    <2> HIDE DEF u
    <2>3. Neutral(d, q, q + m)
      BY <1>3, <2>1
    <2>4. Neutral(e, u, u + m)
      BY <2>1, <2>2, <2>3, NeutralCopied
    <2> QED  BY <2>1, <2>4 DEF u
  <1>7. Neutral(e, p, b + 1)
    <2>1. b + 1 - 1 = b /\ p + 1 < b + 1
      OBVIOUS
    <2> QED  BY <1>1, <1>6, <2>1, NeutralWrap
  <1>8. Neutral(e, b + 1, z)
    <2> DEFINE u == b + 1
    <2>1. u \in Nat /\ z = u + n /\ Len(d) = y + n
      OBVIOUS
    <2>2. Copied(e, u, d, y, n)
      OBVIOUS
    <2> HIDE DEF u
    <2>3. Neutral(d, y, y + n)
      BY <1>4, <2>1
    <2>4. Neutral(e, u, u + n)
      BY <2>1, <2>2, <2>3, NeutralCopied
    <2> QED  BY <2>1, <2>4 DEF u
  <1>9. p <= b + 1 /\ a <= b + 1 /\ b + 1 <= z
    OBVIOUS
  <1>10. Neutral(e, a, b + 1)
    BY <1>1, <1>5, <1>7, <1>9, NeutralJoin
  <1> QED  BY <1>1, <1>8, <1>9, <1>10, NeutralJoin

(* A pair of tags is replaced, the closing one first.                      *)
LEMMA PairNeutral ==
    ASSUME NEW d, AreItems(d), Solid(d),
           NEW c, IsTag(c), P!InPlace(d, c), Closed(d, c), Placed(d, c),
           c.name \in P!Tags \ P!Void, c.type = "closing", NEW d1, d1 = P!Replaced(d, c),
           NEW o, IsTag(o), P!InPlace(d1, o), Closed(d, o), Placed(d, o),
           o.name = c.name, o.type = "opening", NEW d2, d2 = P!Replaced(d1, o),
           NEW a \in Nat, a <= o.left, Neutral(d, a, Len(d))
    PROVE  Neutral(d2, a, Len(d2))
  <1>1. /\ c.left \in Nat /\ c.right \in Nat /\ c.left < c.right /\ c.right <= Len(d)
        /\ Len(d) \in Nat /\ Len(d1) = c.left + 1 + (Len(d) - c.right) /\ Len(d1) \in Nat
        /\ \A k \in 1..c.left : d1[k] = d[k]
        /\ \A k \in 1..(Len(d) - c.right) : d1[c.left + 1 + k] = d[c.right + k]
        /\ d1[c.left + 1].kind = "close" /\ d1[c.left + 1].name = c.name
        /\ AreItems(d1) /\ Solid(d1)
    <2>1. Put(d1, d, c)
      BY ReplacedAt
    <2> QED  BY <2>1 DEF Put
  <1>2. /\ o.left \in Nat /\ o.right \in Nat /\ o.left < o.right /\ o.right <= Len(d1)
        /\ Len(d2) = o.left + 1 + (Len(d1) - o.right) /\ Len(d2) \in Nat
        /\ \A k \in 1..o.left : d2[k] = d1[k]
        /\ \A k \in 1..(Len(d1) - o.right) : d2[o.left + 1 + k] = d1[o.right + k]
        /\ d2[o.left + 1].kind = "open" /\ d2[o.left + 1].name = c.name
    <2>1. Put(d2, d1, o)
      BY <1>1, ReplacedAt
    <2> QED  BY <2>1 DEF Put
  <1>3. o.right <= c.left /\ P!InPlace(d, o)
    BY InFront
  <1>4. /\ Neutral(d, c.left, Len(d)) /\ Neutral(d, o.left, Len(d))
        /\ Neutral(d, c.left, c.right) /\ Neutral(d, o.left, o.right)
    BY <1>3, TagFlat DEF Closed
  <1> DEFINE x == c.left
             y == c.right
             p == o.left
             q == o.right
             n0 == Len(d)
             n1 == Len(d1)
             n2 == Len(d2)
             m == x - q
             n == n0 - y
             b == p + 1 + m
  <1>5. /\ x \in Nat /\ y \in Nat /\ p \in Nat /\ q \in Nat /\ n0 \in Nat /\ n1 \in Nat /\ n2 \in Nat
        /\ x < y /\ y <= n0 /\ p < q /\ q <= x /\ a <= p
        /\ n1 = x + 1 + (n0 - y) /\ n2 = p + 1 + (n1 - q)
    BY <1>1, <1>2, <1>3
  <1>6. /\ Neutral(d, a, n0) /\ Neutral(d, x, n0) /\ Neutral(d, p, n0)
        /\ Neutral(d, x, y) /\ Neutral(d, p, q) /\ n0 = Len(d) /\ n2 = Len(d2)
    BY <1>4
  <1>7. /\ \A k \in 1..x : d1[k] = d[k]
        /\ \A k \in 1..n : d1[x + 1 + k] = d[y + k]
        /\ d1[x + 1].kind = "close" /\ d1[x + 1].name = c.name
        /\ \A k \in 1..p : d2[k] = d1[k]
        /\ \A k \in 1..(n1 - q) : d2[p + 1 + k] = d1[q + k]
        /\ d2[p + 1].kind = "open" /\ d2[p + 1].name = c.name
    BY <1>1, <1>2
  <1> HIDE DEF x, y, p, q, n0, n1, n2, m, n, b
  <1>8. /\ m \in Nat /\ n \in Nat /\ b \in Nat /\ p + 1 \in Nat /\ b + 1 \in Nat
        /\ q + m = x /\ y + n = n0 /\ p + 1 + m = b /\ b + 1 + n = n2
    BY <1>5 DEF m, n, b
  <1>13. Copied(d2, p + 1, d, q, m)
    <2> SUFFICES ASSUME NEW k \in 1..m PROVE d2[p + 1 + k] = d[q + k]
      BY DEF Copied
    <2>1. k \in 1..(n1 - q) /\ q + k \in 1..x
      BY <1>5, <1>8
    <2> QED  BY <1>7, <2>1
  <1>14. \A k \in 0..n : d2[b + 1 + k] = d1[x + 1 + k]
    <2> SUFFICES ASSUME NEW k \in 0..n PROVE d2[b + 1 + k] = d1[x + 1 + k]
      OBVIOUS
    <2>1. m + 1 + k \in 1..(n1 - q) /\ p + 1 + (m + 1 + k) = b + 1 + k
          /\ q + (m + 1 + k) = x + 1 + k
      BY <1>5, <1>8
    <2>2. d2[p + 1 + (m + 1 + k)] = d1[q + (m + 1 + k)]
      BY <1>7, <2>1
    <2> QED  BY <2>1, <2>2
  <1>15. /\ Copied(d2, b + 1, d, y, n)
         /\ d2[b + 1].kind = "close" /\ d2[b + 1].name = c.name
    <2>1. \A k \in 1..n : k \in 0..n
      OBVIOUS
    <2>2. 0 \in 0..n /\ b + 1 + 0 = b + 1 /\ x + 1 + 0 = x + 1
      BY <1>5, <1>8
    <2>3. d2[b + 1] = d1[x + 1]
      BY <1>14, <2>2
    <2> QED  BY <1>7, <1>14, <2>1, <2>3 DEF Copied
  <1>16. Neutral(d2, a, n2)
    <2>1. /\ Neutral(d, a, Len(d)) /\ Neutral(d, p, Len(d)) /\ Neutral(d, x, Len(d))
          /\ y + n = Len(d) /\ Len(d) \in Nat /\ p <= q /\ x <= y /\ b = p + 1 + m
          /\ n2 = b + 1 + n
      BY <1>5, <1>6, <1>8
    <2>2. Copied(d2, 0, d, 0, p)
      <3>1. \A k \in 1..p : k \in 1..x /\ 0 + k = k
        BY <1>5
      <3> QED  BY <1>7, <3>1 DEF Copied
    <2>3. d2[b + 1].name = d2[p + 1].name /\ d2[b + 1].name \in P!Tags
      BY <1>7, <1>15
    <2> QED  BY <1>5, <1>6, <1>7, <1>8, <1>13, <1>15, <2>1, <2>2, <2>3, NeutralPair
  <1> QED  BY <1>6, <1>16

-----------------------------------------------------------------------------
(* The tags of ts have names of S.                                         *)
Named(ts, S) == \A k \in 1..Len(ts) : ts[k].name \in S

(* What is well nested, with tags that can be replaced.                    *)
Level(d) == AreItems(d) /\ Solid(d) /\ Neutral(d, 0, Len(d))

(* e stands for no less than d does up to any position.                    *)
Later(e, d) == \A n \in Nat : Covered(e, n) >= Covered(d, n)

(* A lexeme more.                                                          *)
LEMMA AppendLevel ==
    ASSUME Level(data), NEW l \in P!Lexemes, NEW d, d = Append(data, P!Lexeme(l))
    PROVE  Level(d) /\ \A a \in Nat : a <= Len(data) /\ Neutral(data, a, Len(data))
                                      => Neutral(d, a, Len(d))
  <1>1. /\ AreItems(data) /\ AreItems(d) /\ Len(data) \in Nat /\ Len(d) = Len(data) + 1
        /\ \A k \in 1..Len(data) : d[k] = data[k]
        /\ d[Len(data) + 1] = P!Lexeme(l)
    BY WithLexeme DEF Level
  <1>2. Solid(d)
    <2>1. P!Lexeme(l).src # <<>> /\ P!Lexeme(l).kind = "text"
      BY DEF P!Lexeme
    <2>2. \A k \in 1..Len(data) + 1 : k \in 1..Len(data) \/ k = Len(data) + 1
      BY <1>1
    <2> QED  BY <1>1, <2>1, <2>2 DEF Solid, Level
  <1>3. ASSUME NEW a \in Nat, a <= Len(data), Neutral(data, a, Len(data))
        PROVE  Neutral(d, a, Len(d))
    <2> DEFINE n == Len(data) - a
    <2>1. n \in Nat /\ Len(data) = a + n
      BY <1>1, <1>3
    <2>2. Copied(d, a, data, a, n)
      <3>1. \A k \in 1..n : a + k \in 1..Len(data)
        BY <1>1
      <3> HIDE DEF n
      <3> QED  BY <1>1, <3>1 DEF Copied
    <2> HIDE DEF n
    <2>3. Neutral(d, a, Len(data))
      BY <1>1, <1>3, <2>1, <2>2, NeutralShifted
    <2>4. Neutral(d, Len(data), Len(d))
      <3>1. \A k \in Len(data) + 1..Len(d) : k = Len(data) + 1
        BY <1>1
      <3>2. d[Len(data) + 1].kind = "text"
        BY <1>1 DEF P!Lexeme
      <3>3. Len(d) \in Nat /\ Len(data) <= Len(d)
        BY <1>1
      <3> QED  BY <1>1, <3>1, <3>2, <3>3, NeutralFlat
    <2>5. Len(d) \in Nat /\ Len(data) <= Len(d)
      BY <1>1
    <2> QED  BY <1>1, <1>3, <2>3, <2>4, <2>5, NeutralJoin
  <1>4. Neutral(d, 0, Len(d))
    <2>1. 0 <= Len(data)
      BY <1>1
    <2> QED  BY <1>3, <2>1 DEF Level
  <1> QED  BY <1>1, <1>2, <1>3, <1>4 DEF Level

(* A lexeme more leaves tags where they are.                               *)
LEMMA AppendRooted ==
    ASSUME Level(data), NEW l \in P!Lexemes, NEW d, d = Append(data, P!Lexeme(l)),
           NEW ts, AreTags(ts), Rooted(data, ts)
    PROVE  Rooted(d, ts)
  <1>1. /\ AreItems(data) /\ AreItems(d) /\ Len(data) \in Nat /\ Len(d) = Len(data) + 1
        /\ \A k \in 1..Len(data) : d[k] = data[k]
    BY WithLexeme DEF Level
  <1> SUFFICES ASSUME NEW k \in 1..Len(ts) PROVE Placed(d, ts[k]) /\ Closed(d, ts[k])
    BY DEF Rooted
  <1> DEFINE t == ts[k]
  <1>2. IsTag(t) /\ Placed(data, t) /\ Closed(data, t)
    BY DEF AreTags, Rooted
  <1> HIDE DEF t
  <1>3. t.left \in Nat /\ t.right \in Nat
    BY <1>2 DEF IsTag
  <1>4. Placed(d, t)
    BY <1>1, <1>2, <1>3, CoveredAppend DEF Placed
  <1>5. ASSUME P!InPlace(d, t) PROVE Neutral(d, t.left, Len(d))
    <2>1. t.left < t.right /\ t.right <= Len(d) /\ \A n \in t.left + 1..t.right : d[n].kind = "text"
      BY <1>5 DEF P!InPlace
    <2>2. CASE t.right <= Len(data)
      <3>1. SubSeq(data, 1, t.left) = SubSeq(d, 1, t.left)
        <4>1. t.left <= Len(data) /\ t.left <= Len(d) /\ \A n \in 1..t.left : data[n] = d[n]
          BY <1>1, <1>3, <2>1, <2>2
        <4> QED  BY <1>1, <1>3, <4>1, SamePrefix DEF AreItems
      <3>2. \A n \in t.left + 1..t.right : data[n].kind = "text"
        <4>1. \A n \in t.left + 1..t.right : n \in 1..Len(data)
          BY <1>1, <1>3, <2>2
        <4> QED  BY <1>1, <2>1, <4>1
      <3>3. P!InPlace(data, t)
        BY <1>5, <2>1, <2>2, <3>1, <3>2 DEF P!InPlace
      <3>4. t.left <= Len(data)
        BY <1>1, <1>3, <2>1, <2>2
      <3> QED  BY <1>2, <1>3, <3>3, <3>4, AppendLevel DEF Closed
    <2>3. CASE ~(t.right <= Len(data))
      <3>1. t.right = Len(d)
        BY <1>1, <1>3, <2>1, <2>3
      <3> QED  BY <1>2, <1>5, <3>1, TagFlat
    <2> QED  BY <2>2, <2>3
  <1>6. Closed(d, t)
    BY <1>5 DEF Closed
  <1> QED  BY <1>4, <1>6 DEF t

(* A tag without a closing tag is replaced.                                *)
LEMMA VoidLevel ==
    ASSUME NEW d, Level(d), NEW c, IsTag(c), P!InPlace(d, c), Placed(d, c), Closed(d, c),
           c.name \in P!Void, NEW e, e = P!Replaced(d, c)
    PROVE  /\ Level(e) /\ Later(e, d)
           /\ \A t : IsTag(t) /\ Placed(d, t) /\ Closed(d, t) => Placed(e, t) /\ Closed(e, t)
  <1>0. c.name \in P!Tags /\ AreItems(d) /\ Solid(d) /\ c.left \in Nat
    BY DEF P!Tags, Level, IsTag
  <1>1. AreItems(e) /\ Solid(e)
    <2>1. Put(e, d, c)
      BY <1>0, ReplacedAt
    <2> QED  BY <2>1 DEF Put
  <1>2. Neutral(e, 0, Len(e))
    BY <1>0, VoidNeutral DEF Level
  <1>3. Later(e, d)
    <2>1. c.left + 1 < c.right
      BY <1>0, PlacedWide
    <2> QED  BY <1>0, <2>1, CoveredMore DEF Later
  <1>4. ASSUME NEW t, IsTag(t), Placed(d, t), Closed(d, t)
        PROVE  Placed(e, t) /\ Closed(e, t)
    <2>1. Placed(e, t)
      BY <1>0, <1>4, InFront
    <2>2. ASSUME P!InPlace(e, t) PROVE Neutral(e, t.left, Len(e))
      <3>1. t.right <= c.left /\ P!InPlace(d, t)
        BY <1>0, <1>4, <2>2, InFront
      <3>2. t.left \in Nat /\ t.left <= c.left
        BY <1>0, <1>4, <3>1 DEF P!InPlace, IsTag
      <3>3. Neutral(d, t.left, Len(d))
        BY <1>4, <3>1 DEF Closed
      <3> QED  BY <1>0, <3>2, <3>3, VoidNeutral
    <2> QED  BY <2>1, <2>2 DEF Closed
  <1> QED  BY <1>1, <1>2, <1>3, <1>4 DEF Level

(* A pair of tags is replaced.                                             *)
LEMMA PairLevel ==
    ASSUME NEW d, Level(d), NEW c, IsTag(c), P!InPlace(d, c), Placed(d, c), Closed(d, c),
           c.name \in P!Tags \ P!Void, c.type = "closing", NEW d1, d1 = P!Replaced(d, c),
           NEW o, IsTag(o), P!InPlace(d1, o), Placed(d, o), Closed(d, o),
           o.name = c.name, o.type = "opening", NEW e, e = P!Replaced(d1, o)
    PROVE  /\ Level(e) /\ Later(e, d)
           /\ \A t : IsTag(t) /\ Placed(d, t) /\ Closed(d, t) => Placed(e, t) /\ Closed(e, t)
  <1>0. /\ c.name \in P!Tags /\ o.name \in P!Tags /\ AreItems(d) /\ Solid(d)
        /\ c.left \in Nat /\ o.left \in Nat
    BY DEF Level, IsTag
  <1>1. AreItems(d1) /\ Solid(d1)
    <2>1. Put(d1, d, c)
      BY <1>0, ReplacedAt
    <2> QED  BY <2>1 DEF Put
  <1>2. AreItems(e) /\ Solid(e)
    <2>1. Put(e, d1, o)
      BY <1>0, <1>1, ReplacedAt
    <2> QED  BY <2>1 DEF Put
  <1>3. Placed(d1, o)
    BY <1>0, InFront
  <1>4. Neutral(e, 0, Len(e))
    <2>1. 0 <= o.left
      BY <1>0
    <2> QED  BY <1>0, <2>1, PairNeutral DEF Level
  <1>5. Later(e, d)
    <2>1. c.left + 1 < c.right /\ o.left + 1 < o.right
      BY <1>0, <1>1, <1>3, PlacedWide
    <2>2. ASSUME NEW n \in Nat PROVE Covered(e, n) >= Covered(d, n)
      <3>1. Covered(d1, n) >= Covered(d, n)
        BY <1>0, <2>1, CoveredMore
      <3>2. Covered(e, n) >= Covered(d1, n)
        BY <1>1, <2>1, CoveredMore
      <3>3. Covered(e, n) \in Nat /\ Covered(d1, n) \in Nat /\ Covered(d, n) \in Nat
        BY <1>0, <1>1, <1>2, CoveredNat
      <3> QED  BY <3>1, <3>2, <3>3
    <2> QED  BY <2>2 DEF Later
  <1>6. ASSUME NEW t, IsTag(t), Placed(d, t), Closed(d, t)
        PROVE  Placed(e, t) /\ Closed(e, t)
    <2>1. Placed(d1, t)
      BY <1>0, <1>6, InFront
    <2>2. Placed(e, t)
      BY <1>0, <1>1, <1>3, <1>6, <2>1, InFront
    <2>3. ASSUME P!InPlace(e, t) PROVE Neutral(e, t.left, Len(e))
      <3>1. t.right <= o.left /\ P!InPlace(d1, t)
        BY <1>0, <1>1, <1>3, <1>6, <2>1, <2>3, InFront
      <3>2. P!InPlace(d, t)
        BY <1>0, <1>6, <3>1, InFront
      <3>3. t.left \in Nat /\ t.left <= o.left
        BY <1>0, <1>6, <3>1 DEF P!InPlace, IsTag
      <3>4. Neutral(d, t.left, Len(d))
        BY <1>6, <3>2 DEF Closed
      <3> QED  BY <1>0, <3>3, <3>4, PairNeutral
    <2> QED  BY <2>2, <2>3 DEF Closed
  <1> QED  BY <1>2, <1>4, <1>5, <1>6 DEF Level

-----------------------------------------------------------------------------
(* This is transitive and reflexive.                                       *)
LEMMA LaterIs ==
    ASSUME NEW d, AreItems(d), NEW e, AreItems(e), NEW f, AreItems(f), Later(f, e), Later(e, d)
    PROVE  Later(f, d) /\ Later(d, d)
  <1> SUFFICES ASSUME NEW n \in Nat
               PROVE  Covered(f, n) >= Covered(d, n) /\ Covered(d, n) >= Covered(d, n)
    BY DEF Later
  <1>1. Covered(f, n) \in Nat /\ Covered(e, n) \in Nat /\ Covered(d, n) \in Nat
    BY CoveredNat
  <1>2. Covered(f, n) >= Covered(e, n) /\ Covered(e, n) >= Covered(d, n)
    BY DEF Later
  <1> QED  BY <1>1, <1>2

(* What replacing makes of text and tags like these.                       *)
Rests(r, d) ==
    /\ IsResult(r) /\ Level(r.data) /\ Later(r.data, d) /\ Named(r.tags, P!Tags)
    /\ ~r.lost => Rooted(r.data, r.tags) /\ Named(r.tags, P!Tags \ P!Void)

(* The tags of us are some of those of ts.                                 *)
Among(us, ts) == \A k \in 1..Len(us) : us[k] \in {ts[j] : j \in 1..Len(ts)}

(* Some of the tags keep their names and places when all do.               *)
LEMMA AmongKeep ==
    ASSUME NEW ts, AreTags(ts), NEW us, Among(us, ts), NEW S, Named(ts, S),
           NEW d, NEW e, Rooted(d, ts),
           \A t : IsTag(t) /\ Placed(d, t) /\ Closed(d, t) => Placed(e, t) /\ Closed(e, t)
    PROVE  Named(us, S) /\ Rooted(e, us)
  BY DEF Among, Named, Rooted, AreTags

(* A last tag that is not closed is replaced, or it is not at its          *)
(* positions.                                                              *)
LEMMA VoidResult ==
    ASSUME NEW d, Level(d), NEW ts, AreTags(ts), Rooted(d, ts), Named(ts, P!Tags),
           \A k \in 1..Len(ts) - 1 : ts[k].name \notin P!Void,
           NEW r, r = P!VoidReplaced([tags |-> ts, data |-> d, lost |-> FALSE])
    PROVE  Rests(r, d)
  <1> DEFINE v == [tags |-> ts, data |-> d, lost |-> FALSE]
             n == Len(ts)
             c == ts[n]
  <1>0. v.tags = ts /\ v.data = d /\ v.lost = FALSE /\ n \in Nat /\ AreItems(d)
    BY SeqIs DEF AreTags, Level
  <1>1. IsResult(v) /\ IsResult(r)
    BY <1>0, VoidKeeps DEF IsResult
  <1>2. Later(d, d)
    BY <1>0, CoveredNat DEF Later
  <1>3. CASE ts = <<>> \/ c.name \notin P!Void
    <2>1. r = v
      BY <1>3 DEF P!VoidReplaced, P!Last
    <2>2. Named(ts, P!Tags \ P!Void)
      <3>1. ASSUME NEW k \in 1..n PROVE ts[k].name \in P!Tags \ P!Void
        <4>1. k \in 1..n - 1 \/ k = n
          BY <1>0
        <4>2. ts # <<>>
          BY <1>0, <3>1
        <4> QED  BY <1>3, <4>1, <4>2 DEF Named
      <3> QED  BY <3>1 DEF Named
    <2> HIDE DEF v
    <2> QED  BY <1>0, <1>1, <1>2, <2>1, <2>2 DEF Rests
  <1>4. CASE ~(ts = <<>> \/ c.name \notin P!Void) /\ ~P!InPlace(d, c)
    <2>1. r = [v EXCEPT !.lost = TRUE]
      BY <1>4 DEF P!VoidReplaced, P!Last
    <2>2. r.tags = ts /\ r.data = d /\ r.lost = TRUE
      BY <2>1
    <2> QED  BY <1>1, <1>2, <2>2 DEF Rests
  <1>5. CASE ~(ts = <<>> \/ c.name \notin P!Void) /\ P!InPlace(d, c)
    <2> DEFINE e == P!Replaced(d, c)
               us == SubSeq(ts, 1, n - 1)
    <2>1. r = [v EXCEPT !.data = P!Replaced(d, c), !.tags = SubSeq(ts, 1, n - 1)]
      BY <1>5 DEF P!VoidReplaced, P!Last, P!Front
    <2>2. r.tags = us /\ r.data = e /\ r.lost = FALSE
      BY <2>1
    <2> HIDE DEF e, us, v
    <2>3. n \in 1..n /\ n - 1 \in Nat /\ n - 1 <= n
      <3>1. n # 0
        BY <1>0, <1>5, SeqIs, EmptySeq DEF AreTags
      <3> QED  BY <1>0, <3>1
    <2>4. IsTag(c) /\ Placed(d, c) /\ Closed(d, c) /\ c.name \in P!Void
      BY <1>5, <2>3 DEF AreTags, Rooted
    <2>5. /\ Level(e) /\ Later(e, d)
          /\ \A t : IsTag(t) /\ Placed(d, t) /\ Closed(d, t) => Placed(e, t) /\ Closed(e, t)
      BY <1>5, <2>4, VoidLevel DEF e
    <2>6. Len(us) = n - 1 /\ \A k \in 1..n - 1 : us[k] = ts[k]
      BY <1>0, <2>3, TagsPart DEF us
    <2>7. Among(us, ts) /\ \A k \in 1..n - 1 : k \in 1..n
      BY <1>0, <2>6 DEF Among
    <2>8. Named(us, P!Tags) /\ Rooted(e, us)
      BY <2>5, <2>7, AmongKeep
    <2>9. Named(us, P!Tags \ P!Void)
      BY <2>6, <2>8 DEF Named
    <2> QED  BY <1>1, <2>2, <2>5, <2>8, <2>9 DEF Rests
  <1> QED  BY <1>3, <1>4, <1>5

(* A last tag that closes is replaced with its opening tag, kept, or not   *)
(* at its positions.                                                       *)
LEMMA PairResult ==
    ASSUME NEW d, AreItems(d), NEW r, Rests(r, d), NEW q, q = P!PairReplaced(r)
    PROVE  Rests(q, d)
  <1> DEFINE ts == r.tags
             n == Len(ts)
             k == P!OpenerOf(ts)
             d1 == P!Replaced(r.data, ts[n])
  <1>0. /\ AreTags(ts) /\ AreItems(r.data) /\ n \in Nat /\ IsResult(r) /\ IsResult(q)
        /\ Level(r.data) /\ Later(r.data, d) /\ Named(ts, P!Tags)
    BY SeqIs, PairKeeps DEF IsResult, AreTags, Rests
  <1>1. CASE r.lost \/ ts = <<>> \/ ts[n].type = "opening"
    <2>1. q = r
      BY <1>1 DEF P!PairReplaced, P!Last
    <2> QED  BY <2>1
  <1>2. CASE ~(r.lost \/ ts = <<>> \/ ts[n].type = "opening")
    <2>1. n \in 1..n /\ 1 \in 1..n /\ n - 1 \in Nat /\ n - 1 <= n
      <3>1. n # 0
        BY <1>0, <1>2, SeqIs, EmptySeq DEF AreTags
      <3> QED  BY <1>0, <3>1
    <2>2. /\ IsTag(ts[n]) /\ ts[n].type = "closing" /\ Rooted(r.data, ts)
          /\ Named(ts, P!Tags \ P!Void)
      BY <1>0, <1>2, <2>1 DEF AreTags, Rests, IsTag
    <2>3. CASE k = 0
      <3> DEFINE us == Append(P!LeaveClosings(ts, 1), ts[n])
      <3>1. q = [r EXCEPT !.tags = us]
        BY <1>2, <2>3 DEF P!PairReplaced, P!Last
      <3>2. q.tags = us /\ q.data = r.data /\ q.lost = FALSE
        BY <1>0, <1>2, <3>1 DEF IsResult
      <3>3. Among(us, ts)
        <4>1. /\ AreTags(P!LeaveClosings(ts, 1))
              /\ Among(P!LeaveClosings(ts, 1), ts)
          BY <1>0, <2>1, LeaveIs DEF Among
        <4> DEFINE cs == P!LeaveClosings(ts, 1)
        <4> HIDE DEF cs
        <4>2. /\ Len(us) = Len(cs) + 1 /\ us[Len(cs) + 1] = ts[n] /\ Len(cs) \in Nat
              /\ \A j \in 1..Len(cs) : us[j] = cs[j]
          BY <2>2, <4>1, TagsAppend DEF cs
        <4>3. \A j \in 1..Len(cs) + 1 : j \in 1..Len(cs) \/ j = Len(cs) + 1
          BY <4>2
        <4> HIDE DEF us
        <4> QED  BY <2>1, <4>1, <4>2, <4>3 DEF Among, cs
      <3> HIDE DEF us
      <3>4. /\ Named(us, P!Tags) /\ Named(us, P!Tags \ P!Void) /\ Rooted(r.data, us)
        BY <1>0, <2>2, <3>3, AmongKeep
      <3> QED  BY <1>0, <3>2, <3>4 DEF Rests
    <2>4. CASE k # 0 /\ (~P!InPlace(r.data, ts[n]) \/ ~P!InPlace(d1, ts[k]))
      <3>1. q = [r EXCEPT !.lost = TRUE]
        BY <1>2, <2>4 DEF P!PairReplaced, P!Last
      <3>2. q.tags = ts /\ q.data = r.data /\ q.lost = TRUE
        BY <1>0, <3>1 DEF IsResult
      <3> QED  BY <1>0, <3>2 DEF Rests
    <2>5. CASE k # 0 /\ P!InPlace(r.data, ts[n]) /\ P!InPlace(d1, ts[k])
      <3> DEFINE cs == P!LeaveClosings(ts, k + 1)
                 fs == SubSeq(ts, 1, k - 1)
                 us == fs \o cs
                 e  == P!Replaced(d1, ts[k])
      <3>1. q = [r EXCEPT !.tags = us, !.data = e]
        BY <1>2, <2>5 DEF P!PairReplaced, P!Last
      <3>2. q.tags = us /\ q.data = e /\ q.lost = FALSE
        BY <1>0, <1>2, <3>1 DEF IsResult
      <3>3. k \in 1..(n - 1) /\ ts[k].type = "opening" /\ ts[k].name = ts[n].name
        BY <1>0, <1>2, <2>5, OpenerIs
      <3>4. k \in 1..n /\ k + 1 \in 1..n /\ k - 1 \in Nat /\ k - 1 <= n
        BY <1>0, <3>3
      <3> HIDE DEF us, e, k
      <3>5. /\ IsTag(ts[k]) /\ Placed(r.data, ts[k]) /\ Closed(r.data, ts[k])
            /\ Placed(r.data, ts[n]) /\ Closed(r.data, ts[n]) /\ ts[n].name \in P!Tags \ P!Void
        BY <1>0, <2>1, <2>2, <3>4 DEF AreTags, Rooted, Named
      <3>6. /\ Level(e) /\ Later(e, r.data)
            /\ \A t : IsTag(t) /\ Placed(r.data, t) /\ Closed(r.data, t)
                      => Placed(e, t) /\ Closed(e, t)
        BY <1>0, <2>2, <2>5, <3>3, <3>5, PairLevel DEF e
      <3>7. Among(us, ts)
        <4>1. Among(cs, ts) /\ IsSeq(cs) /\ Len(cs) \in Nat
          BY <1>0, <3>4, LeaveIs, SeqIs DEF Among, AreTags
        <4>2. Among(fs, ts) /\ IsSeq(fs) /\ Len(fs) \in Nat
          <5>1. /\ AreTags(fs) /\ Len(fs) = k - 1 /\ \A j \in 1..k - 1 : fs[j] = ts[j]
            BY <1>0, <3>4, TagsPart
          <5>2. \A j \in 1..k - 1 : j \in 1..n
            BY <1>0, <3>4
          <5> QED  BY <3>4, <5>1, <5>2 DEF Among, AreTags
        <4> HIDE DEF cs, fs
        <4>3. /\ Len(us) = Len(fs) + Len(cs)
              /\ \A j \in 1..(Len(fs) + Len(cs)) :
                    us[j] = IF j <= Len(fs) THEN fs[j] ELSE cs[j - Len(fs)]
          BY <4>1, <4>2, SeqConcat DEF us
        <4>4. \A j \in 1..(Len(fs) + Len(cs)) :
                 IF j <= Len(fs) THEN j \in 1..Len(fs) ELSE j - Len(fs) \in 1..Len(cs)
          BY <4>1, <4>2
        <4> QED  BY <4>1, <4>2, <4>3, <4>4 DEF Among
      <3>8. Named(us, P!Tags) /\ Named(us, P!Tags \ P!Void) /\ Rooted(e, us)
        BY <1>0, <2>2, <3>6, <3>7, AmongKeep
      <3>9. Later(e, d)
        <4>1. AreItems(e)
          BY <3>6 DEF Level
        <4> QED  BY <1>0, <3>6, <4>1, LaterIs
      <3> QED  BY <1>0, <3>2, <3>6, <3>8, <3>9 DEF Rests
    <2> QED  BY <2>3, <2>4, <2>5
  <1> QED  BY <1>1, <1>2

-----------------------------------------------------------------------------
(* The states of the table, and those that end a tag.                      *)
Waits(s) == \/ s \in {P!Text, <<"open", "">>, <<"close", "">>}
            \/ \E x \in P!Tags : s \in {<<"name", x>>, <<"endname", x>>, <<"equals", x>>,
                                        <<"value", x>>, <<"found", x>>, <<"link", x>>}
Stops(s) == \E x \in P!Tags : s \in {<<"set", x>>, <<"ended", x>>, <<"break", x>>}

(* Tags that rows of the table name, and their classes.                    *)
LEMMA SomeTags ==
    /\ {"O", "WHITE", "CODE", "FACE", "IMG", "URL", "EMAIL", "LIST", "QUOTE"} \subseteq P!Tags
    /\ P!Plain \subseteq P!Tags /\ P!Valued \subseteq P!Tags /\ P!Tags \subseteq P!Lexemes
    /\ "URL" \notin P!Void
  BY DEF P!Tags, P!Plain, P!Colours, P!Void, P!Valued, P!Words, P!Linked, P!Lexemes

(* Where a lexeme may lead to: no [ ends a tag.                            *)
Leads(s, l) == /\ s = P!Error \/ Waits(s) \/ Stops(s)
               /\ s[1] \in {"found", "set", "ended"} => l # "["

(* The states lead to each other.                                          *)
LEMMA RowsAre ==
    ASSUME NEW x \in P!Tags, NEW l
    PROVE  /\ Leads(<<"name", x>>, l) /\ Leads(<<"endname", x>>, l) /\ Leads(<<"equals", x>>, l)
           /\ Leads(<<"value", x>>, l) /\ Leads(<<"link", x>>, l) /\ Leads(<<"break", x>>, l)
           /\ Leads(P!Text, l) /\ Leads(<<"open", "">>, l) /\ Leads(<<"close", "">>, l)
           /\ Leads(P!Error, l)
           /\ l # "[" => /\ Leads(<<"found", x>>, l) /\ Leads(<<"set", x>>, l)
                         /\ Leads(<<"ended", x>>, l)
  <1>1. /\ Waits(<<"name", x>>) /\ Waits(<<"endname", x>>) /\ Waits(<<"equals", x>>)
        /\ Waits(<<"value", x>>) /\ Waits(<<"found", x>>) /\ Waits(<<"link", x>>)
        /\ Waits(P!Text) /\ Waits(<<"open", "">>) /\ Waits(<<"close", "">>)
        /\ Stops(<<"set", x>>) /\ Stops(<<"ended", x>>) /\ Stops(<<"break", x>>)
    BY DEF Waits, Stops
  <1>2. P!Text[1] = "text" /\ P!Error[1] = "error"
    BY DEF P!Text, P!Error
  <1> QED  BY <1>1, <1>2 DEF Leads

(* A long word is the only lexeme whose kind is not its name.              *)
LEMMA KindsOf ==
    ASSUME NEW l \in P!Lexemes
    PROVE  P!Kind(l) = "[" <=> l = "["
  BY DEF P!Kind

(* Every row of the table leads to one of them, or does not fit; no [ ends *)
(* a tag.                                                                  *)
LEMMA RowsOfName ==
    ASSUME NEW x \in P!Tags, NEW l,
           NEW s, s \in {P!AfterName(x, l), P!AfterEndName(x, l), P!AfterURL(l)}
    PROVE  Leads(s, l)
  <1>1. CASE s = P!AfterName(x, l)
    <2>1. \A y \in P!Tags : P!NameBlank(y) \in {<<"name", z>> : z \in P!Tags} \cup {<<"found", "CODE">>}
      BY SomeTags DEF P!NameBlank
    <2>2. CASE l = "]" /\ x \notin P!Words
      BY <1>1, <2>2, RowsAre DEF P!AfterName
    <2>3. CASE ~(l = "]" /\ x \notin P!Words) /\ l = "=" /\ x \in P!Valued
      <3>1. s = <<"equals", x>>
        BY <1>1, <2>3 DEF P!AfterName
      <3> QED  BY <3>1, RowsAre
    <2>4. CASE l = "SP"
      <3>1. s = P!NameBlank(x)
        BY <1>1, <2>4 DEF P!AfterName
      <3>2. CASE s = <<"found", "CODE">>
        BY <2>4, <3>2, SomeTags, RowsAre
      <3>3. CASE \E z \in P!Tags : s = <<"name", z>>
        BY <3>3, RowsAre
      <3> QED  BY <2>1, <3>1, <3>2, <3>3
    <2>5. CASE ~(l = "]" /\ x \notin P!Words) /\ ~(l = "=" /\ x \in P!Valued) /\ l # "SP"
      <3>1. s = P!Error
        BY <1>1, <2>5 DEF P!AfterName
      <3> QED  BY <3>1, RowsAre
    <2> QED  BY <2>2, <2>3, <2>4, <2>5
  <1>2. CASE s = P!AfterEndName(x, l)
    <2>1. CASE l = "]"
      <3>1. s = <<"ended", x>>
        BY <1>2, <2>1 DEF P!AfterEndName
      <3> QED  BY <2>1, <3>1, RowsAre
    <2>2. CASE l = "SP"
      <3>1. \E z \in P!Tags : s = <<"endname", z>>
        BY <1>2, <2>2, SomeTags DEF P!AfterEndName, P!EndBlank
      <3> QED  BY <3>1, RowsAre
    <2>3. CASE l \notin {"]", "SP"}
      <3>1. s = P!Error
        BY <1>2, <2>3 DEF P!AfterEndName
      <3> QED  BY <3>1, RowsAre
    <2> QED  BY <2>1, <2>2, <2>3
  <1>3. CASE s = P!AfterURL(l)
    <2>1. CASE l = "SP"
      <3>1. s = <<"found", "URL">>
        BY <1>3, <2>1 DEF P!AfterURL
      <3> QED  BY <2>1, <3>1, SomeTags, RowsAre
    <2>2. CASE l \in {"WORD", "/"}
      <3>1. s = <<"link", "URL">>
        BY <1>3, <2>2 DEF P!AfterURL
      <3> QED  BY <3>1, SomeTags, RowsAre
    <2>3. CASE l \notin {"SP", "WORD", "/"}
      <3>1. s = P!Error
        BY <1>3, <2>3 DEF P!AfterURL
      <3> QED  BY <3>1, RowsAre
    <2> QED  BY <2>1, <2>2, <2>3
  <1> QED  BY <1>1, <1>2, <1>3

(* The rows for values and links.                                          *)
LEMMA RowsOfValue ==
    ASSUME NEW x \in P!Tags, NEW l,
           NEW s, s \in {P!AfterEquals(x, l), P!AfterValue(x, l), P!AfterLink(x, l)}
    PROVE  Leads(s, l)
  <1>1. CASE s = P!AfterEquals(x, l)
    <2>1. s \in {<<"equals", x>>, <<"value", x>>, P!Error}
      BY <1>1 DEF P!AfterEquals, P!Stay
    <2> QED  BY <2>1, RowsAre
  <1>2. CASE s = P!AfterValue(x, l)
    <2>1. CASE l = "]"
      <3>1. s \in {<<"found", x>>, <<"set", x>>}
        BY <1>2, <2>1 DEF P!AfterValue
      <3>2. l # "["
        BY <2>1
      <3> QED  BY <3>1, <3>2, RowsAre
    <2>2. CASE l # "]"
      <3>1. s \in {<<"value", x>>, P!Error}
        BY <1>2, <2>2 DEF P!AfterValue, P!Stay
      <3> QED  BY <3>1, RowsAre
    <2> QED  BY <2>1, <2>2
  <1>3. CASE s = P!AfterLink(x, l)
    <2>1. s \in {<<"break", x>>, <<"link", x>>, P!Error}
      BY <1>3 DEF P!AfterLink, P!Stay
    <2> QED  BY <2>1, RowsAre
  <1> QED  BY <1>1, <1>2, <1>3

(* The rows of all the states.                                             *)
LEMMA TableIs ==
    ASSUME NEW st, Waits(st), NEW l, NEW s, s = P!Parser(st, l)
    PROVE  Leads(s, l)
  <1>0. /\ Leads(P!Text, l) /\ Leads(<<"open", "">>, l) /\ Leads(<<"close", "">>, l)
        /\ Leads(P!Error, l)
    <2>1. "URL" \in P!Tags
      BY SomeTags
    <2> QED  BY <2>1, RowsAre
  <1>1. CASE st = P!Text
    <2>1. s \in {<<"open", "">>, P!Text}
      BY <1>1 DEF P!Parser, P!Text
    <2> QED  BY <1>0, <2>1
  <1>2. CASE st = <<"open", "">>
    <2>1. s = P!Opened(l)
      BY <1>2 DEF P!Parser
    <2>2. s \in {<<"close", "">>, P!Error} \/ (l \in P!Tags /\ s = <<"name", l>>)
      BY <2>1 DEF P!Opened
    <2> QED  BY <1>0, <2>2, RowsAre
  <1>3. CASE st = <<"close", "">>
    <2>1. s = P!Closing(l)
      BY <1>3 DEF P!Parser
    <2>2. s = P!Error \/ (l \in P!Tags /\ s \in {<<"name", l>>, <<"endname", l>>})
      BY <2>1, SomeTags DEF P!Closing
    <2> QED  BY <1>0, <2>2, RowsAre
  <1>4. ASSUME NEW x \in P!Tags,
               st \in {<<"name", x>>, <<"endname", x>>, <<"equals", x>>,
                       <<"value", x>>, <<"found", x>>, <<"link", x>>}
        PROVE  Leads(s, l)
    <2>1. CASE st \in {<<"name", x>>, <<"endname", x>>, <<"found", x>>}
      <3>1. /\ P!Parser(<<"name", x>>, l) = P!AfterName(x, l)
            /\ P!Parser(<<"endname", x>>, l) = P!AfterEndName(x, l)
            /\ P!Parser(<<"found", x>>, l) = P!AfterURL(l)
        BY DEF P!Parser
      <3> QED  BY <2>1, <3>1, RowsOfName
    <2>2. CASE st \in {<<"equals", x>>, <<"value", x>>, <<"link", x>>}
      <3>1. /\ P!Parser(<<"equals", x>>, l) = P!AfterEquals(x, l)
            /\ P!Parser(<<"value", x>>, l) = P!AfterValue(x, l)
            /\ P!Parser(<<"link", x>>, l) = P!AfterLink(x, l)
        BY DEF P!Parser
      <3> QED  BY <2>2, <3>1, RowsOfValue
    <2> QED  BY <1>4, <2>1, <2>2
  <1> QED  BY <1>1, <1>2, <1>3, <1>4 DEF Waits

(* After replacements the table goes on from one of its states.            *)
LEMMA GoesTo ==
    ASSUME NEW s, Waits(s) \/ Stops(s)
    PROVE  Waits(IF P!Ends(s) THEN P!Ret(s) ELSE s)
  <1>1. CASE P!Ends(s)
    <2>1. P!Ret(s) \in {<<"open", "">>, <<"link", "IMG">>, <<"link", "EMAIL">>, P!Text}
      BY DEF P!Ret
    <2> QED  BY <1>1, <2>1, SomeTags DEF Waits
  <1>2. CASE ~P!Ends(s)
    <2>1. ~Stops(s)
      BY <1>2 DEF Stops, P!Ends
    <2> QED  BY <1>2, <2>1
  <1> QED  BY <1>1, <1>2

-----------------------------------------------------------------------------
(* The tag being read began with a lexeme that has been parsed, and what   *)
(* is in front of it now stands for no less than when it was noted.        *)
Pending(d, t, n) == t.from <= n /\ Covered(d, t.left) >= t.from - 1

(* What is well nested stays so: the state is one of the table, the tags   *)
(* have names, and unless one of them was not at its positions they are at *)
(* their places.                                                           *)
Nested ==
    /\ Waits(state) /\ Level(data) /\ Named(tags, P!Tags)
    /\ ~lost => /\ Rooted(data, tags) /\ Named(tags, P!Tags \ P!Void)
                /\ Pending(data, tmp, at)

(* That holds of no tag.                                                   *)
LEMMA ClearedPending ==
    ASSUME NEW d, AreItems(d), NEW n \in Nat
    PROVE  Pending(d, P!Cleared, n)
  <1>1. P!Cleared.from = 0 /\ P!Cleared.left = 0
    BY DEF P!Cleared
  <1>2. Covered(d, 0) \in Nat
    BY CoveredNat
  <1> QED  BY <1>1, <1>2 DEF Pending

(* The next lexeme may begin a tag; a tag begun before is left as it is.   *)
LEMMA NotedPending ==
    ASSUME AreItems(data), at \in Nat, Len(P!Source(data)) = at, NEW l \in P!Lexemes,
           NEW d, d = Append(data, P!Lexeme(l)), NEW t, IsTag(t), Pending(data, t, at)
    PROVE  /\ Pending(d, P!Noted(t, l, d), at + 1)
           /\ l # "[" => P!Noted(t, l, d).from <= at
  <1>1. /\ AreItems(d) /\ Len(data) \in Nat /\ Len(d) = Len(data) + 1
    BY WithLexeme
  <1>2. \A n \in Nat : Covered(d, n) = Covered(data, n)
    BY CoveredAppend
  <1>3. Covered(data, Len(data)) = at
    BY CoveredAll
  <1>4. t.from \in Nat /\ t.left \in Nat /\ Covered(data, t.left) \in Nat
    BY CoveredNat DEF IsTag
  <1>5. CASE l = "["
    <2>1. P!Noted(t, l, d).from = at + 1 /\ P!Noted(t, l, d).left = Len(d) - 1
      BY <1>5 DEF P!Noted, IsTag
    <2>2. Len(d) - 1 = Len(data)
      BY <1>1
    <2>3. Covered(d, Len(data)) = at
      BY <1>1, <1>2, <1>3
    <2> QED  BY <1>5, <2>1, <2>2, <2>3 DEF Pending
  <1>6. CASE l # "["
    <2>1. P!Noted(t, l, d).from = t.from /\ P!Noted(t, l, d).left = t.left
      BY <1>6 DEF P!Noted, IsTag
    <2>2. Covered(d, t.left) = Covered(data, t.left)
      BY <1>2, <1>4
    <2> QED  BY <1>4, <2>1, <2>2 DEF Pending
  <1> QED  BY <1>5, <1>6

(* A tag that is complete is at its place, or behind it.                   *)
LEMMA RecordedRooted ==
    ASSUME AreItems(data), at \in Nat, Len(P!Source(data)) = at, NEW l \in P!Lexemes,
           NEW d, d = Append(data, P!Lexeme(l)), Solid(d),
           NEW t, IsTag(t), Pending(d, t, at + 1), t.from <= at,
           NEW c, IsTag(c), c.from = t.from, c.left = t.left, c.right = Len(d)
    PROVE  Placed(d, c) /\ Closed(d, c)
  <1>1. AreItems(d) /\ Len(data) \in Nat /\ Len(d) = Len(data) + 1
    BY WithLexeme
  <1>2. Covered(data, Len(data)) = at /\ Covered(d, Len(data)) = Covered(data, Len(data))
    BY <1>1, CoveredAll, CoveredAppend
  <1>3. c.left \in Nat /\ c.from \in Nat /\ Covered(d, c.left) \in Nat
    BY <1>1, CoveredNat DEF IsTag
  <1>4. Covered(d, c.left) >= c.from - 1
    BY DEF Pending
  <1>5. ASSUME c.left >= Len(data) PROVE Covered(d, c.left) >= at
    <2>1. CASE c.left = Len(data)
      BY <1>2, <2>1
    <2>2. CASE Len(data) < c.left
      <3>1. Covered(d, Len(data)) < Covered(d, c.left)
        BY <1>1, <1>3, <2>2, CoveredGrows
      <3> QED  BY <1>2, <1>3, <3>1
    <2> QED  BY <1>1, <1>3, <1>5, <2>1, <2>2
  <1>6. Placed(d, c)
    <2>1. ASSUME Covered(d, c.left) = c.from - 1 PROVE c.left + 1 < c.right
      <3>1. ~(c.left >= Len(data))
        BY <1>3, <1>5, <2>1
      <3> QED  BY <1>1, <1>3, <3>1
    <2> QED  BY <1>4, <2>1 DEF Placed
  <1>7. Closed(d, c)
    BY TagFlat DEF Closed
  <1> QED  BY <1>6, <1>7

(* Replacing keeps all this, and nothing stands for less.                  *)
LEMMA GoNested ==
    ASSUME NEW s, Waits(s) \/ Stops(s), NEW d, Level(d), NEW ts, AreTags(ts), Rooted(d, ts),
           Named(ts, P!Tags), \A k \in 1..Len(ts) - 1 : ts[k].name \notin P!Void,
           ~P!Ends(s) => Named(ts, P!Tags \ P!Void), P!Go(s, ts, d)
    PROVE  /\ Waits(state') /\ Level(data') /\ Later(data', d) /\ Named(tags', P!Tags)
           /\ ~lost' => Rooted(data', tags') /\ Named(tags', P!Tags \ P!Void)
  <1>0. AreItems(d)
    BY DEF Level
  <1>1. Waits(state')
    BY GoesTo DEF P!Go
  <1>2. CASE P!Ends(s)
    <2> DEFINE v == [tags |-> ts, data |-> d, lost |-> FALSE]
    <2>1. Rests(P!VoidReplaced(v), d)
      BY VoidResult
    <2> HIDE DEF v
    <2>2. Rests(P!PairReplaced(P!VoidReplaced(v)), d)
      BY <1>0, <2>1, PairResult
    <2>3. Rests(P!Replacements(ts, d), d)
      BY <2>2 DEF P!Replacements, v
    <2>4. /\ tags' = P!Replacements(ts, d).tags /\ data' = P!Replacements(ts, d).data
          /\ lost' = P!Replacements(ts, d).lost
      BY <1>2 DEF P!Go
    <2> QED  BY <1>1, <2>3, <2>4 DEF Rests
  <1>3. CASE ~P!Ends(s)
    <2>1. tags' = ts /\ data' = d
      BY <1>3 DEF P!Go
    <2>2. Later(d, d)
      BY <1>0, CoveredNat DEF Later
    <2> QED  BY <1>1, <1>3, <2>1, <2>2
  <1> QED  BY <1>2, <1>3

-----------------------------------------------------------------------------
(* A tag has its place whatever its value is.                              *)
LEMMA BackRooted ==
    ASSUME NEW ts, AreTags(ts), NEW x, NEW l, NEW d, Rooted(d, ts)
    PROVE  /\ Rooted(d, P!AddToBack(ts, x, l))
           /\ \A S : Named(ts, S) => Named(P!AddToBack(ts, x, l), S)
  <1>0. Len(ts) \in Nat /\ (ts = <<>> <=> Len(ts) = 0)
    BY SeqIs, EmptySeq DEF AreTags
  <1>1. CASE ts # <<>> /\ ts[Len(ts)].name = x
    <2> DEFINE n == Len(ts)
               e == [ts[n] EXCEPT !.attr = P!Add(@, x, l)]
               us == [ts EXCEPT ![n] = e]
    <2>1. P!AddToBack(ts, x, l) = us
      BY <1>1 DEF P!AddToBack, P!Last
    <2>2. n \in 1..n
      BY <1>0, <1>1
    <2>3. /\ e.name = ts[n].name /\ e.from = ts[n].from
          /\ e.left = ts[n].left /\ e.right = ts[n].right
      BY <2>2 DEF IsTag, AreTags
    <2> HIDE DEF e
    <2>4. /\ ts \in Seq({ts[k] : k \in 1..n} \cup {e})
      <3>1. ts \in Seq({ts[k] : k \in 1..n})
        BY SeqIs DEF AreTags
      <3> QED  BY <3>1, SeqMonotonic
    <2>5. /\ Len(us) = n
          /\ \A k \in 1..n : us[k] = IF k = n THEN e ELSE ts[k]
      BY <2>2, <2>4
    <2> HIDE DEF us
    <2>6. Placed(d, e) /\ Closed(d, e)
      <3>1. Placed(d, ts[n]) /\ Closed(d, ts[n])
        BY <2>2 DEF Rooted
      <3> QED  BY <2>3, <3>1 DEF Placed, Closed, P!InPlace
    <2>7. Rooted(d, us)
      BY <2>5, <2>6 DEF Rooted
    <2>8. \A S : Named(ts, S) => Named(us, S)
      BY <2>2, <2>3, <2>5 DEF Named
    <2> QED  BY <2>1, <2>7, <2>8
  <1>2. CASE ~(ts # <<>> /\ ts[Len(ts)].name = x)
    BY <1>2 DEF P!AddToBack, P!Last
  <1> QED  BY <1>1, <1>2

(* A state that ends a tag has its name.                                   *)
LEMMA NameIs ==
    ASSUME NEW s, Waits(s) \/ Stops(s), s[1] \in {"found", "set", "ended"}
    PROVE  s[2] \in P!Tags
  <1>1. \A x : s \notin {<<"open", x>>, <<"close", x>>, <<"text", x>>, <<"name", x>>,
                         <<"endname", x>>, <<"equals", x>>, <<"value", x>>, <<"link", x>>,
                         <<"break", x>>}
    OBVIOUS
  <1>2. PICK x \in P!Tags : s \in {<<"found", x>>, <<"set", x>>, <<"ended", x>>}
    <2>1. CASE Waits(s)
      <3>1. s \notin {P!Text, <<"open", "">>, <<"close", "">>}
        BY <1>1 DEF P!Text
      <3>2. PICK x \in P!Tags : s \in {<<"name", x>>, <<"endname", x>>, <<"equals", x>>,
                                       <<"value", x>>, <<"found", x>>, <<"link", x>>}
        BY <2>1, <3>1 DEF Waits
      <3> QED  BY <1>1, <3>2
    <2>2. CASE Stops(s)
      <3>1. PICK x \in P!Tags : s \in {<<"set", x>>, <<"ended", x>>, <<"break", x>>}
        BY <2>2 DEF Stops
      <3> QED  BY <1>1, <3>1
    <2> QED  BY <2>1, <2>2
  <1> QED  BY <1>2

(* A lexeme that fits.                                                     *)
LEMMA AcceptNested ==
    ASSUME ParserInv, ~lost, Nested, Len(P!Source(data)) = at, NEW l \in P!Lexemes,
           NEW d, d = Append(data, P!Lexeme(l)), NEW t, t = P!Noted(tmp, l, d),
           NEW s, Waits(s) \/ Stops(s), s[1] \in {"found", "set", "ended"} => l # "[",
           P!Accept(s, l, t, d), at' = at + 1
    PROVE  Nested'
  <1>1. /\ AreItems(data) /\ AreTags(tags) /\ IsTag(tmp) /\ at \in Nat
        /\ Level(data) /\ Rooted(data, tags) /\ Named(tags, P!Tags)
        /\ Named(tags, P!Tags \ P!Void) /\ Pending(data, tmp, at)
    BY DEF ParserInv, Nested
  <1>2. /\ Level(d) /\ AreItems(d) /\ Rooted(d, tags) /\ Solid(d) /\ Len(d) \in Nat \ {0}
        /\ Len(data) \in Nat
    <2>1. Level(d) /\ Rooted(d, tags)
      BY <1>1, AppendLevel, AppendRooted
    <2>2. Len(d) = Len(data) + 1 /\ Len(data) \in Nat
      BY <1>1, WithLexeme
    <2> QED  BY <2>1, <2>2 DEF Level
  <1>3. /\ IsTag(t) /\ Pending(d, t, at + 1)
        /\ l # "[" => t.from <= at
    <2>1. IsTag(t)
      BY <1>1, <1>2, TmpTyped
    <2> QED  BY <1>1, <2>1, NotedPending
  <1>4. \A k \in 1..Len(tags) - 1 : tags[k].name \notin P!Void
    <2>1. \A k \in 1..Len(tags) - 1 : k \in 1..Len(tags)
      BY <1>1, SeqIs DEF AreTags
    <2> QED  BY <1>1, <2>1 DEF Named
  <1>5. at + 1 \in Nat
    BY <1>1
  <1>6. ASSUME NEW ts, AreTags(ts), Rooted(d, ts), Named(ts, P!Tags),
               \A k \in 1..Len(ts) - 1 : ts[k].name \notin P!Void,
               ~P!Ends(s) => Named(ts, P!Tags \ P!Void), P!Go(s, ts, d),
               tmp' = P!Cleared \/ (tmp'.from = t.from /\ tmp'.left = t.left)
        PROVE  Nested'
    <2>1. /\ Waits(state') /\ Level(data') /\ Later(data', d) /\ Named(tags', P!Tags)
          /\ ~lost' => Rooted(data', tags') /\ Named(tags', P!Tags \ P!Void)
      BY <1>2, <1>6, GoNested
    <2>2. AreItems(data')
      BY <2>1 DEF Level
    <2>3. CASE tmp' = P!Cleared
      <3>1. Pending(data', tmp', at + 1)
        BY <1>5, <2>2, <2>3, ClearedPending
      <3> QED  BY <2>1, <3>1 DEF Nested
    <2>4. CASE tmp'.from = t.from /\ tmp'.left = t.left
      <3>1. Pending(data', tmp', at + 1)
        <4>1. t.left \in Nat /\ t.from \in Nat
          BY <1>3 DEF IsTag
        <4>2. Covered(data', t.left) >= Covered(d, t.left)
          BY <2>1, <4>1 DEF Later
        <4>3. Covered(data', t.left) \in Nat /\ Covered(d, t.left) \in Nat
          BY <1>2, <2>2, <4>1, CoveredNat
        <4> QED  BY <1>3, <2>4, <4>1, <4>2, <4>3 DEF Pending
      <3> QED  BY <2>1, <3>1 DEF Nested
    <2> QED  BY <1>6, <2>3, <2>4
  <1>7. CASE s = P!Text
    <2>1. tmp' = P!Cleared /\ P!Go(s, tags, d)
      BY <1>7 DEF P!Accept, P!Text
    <2> QED  BY <1>1, <1>2, <1>4, <1>6, <2>1
  <1>8. CASE s # P!Text /\ s[1] = "value"
    <2>1. tmp' = P!Collected(t, s[2], l) /\ P!Go(s, tags, d)
      BY <1>8 DEF P!Accept
    <2>2. tmp'.from = t.from /\ tmp'.left = t.left
      BY <1>3, <2>1 DEF P!Collected, IsTag
    <2> QED  BY <1>1, <1>2, <1>4, <1>6, <2>1, <2>2
  <1>9. CASE s # P!Text /\ s[1] = "link"
    <2> DEFINE ts == P!AddToBack(tags, s[2], l)
    <2>1. /\ tmp' = IF s[2] = "EMAIL" THEN P!Collected(t, "EMAIL", l) ELSE t
          /\ P!Go(s, ts, d)
      BY <1>9 DEF P!Accept
    <2>2. tmp'.from = t.from /\ tmp'.left = t.left
      BY <1>3, <2>1 DEF P!Collected, IsTag
    <2>3. AreTags(ts) /\ Len(ts) = Len(tags) /\ Rooted(d, ts)
          /\ Named(ts, P!Tags) /\ Named(ts, P!Tags \ P!Void)
      BY <1>1, <1>2, BackTyped, BackRooted
    <2>4. \A k \in 1..Len(ts) - 1 : ts[k].name \notin P!Void
      <3>1. \A k \in 1..Len(ts) - 1 : k \in 1..Len(ts)
        BY <2>3, SeqIs DEF AreTags
      <3> QED  BY <2>3, <3>1 DEF Named
    <2> QED  BY <1>6, <2>1, <2>2, <2>3, <2>4
  <1>10. CASE s # P!Text /\ s[1] \in {"found", "set", "ended"}
    <2> DEFINE c == P!Recorded(t, s, d)
               ts == Append(tags, c)
    <2>1. tmp' = P!Cleared /\ P!Go(s, ts, d)
      BY <1>10 DEF P!Accept
    <2>2. IsTag(c)
      BY <1>1, <1>2, <1>3, TmpTyped
    <2>3. c.from = t.from /\ c.left = t.left /\ c.right = Len(d) /\ c.name = s[2]
      BY <1>3 DEF P!Recorded, IsTag
    <2>4. s[2] \in P!Tags /\ (~P!Ends(s) => s[2] \notin P!Void)
      <3>1. s[2] \in P!Tags
        BY <1>10, NameIs
      <3>2. ~P!Ends(s) => s[2] = "URL"
        BY <1>10 DEF P!Ends
      <3> QED  BY <3>1, <3>2, SomeTags
    <2> HIDE DEF c
    <2>5. Placed(d, c) /\ Closed(d, c)
      BY <1>1, <1>2, <1>3, <1>10, <2>2, <2>3, RecordedRooted
    <2>6. /\ AreTags(ts) /\ Len(ts) = Len(tags) + 1 /\ Len(tags) \in Nat
          /\ \A k \in 1..Len(tags) : ts[k] = tags[k]
          /\ ts[Len(tags) + 1] = c
      BY <1>1, <2>2, TagsAppend
    <2> HIDE DEF ts
    <2>7. \A k \in 1..Len(ts) : k \in 1..Len(tags) \/ k = Len(tags) + 1
      BY <2>6
    <2>8. Rooted(d, ts) /\ Named(ts, P!Tags)
      BY <1>1, <1>2, <2>3, <2>4, <2>5, <2>6, <2>7 DEF Rooted, Named
    <2>9. ~P!Ends(s) => Named(ts, P!Tags \ P!Void)
      BY <1>1, <2>3, <2>4, <2>6, <2>7 DEF Named
    <2>10. \A k \in 1..Len(ts) - 1 : ts[k].name \notin P!Void
      <3>1. \A k \in 1..Len(ts) - 1 : k \in 1..Len(tags)
        BY <2>6
      <3> QED  BY <1>1, <2>6, <3>1 DEF Named
    <2> QED  BY <1>6, <2>1, <2>6, <2>8, <2>9, <2>10
  <1>11. CASE s # P!Text /\ s[1] \notin {"value", "link", "found", "set", "ended"}
    <2>1. tmp' = t /\ P!Go(s, tags, d)
      BY <1>11 DEF P!Accept
    <2> QED  BY <1>1, <1>2, <1>4, <1>6, <2>1
  <1> QED  BY <1>7, <1>8, <1>9, <1>10, <1>11

(* Any lexeme: one that does not fit is read as text.                      *)
LEMMA ParseNested ==
    ASSUME LexInv, ParserInv, Nested, P!Parse, UNCHANGED lexemes
    PROVE  Nested'
  <1> DEFINE l == Handed[at + 1]
             d == Append(data, P!Lexeme(l))
             s == P!Parser(state, P!Kind(l))
  <1>1. /\ ~lost /\ at \in Nat /\ at < Len(Handed) /\ at' = at + 1
        /\ IF s = P!Error THEN P!Recover(l, d) ELSE P!Accept(s, l, P!Noted(tmp, l, d), d)
    BY DEF P!Parse, ParserInv
  <1>2. Handed \in Seq(P!Lexemes) /\ Len(Handed) = Len(lexemes)
    BY HandedIs
  <1>3. l \in P!Lexemes
    BY <1>1, <1>2
  <1>4. Leads(s, P!Kind(l)) /\ (P!Kind(l) = "[" <=> l = "[")
    BY <1>3, TableIs, KindsOf DEF Nested
  <1> HIDE DEF l, d, s
  <1>5. Len(P!Source(data)) = at
    BY AllRead
  <1>6. CASE s # P!Error
    <2>1. /\ Waits(s) \/ Stops(s)
          /\ s[1] \in {"found", "set", "ended"} => l # "["
      BY <1>4, <1>6 DEF Leads
    <2>2. P!Accept(s, l, P!Noted(tmp, l, d), d)
      BY <1>1, <1>6
    <2> QED  BY <1>1, <1>3, <1>5, <2>1, <2>2, AcceptNested DEF d
  <1>7. CASE s = P!Error
    <2>1. /\ state' = P!Parser(P!Text, l) /\ data' = d /\ tags' = tags /\ lost' = lost
          /\ tmp' = IF l = "[" THEN P!Noted(P!Cleared, l, d) ELSE P!Cleared
      BY <1>1, <1>7 DEF P!Recover
    <2>2. Waits(state')
      <3>1. P!Parser(P!Text, l) \in {<<"open", "">>, P!Text}
        BY DEF P!Parser, P!Text
      <3> QED  BY <2>1, <3>1 DEF Waits
    <2>3. /\ AreItems(data) /\ AreTags(tags) /\ Level(data) /\ Rooted(data, tags)
          /\ Named(tags, P!Tags) /\ Named(tags, P!Tags \ P!Void)
      BY <1>1 DEF ParserInv, Nested
    <2>4. Level(d) /\ Rooted(d, tags) /\ AreItems(d)
      <3>1. Level(d) /\ Rooted(d, tags)
        BY <1>3, <2>3, AppendLevel, AppendRooted DEF d
      <3> QED  BY <3>1 DEF Level
    <2>5. Pending(d, tmp', at + 1)
      <3>1. at + 1 \in Nat /\ IsTag(P!Cleared) /\ Pending(data, P!Cleared, at)
        BY <1>1, <2>3, ClearedPending, ClearedTyped
      <3>2. Pending(d, P!Cleared, at + 1)
        BY <2>4, <3>1, ClearedPending
      <3>3. Pending(d, P!Noted(P!Cleared, l, d), at + 1)
        BY <1>1, <1>3, <1>5, <2>3, <3>1, NotedPending DEF d
      <3> QED  BY <2>1, <3>2, <3>3
    <2> QED  BY <1>1, <2>1, <2>2, <2>3, <2>4, <2>5 DEF Nested
  <1> QED  BY <1>6, <1>7

(* Nothing is well nested.                                                 *)
LEMMA NestedInit == Init => Nested
  <1> SUFFICES ASSUME Init PROVE Nested
    OBVIOUS
  <1>1. /\ data = <<>> /\ tags = <<>> /\ state = P!Text /\ tmp = P!Cleared /\ lost = FALSE
        /\ at = 0
    BY DEF Init, P!Init, P!Text
  <1>2. AreItems(data)
    BY InvInit DEF ParserInv
  <1>3. \A k : k \in 1..Len(<<>>) => FALSE
    OBVIOUS
  <1>4. Solid(data) /\ Rooted(data, tags) /\ \A S : Named(tags, S)
    BY <1>1, <1>3 DEF Solid, Rooted, Named
  <1>5. Neutral(data, 0, Len(data))
    <2>1. Len(data) = 0 /\ 0 \in Nat /\ 0 <= 0 /\ \A k : k \in 0 + 1..0 => FALSE
      BY <1>1
    <2>2. Neutral(data, 0, 0)
      BY <2>1, NeutralFlat
    <2> QED  BY <2>1, <2>2
  <1>6. Pending(data, tmp, at)
    BY <1>1, <1>2, ClearedPending
  <1> QED  BY <1>1, <1>2, <1>4, <1>5, <1>6 DEF Nested, Waits, Level

(* A step of the library is one of the parser, or leaves the parser as it  *)
(* is.                                                                     *)
LEMMA NestedNext ==
    ASSUME LexInv, ParserInv, Nested, [Next]_vars
    PROVE  Nested'
  <1>1. CASE Parse
    BY <1>1, ParseNested DEF Parse, lexer
  <1>2. CASE UNCHANGED parser
    BY <1>2 DEF parser, Nested, Level
  <1> QED  BY <1>1, <1>2 DEF Next, Lex, vars

(* The HTML of a post is well nested whatever its tags are, as long as     *)
(* they are at their positions.                                            *)
THEOREM HtmlNests == Spec => []WellNested
  <1>1. Init => LexInv /\ ParserInv /\ Nested
    BY InvInit, NestedInit
  <1>2. LexInv /\ ParserInv /\ Nested /\ [Next]_vars => (LexInv /\ ParserInv /\ Nested)'
    BY InvNext, NestedNext
  <1>3. LexInv /\ ParserInv /\ Nested => WellNested
    BY NestedIs DEF Nested, Level, WellNested, P!WellNested
  <1> QED  BY <1>1, <1>2, <1>3, PTL DEF Spec
=============================================================================
