---------------------------- MODULE SequenceFacts ----------------------------
(***************************************************************************)
(* Facts on sequences that proofs about the models need: FlattenSeq of the *)
(* community modules joins its elements in order, and IsPrefix compares    *)
(* element by element.  FlattenSeq is a recursive function; what it does   *)
(* at every length comes from SetInduction, an induction over the numbers  *)
(* that needs no operator for its statement, only a set.                   *)
(***************************************************************************)
EXTENDS SequencesExt, SequenceTheorems, FiniteSetTheorems, TLAPS

(* A set with 0 and the successor of each number in it has all numbers:    *)
(* the least number outside it would have a predecessor outside it.        *)
LEMMA SetInduction ==
    ASSUME NEW D, 0 \in D, \A n \in Nat : n \in D => n + 1 \in D
    PROVE  Nat \subseteq D
  <1> DEFINE R == {ss \in Nat \X Nat : ss[1] < ss[2]}
             T == {n \in Nat : n \notin D}
  <1>1. IsWellFoundedOn(R, Nat)
    BY NatLessThanWellFounded DEF OpToRel
  <1>2. ASSUME T # {} PROVE FALSE
    <2>0. T \subseteq Nat
      OBVIOUS
    <2> HIDE DEF R, T
    <2>1. PICK x \in T : \A y \in T : ~(<<y, x>> \in R)
      BY <1>1, <1>2, <2>0, WFMin
    <2> USE DEF R, T
    <2>2. x \in Nat /\ x # 0
      OBVIOUS
    <2>3. x - 1 \in Nat /\ x - 1 \in T
      BY <2>2
    <2>4. <<x - 1, x>> \in R
      BY <2>2, <2>3
    <2> QED  BY <2>1, <2>3, <2>4
  <1> QED  BY <1>2

(* g joins the first elements of ss, up to each in turn. *)
Joins(g, ss, n) == g = [i \in 1..n |-> IF i = 1 THEN ss[i] ELSE g[i - 1] \o ss[i]]

(* There is such a function for every length.                              *)
LEMMA JoinsExist ==
    ASSUME NEW ss, NEW m \in Nat
    PROVE  \E g : Joins(g, ss, m)
  <1> DEFINE D == {n \in Nat : \E g : Joins(g, ss, n)}
  <1>1. 0 \in D
    <2>1. Joins([i \in 1..0 |-> 0], ss, 0)
      BY DEF Joins
    <2> QED  BY <2>1
  <1>2. ASSUME NEW n \in Nat, n \in D PROVE n + 1 \in D
    <2>1. PICK g : Joins(g, ss, n)
      BY <1>2
    <2> DEFINE h == [i \in 1..(n + 1) |-> IF i \in 1..n THEN g[i]
                       ELSE IF i = 1 THEN ss[i] ELSE g[i - 1] \o ss[i]]
    <2>2. ASSUME NEW i \in 1..(n + 1)
          PROVE h[i] = IF i = 1 THEN ss[i] ELSE h[i - 1] \o ss[i]
      <3>1. CASE i \in 1..n
        <4>1. g[i] = IF i = 1 THEN ss[i] ELSE g[i - 1] \o ss[i]
          BY <3>1, <2>1 DEF Joins
        <4>2. i # 1 => h[i - 1] = g[i - 1]
          BY <3>1
        <4> QED  BY <3>1, <4>1, <4>2
      <3>2. CASE i = n + 1
        BY <3>2
      <3> QED  BY <3>1, <3>2
    <2>3. Joins(h, ss, n + 1)
      BY <2>2 DEF Joins
    <2> QED  BY <2>3
  <1> HIDE DEF D
  <1>3. Nat \subseteq D
    BY <1>1, <1>2, SetInduction
  <1> QED  BY <1>3 DEF D

(* FlattenSeq is the last value of such a function.                        *)
LEMMA Flattened ==
   ASSUME NEW ss, Len(ss) \in Nat \ {0}
   PROVE \E g : Joins(g, ss, Len(ss)) /\ FlattenSeq(ss) = g[Len(ss)]
  <1> DEFINE f == CHOOSE g : g = [i \in 1..Len(ss) |-> IF i = 1 THEN ss[i] ELSE g[i - 1] \o ss[i]]
  <1>1. Joins(f, ss, Len(ss))
    BY JoinsExist DEF Joins
  <1>2. FlattenSeq(ss) = f[Len(ss)]
    BY DEF FlattenSeq
  <1> QED  BY <1>1, <1>2

(* One value of it comes from the one before.                              *)
LEMMA JoinsStep ==
    ASSUME NEW g, NEW ss, NEW m, Joins(g, ss, m), NEW i \in 1..m
    PROVE  g[i] = IF i = 1 THEN ss[i] ELSE g[i - 1] \o ss[i]
  BY DEF Joins

(* The same, counted from the one before.                                  *)
LEMMA JoinsNext ==
    ASSUME NEW g, NEW ss, NEW m \in Nat, Joins(g, ss, m), NEW n \in Nat, n + 1 \in 1..m
    PROVE  g[n + 1] = IF n = 0 THEN ss[n + 1] ELSE g[n] \o ss[n + 1]
  <1>1. n + 1 - 1 = n
    OBVIOUS
  <1> QED  BY <1>1, JoinsStep

(* Two sequences begin with the same m elements.                           *)
Agree(s, t, m) == \A i \in 1..m : s[i] = t[i]

(* Joining depends on the elements joined and on nothing else.             *)
LEMMA JoinsAgree ==
    ASSUME NEW g, NEW ss, NEW m \in Nat, Joins(g, ss, m),
           NEW h, NEW tt, NEW k \in Nat, Joins(h, tt, k), m <= k,
           Agree(ss, tt, m)
    PROVE  Agree(g, h, m)
  <1> DEFINE D == {n \in Nat : n \in 1..m => g[n] = h[n]}
  <1>1. 0 \in D
    OBVIOUS
  <1>2. ASSUME NEW n \in Nat, n \in D PROVE n + 1 \in D
    <2>1. SUFFICES ASSUME n + 1 \in 1..m PROVE g[n + 1] = h[n + 1]
      OBVIOUS
    <2>2. g[n + 1] = IF n = 0 THEN ss[n + 1] ELSE g[n] \o ss[n + 1]
      BY <2>1, JoinsNext
    <2>3. h[n + 1] = IF n = 0 THEN tt[n + 1] ELSE h[n] \o tt[n + 1]
      BY <2>1, JoinsNext
    <2>4. n # 0 => g[n] = h[n]
      BY <1>2, <2>1
    <2> QED  BY <2>1, <2>2, <2>3, <2>4 DEF Agree
  <1> HIDE DEF D
  <1>3. Nat \subseteq D
    BY <1>1, <1>2, SetInduction
  <1> QED  BY <1>3 DEF D, Agree

(* Joining sequences over a set gives sequences over it.                   *)
LEMMA JoinsType ==
    ASSUME NEW S, NEW ss \in Seq(Seq(S)), NEW g, Joins(g, ss, Len(ss))
    PROVE  \A i \in 1..Len(ss) : g[i] \in Seq(S)
  <1> DEFINE D == {n \in Nat : n \in 1..Len(ss) => g[n] \in Seq(S)}
  <1>1. 0 \in D
    OBVIOUS
  <1>2. ASSUME NEW n \in Nat, n \in D PROVE n + 1 \in D
    <2>1. SUFFICES ASSUME n + 1 \in 1..Len(ss) PROVE g[n + 1] \in Seq(S)
      OBVIOUS
    <2>2. g[n + 1] = IF n = 0 THEN ss[n + 1] ELSE g[n] \o ss[n + 1]
      BY <2>1, JoinsNext
    <2>3. ss[n + 1] \in Seq(S)
      BY <2>1
    <2>4. n # 0 => g[n] \in Seq(S)
      BY <1>2, <2>1
    <2> QED  BY <2>2, <2>3, <2>4
  <1> HIDE DEF D
  <1>3. Nat \subseteq D
    BY <1>1, <1>2, SetInduction
  <1> QED  BY <1>3 DEF D

(* Nothing joined is nothing.                                              *)
LEMMA FlattenEmpty == ASSUME NEW ss, Len(ss) = 0 PROVE FlattenSeq(ss) = ss
  BY DEF FlattenSeq

(* FlattenSeq gives a sequence over the same set.                          *)
LEMMA FlattenType ==
    ASSUME NEW S, NEW ss \in Seq(Seq(S))
    PROVE  FlattenSeq(ss) \in Seq(S)
  <1>1. CASE Len(ss) = 0
    BY <1>1, FlattenEmpty, EmptySeq
  <1>2. CASE Len(ss) # 0
    BY <1>2, Flattened, JoinsType
  <1> QED  BY <1>1, <1>2

(* One more sequence is joined behind the others.                          *)
LEMMA FlattenAppend ==
    ASSUME NEW S, NEW ss \in Seq(Seq(S)), NEW s \in Seq(S)
    PROVE  FlattenSeq(Append(ss, s)) = FlattenSeq(ss) \o s
  <1> DEFINE tt == Append(ss, s)
             n  == Len(ss)
  <1>1. /\ tt \in Seq(Seq(S)) /\ Len(tt) = n + 1 /\ n \in Nat
        /\ \A i \in 1..n : tt[i] = ss[i]
        /\ tt[n + 1] = s /\ n + 1 \in Nat /\ n <= n + 1
    BY AppendProperties
  <1> HIDE DEF tt, n
  <1>2. PICK h : Joins(h, tt, n + 1) /\ FlattenSeq(tt) = h[n + 1]
    BY <1>1, Flattened
  <1>3. h[n + 1] = IF n = 0 THEN tt[n + 1] ELSE h[n] \o tt[n + 1]
    BY <1>1, <1>2, JoinsNext
  <1>4. CASE n = 0
    <2>1. ss = <<>>
      BY <1>4, EmptySeq DEF n
    <2>2. FlattenSeq(ss) = <<>>
      BY <2>1, <1>4, FlattenEmpty DEF n
    <2>3. FlattenSeq(tt) = s
      <3>1. n + 1 = 1 /\ h[n + 1] = tt[n + 1]
        BY <1>3, <1>4
      <3> QED  BY <1>1, <1>2, <3>1
    <2>4. <<>> \o s = s
      BY ConcatEmptySeq
    <2> QED  BY <2>2, <2>3, <2>4 DEF tt
  <1>5. CASE n # 0
    <2>1. PICK g : Joins(g, ss, n) /\ FlattenSeq(ss) = g[n]
      BY <1>1, <1>5, Flattened DEF n
    <2>2. Agree(g, h, n)
      <3>1. Agree(ss, tt, n)
        BY <1>1 DEF Agree
      <3> QED  BY <1>1, <1>2, <2>1, <3>1, JoinsAgree
    <2>3. g[n] = h[n]
      BY <1>1, <1>5, <2>2 DEF Agree
    <2> QED  BY <1>1, <1>2, <1>3, <1>5, <2>1, <2>3 DEF tt
  <1> QED  BY <1>4, <1>5

(* A sequence that is not empty has a last element behind the others.      *)
LEMMA LastApart ==
    ASSUME NEW S, NEW s \in Seq(S), NEW n \in Nat, Len(s) = n + 1
    PROVE  \E e \in Seq(S), x \in S : s = Append(e, x) /\ Len(e) = n
  <1> DEFINE e == SubSeq(s, 1, n)
             t == Append(e, s[n + 1])
  <1>1. /\ e \in Seq(S) /\ Len(e) = n /\ s[n + 1] \in S
        /\ \A k \in 1..n : e[k] = s[k]
    OBVIOUS
  <1>2. t \in Seq(S) /\ Len(t) = n + 1 /\ \A k \in 1..(n + 1) : t[k] = s[k]
    BY <1>1
  <1>3. s = t
    <2> HIDE DEF t
    <2> QED  BY <1>2, SeqEqual
  <1> QED  BY <1>1, <1>3

(* It does not matter which of two joins is made first.                    *)
Assoc(a, b, c) == (a \o b) \o c = a \o (b \o c)

(* Every three sequences are joined so: the name keeps the fact opaque     *)
(* where it is used.                                                       *)
LEMMA ConcatAnyOrder ==
    ASSUME NEW S, NEW a \in Seq(S), NEW b \in Seq(S), NEW c \in Seq(S)
    PROVE  Assoc(a, b, c)
  BY ConcatAssociative DEF Assoc

(* Joining the parts of a sequence of sequences.                           *)
LEMMA FlattenConcat ==
    ASSUME NEW S, NEW a \in Seq(Seq(S)), NEW b \in Seq(Seq(S))
    PROVE  FlattenSeq(a \o b) = FlattenSeq(a) \o FlattenSeq(b)
  <1> DEFINE D == {n \in Nat : \A c \in Seq(Seq(S)) : Len(c) = n =>
                      FlattenSeq(a \o c) = FlattenSeq(a) \o FlattenSeq(c)}
  <1>0. FlattenSeq(a) \in Seq(S)
    BY FlattenType
  <1>1. 0 \in D
    <2>1. SUFFICES ASSUME NEW c \in Seq(Seq(S)), Len(c) = 0
                   PROVE  FlattenSeq(a \o c) = FlattenSeq(a) \o FlattenSeq(c)
      OBVIOUS
    <2>2. c = <<>>
      BY <2>1, EmptySeq
    <2>3. FlattenSeq(c) = <<>> /\ a \o c = a
      BY <2>1, <2>2, FlattenEmpty, ConcatEmptySeq
    <2> QED  BY <1>0, <2>3, ConcatEmptySeq
  <1>2. ASSUME NEW n \in Nat, n \in D PROVE n + 1 \in D
    <2>1. SUFFICES ASSUME NEW c \in Seq(Seq(S)), Len(c) = n + 1
                   PROVE  FlattenSeq(a \o c) = FlattenSeq(a) \o FlattenSeq(c)
      OBVIOUS
    <2>2. PICK e \in Seq(Seq(S)), x \in Seq(S) : c = Append(e, x) /\ Len(e) = n
      BY <2>1, LastApart
    <2>3. Len(e) = n
      BY <2>1, <2>2
    <2>4. FlattenSeq(a \o e) = FlattenSeq(a) \o FlattenSeq(e)
      BY <1>2, <2>3
    <2>5. a \o c = Append(a \o e, x) /\ a \o e \in Seq(Seq(S))
      BY <2>2
    <2>6. FlattenSeq(e) \in Seq(S)
      BY FlattenType
    <2>7. FlattenSeq(a \o c) = FlattenSeq(a \o e) \o x
      BY <2>5, FlattenAppend
    <2>8. FlattenSeq(c) = FlattenSeq(e) \o x
      BY <2>2, FlattenAppend
    <2> DEFINE u == FlattenSeq(a)
               v == FlattenSeq(e)
    <2>9. u \in Seq(S) /\ v \in Seq(S) /\ x \in Seq(S)
      BY <1>0, <2>6
    <2> HIDE DEF u, v
    <2>10. Assoc(u, v, x)
      BY <2>9, ConcatAnyOrder
    <2>11. (u \o v) \o x = u \o (v \o x)
      BY <2>10 DEF Assoc
    <2> QED  BY <2>4, <2>7, <2>8, <2>11 DEF u, v
  <1> HIDE DEF D
  <1>3. Nat \subseteq D
    BY <1>1, <1>2, SetInduction
  <1>4. Len(b) \in D
    BY <1>3, LenProperties
  <1> QED  BY <1>4 DEF D

(* Joining as many empty sequences as you like gives the empty one.        *)
LEMMA FlattenEmpties ==
    ASSUME NEW S, NEW a \in Seq(Seq(S)), \A k \in 1..Len(a) : a[k] = <<>>
    PROVE  FlattenSeq(a) = <<>>
  <1> DEFINE D == {n \in Nat : \A c \in Seq(Seq(S)) :
                      Len(c) = n /\ (\A k \in 1..n : c[k] = <<>>) => FlattenSeq(c) = <<>>}
  <1>1. 0 \in D
    BY FlattenEmpty, EmptySeq
  <1>2. ASSUME NEW n \in Nat, n \in D PROVE n + 1 \in D
    <2>1. SUFFICES ASSUME NEW c \in Seq(Seq(S)), Len(c) = n + 1,
                          \A k \in 1..(n + 1) : c[k] = <<>>
                   PROVE  FlattenSeq(c) = <<>>
      OBVIOUS
    <2>2. PICK e \in Seq(Seq(S)), x \in Seq(S) : c = Append(e, x) /\ Len(e) = n
      BY <2>1, LastApart
    <2>3. Len(e) = n /\ x = <<>> /\ \A k \in 1..n : e[k] = <<>>
      BY <2>1, <2>2
    <2>4. FlattenSeq(e) = <<>>
      BY <1>2, <2>3
    <2>5. FlattenSeq(c) = FlattenSeq(e) \o x
      BY <2>2, FlattenAppend
    <2> QED  BY <2>3, <2>4, <2>5, ConcatEmptySeq
  <1> HIDE DEF D
  <1>3. Nat \subseteq D
    BY <1>1, <1>2, SetInduction
  <1>4. Len(a) \in D
    BY <1>3, LenProperties
  <1> QED  BY <1>4 DEF D

(* The first n of the sequences have one element each, that of s.          *)
Singly(a, s, n) == \A k \in 1..n : a[k] = <<s[k]>>

(* Joining sequences of one element each gives the elements.               *)
LEMMA FlattenSingles ==
    ASSUME NEW S, NEW s \in Seq(S), NEW a \in Seq(Seq(S)), Len(a) = Len(s),
           Singly(a, s, Len(s))
    PROVE  FlattenSeq(a) = s
  <1> DEFINE D == {n \in Nat : \A c \in Seq(Seq(S)), t \in Seq(S) :
                      Len(c) = n /\ Len(t) = n /\ Singly(c, t, n)
                      => FlattenSeq(c) = t}
  <1>1. 0 \in D
    BY FlattenEmpty, EmptySeq
  <1>2. ASSUME NEW n \in Nat, n \in D PROVE n + 1 \in D
    <2>1. SUFFICES ASSUME NEW c \in Seq(Seq(S)), NEW t \in Seq(S), Len(c) = n + 1,
                          Len(t) = n + 1, Singly(c, t, n + 1)
                   PROVE  FlattenSeq(c) = t
      BY <1>2
    <2>2. PICK e \in Seq(Seq(S)), x \in Seq(S) : c = Append(e, x) /\ Len(e) = n
      BY <2>1, LastApart
    <2>3. PICK u \in Seq(S), y \in S : t = Append(u, y) /\ Len(u) = n
      BY <2>1, LastApart
    <2>4. x = <<y>>
      <3>1. c[n + 1] = x /\ t[n + 1] = y
        BY <2>2, <2>3, AppendProperties
      <3>2. c[n + 1] = <<t[n + 1]>>
        BY <2>1 DEF Singly
      <3> QED  BY <3>1, <3>2
    <2>5. Singly(e, u, n)
      <3>1. ASSUME NEW k \in 1..n PROVE e[k] = <<u[k]>>
        <4>1. c[k] = e[k] /\ t[k] = u[k]
          BY <2>2, <2>3, AppendProperties
        <4>2. c[k] = <<t[k]>>
          BY <2>1 DEF Singly
        <4> QED  BY <4>1, <4>2
      <3> QED  BY <3>1 DEF Singly
    <2>6. FlattenSeq(e) = u
      BY <1>2, <2>2, <2>3, <2>5
    <2>7. FlattenSeq(c) = FlattenSeq(e) \o x
      BY <2>2, FlattenAppend
    <2>8. t = u \o <<y>>
      BY <2>3, AppendIsConcat
    <2> QED  BY <2>4, <2>6, <2>7, <2>8
  <1> HIDE DEF D
  <1>3. Nat \subseteq D
    BY <1>1, <1>2, SetInduction
  <1>4. Len(a) \in D
    BY <1>3, LenProperties
  <1> QED  BY <1>4 DEF D

(* A function on 1..n is a sequence of length n.                           *)
LEMMA FunctionIsSeq ==
    ASSUME NEW S, NEW n \in Nat, NEW f \in [1..n -> S]
    PROVE  f \in Seq(S) /\ Len(f) = n
  OBVIOUS

(* The first n + 1 elements are the first n and one more.                  *)
LEMMA OneMore ==
    ASSUME NEW S, NEW s \in Seq(S), NEW n \in Nat, n < Len(s)
    PROVE  SubSeq(s, 1, n + 1) = SubSeq(s, 1, n) \o <<s[n + 1]>>
  <1>1. 1 \in 1..Len(s) /\ n + 1 \in 1..Len(s) /\ n + 1 - 1 = n
    OBVIOUS
  <1> QED  BY <1>1, SubSeqRecursiveSecond

(* IsPrefix compares element by element.                                   *)
LEMMA PrefixIs ==
    ASSUME NEW S, NEW s \in Seq(S), NEW T, NEW t \in Seq(T)
    PROVE  IsPrefix(s, t) <=> Len(s) <= Len(t) /\ \A k \in 1..Len(s) : t[k] = s[k]
  <1>1. Len(s) \in Nat /\ Len(t) \in Nat
    OBVIOUS
  <1>2. CASE Len(s) <= Len(t)
    <2>1. /\ SubSeq(s, 1, Len(s)) \in Seq(S) /\ Len(SubSeq(s, 1, Len(s))) = Len(s)
          /\ \A i \in 1..Len(s) : SubSeq(s, 1, Len(s))[i] = s[i]
      BY <1>1
    <2>2. /\ SubSeq(t, 1, Len(s)) \in Seq(T) /\ Len(SubSeq(t, 1, Len(s))) = Len(s)
          /\ \A i \in 1..Len(s) : SubSeq(t, 1, Len(s))[i] = t[i]
      BY <1>1, <1>2
    <2>3. ASSUME \A k \in 1..Len(s) : t[k] = s[k]
          PROVE  SubSeq(s, 1, Len(s)) = SubSeq(t, 1, Len(s))
      <3>1. SubSeq(t, 1, Len(s)) \in Seq(S)
        BY <1>1, <1>2, <2>3
      <3> QED  BY <2>1, <2>2, <2>3, <3>1, SeqEqual
    <2> QED  BY <1>2, <2>1, <2>2, <2>3 DEF IsPrefix
  <1> QED  BY <1>2 DEF IsPrefix
=============================================================================
