--------------------------------- MODULE UrlCodec ---------------------------------
(***************************************************************************)
(* Text on its way between the browser and the handlers: title_encode,     *)
(* uri_decode, get_post_data and get_session_cookie of LightBlog, and the  *)
(* encodings of the browser they have to undo.                             *)
(*                                                                         *)
(* A text is a sequence of characters.  Whatever is not in ascii below is  *)
(* a letter, a digit or a run of letters ("login"), which all of them keep *)
(* as they are (a single letter is none of a to f, nor x); a hexadecimal   *)
(* escape of anything else reads as Other.  A blank is written "sp".       *)
(***************************************************************************)
EXTENDS Naturals, Sequences, SequencesExt

ascii == {<<"sp", "2", "0">>, <<"!", "2", "1">>, <<"%", "2", "5">>, <<"&", "2", "6">>,
          <<"+", "2", "B">>, <<"-", "2", "D">>, <<".", "2", "E">>, <<"=", "3", "D">>}
Marks == {e[1] : e \in ascii}
Hex   == {"0", "1", "2", "3", "4", "5", "6", "7", "8", "9", "A", "B", "C", "D", "E", "F"}
Other == "?"

Escape(c)      == LET e == CHOOSE e \in ascii : e[1] = c IN <<"%", e[2], e[3]>>
Each(Op(_), v) == FlattenSeq([i \in 1..Len(v) |-> Op(v[i])])

-----------------------------------------------------------------------------
(* Mutant: other characters are left as they are.                          *)
TitleEncodeNoEscape(value) ==
    LET Of(c) == IF c \in {"%", "."} THEN <<>> ELSE IF c = "sp" THEN <<"-">> ELSE <<c>>
    IN Each(Of, value)

(* What title_encode makes of a title: the postid column and the link.     *)
TitleCharacter(c) ==
    IF c \in {"%", "."} THEN <<>>
    ELSE IF c = "sp" THEN <<"-">>
    ELSE IF c \notin Marks \/ c = "-" THEN <<c>> ELSE Escape(c)
title_encode(value) == Each(TitleCharacter, value)

(* is >> std::hex >> value of the two characters after a %: one digit is   *)
(* enough, and blanks and a sign may come before it.                       *)
Reads(h, l) == h \in Hex \/ (h \in {"sp", "+", "-"} /\ l \in Hex)
Byte(h, l)  == IF \E e \in ascii : e[2] = h /\ e[3] = l
               THEN (CHOOSE e \in ascii : e[2] = h /\ e[3] = l)[1] ELSE Other

(* Mutant: + is kept.                                                      *)
UriDecodeKeepingPlus(in) ==
    LET Step(done, i) ==
            IF i < done.next THEN done
            ELSE IF in[i] # "%" THEN [out |-> Append(done.out, in[i]), next |-> i + 1]
            ELSE IF i + 2 <= Len(in) /\ Reads(in[i + 1], in[i + 2])
            THEN [out |-> Append(done.out, Byte(in[i + 1], in[i + 2])), next |-> i + 3]
            ELSE [out |-> done.out, next |-> Len(in) + 1]
    IN FoldLeft(Step, [out |-> <<>>, next |-> 1], [i \in 1..Len(in) |-> i]).out

(* The text before the first escape that cannot be read, decoded.          *)
uri_decode(in) ==
    LET Step(done, i) ==
            IF i < done.next THEN done
            ELSE IF in[i] # "%"
            THEN [out |-> Append(done.out, IF in[i] = "+" THEN "sp" ELSE in[i]), next |-> i + 1]
            ELSE IF i + 2 <= Len(in) /\ Reads(in[i + 1], in[i + 2])
            THEN [out |-> Append(done.out, Byte(in[i + 1], in[i + 2])), next |-> i + 3]
            ELSE [out |-> done.out, next |-> Len(in) + 1]
    IN FoldLeft(Step, [out |-> <<>>, next |-> 1], [i \in 1..Len(in) |-> i]).out

-----------------------------------------------------------------------------
(* The words of the content between &s, as places; the value of a key is   *)
(* what stands after the first = of the last word that has the key, and    *)
(* the empty string when there is none.                                    *)
Words(s) ==
    {w \in (1..Len(s)) \X (1..Len(s)) :
        /\ w[1] <= w[2] /\ \A i \in w[1]..w[2] : s[i] # "&"
        /\ w[1] = 1 \/ s[w[1] - 1] = "&"
        /\ w[2] = Len(s) \/ s[w[2] + 1] = "&"}
Equals(s, w) == {i \in w[1]..w[2] : s[i] = "=" /\ \A j \in w[1]..(i - 1) : s[j] # "="}
KeyIn(s, w)  == SubSeq(s, w[1], IF Equals(s, w) = {} THEN w[2]
                                ELSE (CHOOSE i \in Equals(s, w) : TRUE) - 1)
ValueIn(s, w) == IF Equals(s, w) = {} THEN <<>>
                 ELSE SubSeq(s, (CHOOSE i \in Equals(s, w) : TRUE) + 1, w[2])

get_post_data(s, key) ==
    LET found == {w \in Words(s) : KeyIn(s, w) = key}
    IN IF found = {} THEN <<>>
       ELSE ValueIn(s, CHOOSE w \in found : \A v \in found : v[1] <= w[1])

(* The characters after the first vldr_session=, at most as many as a      *)
(* session has; the name is one character here.                            *)
SessionName == "vldr_session="
get_session_cookie(header, length) ==
    LET at == {i \in 1..Len(header) :
                   header[i] = SessionName /\ \A j \in 1..(i - 1) : header[j] # SessionName}
        first == CHOOSE i \in at : TRUE
    IN IF at = {} THEN <<>>
       ELSE SubSeq(header, first + 1,
                   IF first + length < Len(header) THEN first + length ELSE Len(header))

-----------------------------------------------------------------------------
(* The browser: encodeURIComponent, and the encoding of a form's values,   *)
(* with a blank written %20 by jQuery's serialize and + by a plain form.   *)
Component(c) == IF c \in Marks \ {"-", ".", "!"} THEN Escape(c) ELSE <<c>>
encodeURIComponent(v) == Each(Component, v)
FormValue(v, blank)   == LET Of(c) == IF c = "sp" THEN blank ELSE Component(c) IN Each(Of, v)
=============================================================================
