--------------------------------- MODULE BBParser ---------------------------------
(***************************************************************************)
(* The parser of the BBCode library: parse, which goes through the lexemes *)
(* of a post with a state table, keeps the tags it recognises, and         *)
(* replaces a pair of them with HTML in the text parsed so far as soon as  *)
(* its closing tag is there.  BBCode runs it on what BBLexer returns.       *)
(*                                                                         *)
(* The text parsed so far is a sequence of items: a lexeme, or the HTML    *)
(* that stands for a tag, with the lexemes it was put in place of.         *)
(* Positions count items, and an HTML tag is one item.                     *)
(*                                                                         *)
(* The states of the table have a kind and a tag: <<"name", "B">> is C26,  *)
(* the name was read; "found" (C27), the tag is complete; "close" (C3),    *)
(* the / of a closing tag was read; "endname" and "ended", a closing tag   *)
(* with states of its own; "equals" and "value", on the right of =;        *)
(* "set", a tag with a value complete; "link" and "break", in the text     *)
(* after the tag.  C4 to C24 cannot be reached.                            *)
(***************************************************************************)
EXTENDS Naturals, Sequences, SequencesExt

Colours  == {"RED", "ORANGE", "YELLOW", "GREEN", "BLUE", "PURPLE", "WHITE", "BLACK"}
Plain    == {"B", "I", "U", "H", "S", "SUB", "SUP", "O", "PRE", "CODE", "LIST", "OLIST"}
            \cup Colours
Void     == {"HR", "*"}                      \* has_closing_tag = false
Words    == {"COLOR", "SIZE", "FACE"}        \* [size=2]: a value is required
Linked   == {"URL", "IMG", "EMAIL"}
Valued   == Words \cup Linked \cup {"QUOTE"}
Tags     == Plain \cup Void \cup Valued
Lexemes  == Tags \cup {"WORD", "LONG", "[", "]", "/", ":", "quote", "SP", "="}

(* "LONG" is a WORD of _MAXIMUM_PROTO_LENGTH characters or more; the other *)
(* lexemes before a colon do not have as many between them.                *)
Kind(l) == IF l = "LONG" THEN "WORD" ELSE l

VARIABLES text,    \* the lexemes the lexer has returned
          at,      \* those that have been parsed
          state,   \* _current_state
          tmp,     \* _tmp_tag
          tags,    \* _parsed_tags
          data,    \* _parsed_data
          lost     \* a tag to be replaced was not at its positions


(* A tag also has the number of the lexeme it begins with, which the code  *)
(* does not keep: see InPlace.                                             *)
Cleared == [name |-> "", type |-> "opening", from |-> 0, left |-> 0, right |-> 0, attr |-> << >>]

Init ==
    /\ at = 0 /\ state = <<"text", "">> /\ tmp = Cleared /\ tags = <<>>
    /\ data = <<>> /\ lost = FALSE

-----------------------------------------------------------------------------
(* The state table.                                                        *)
Text  == <<"text", "">>
Error == <<"error", "">>
Stay(s, allowed, l) == IF l \in allowed THEN s ELSE Error

Opened(l) == CASE l \in Tags -> <<"name", l>>
               [] l = "/"    -> <<"close", "">>
               [] OTHER      -> Error
Closing(l) == CASE l \in Plain  -> <<"name", l>>
                [] l \in Valued -> <<"endname", l>>
                [] OTHER        -> Error

(* A blank after the name of a tag leads to the same state, except in the  *)
(* rows C42, C62, C93, C80 and C107.                                       *)
NameBlank(t) == CASE t = "COLOR" -> <<"name", "O">>
                  [] t = "BLACK" -> <<"name", "WHITE">>
                  [] t = "CODE"  -> <<"found", "CODE">>
                  [] OTHER       -> <<"name", t>>
EndBlank(t) == CASE t = "URL"   -> <<"endname", "FACE">>
                 [] t = "EMAIL" -> <<"endname", "IMG">>
                 [] OTHER       -> <<"endname", t>>

AfterName(t, l) == CASE l = "]" /\ t \notin Words  -> <<"found", t>>
                     [] l = "=" /\ t \in Valued    -> <<"equals", t>>
                     [] l = "SP"                   -> NameBlank(t)
                     [] OTHER                      -> Error
AfterEndName(t, l) == CASE l = "]"  -> <<"ended", t>>
                        [] l = "SP" -> EndBlank(t)
                        [] OTHER    -> Error

(* What a value may consist of.                                            *)
NotInValue == {"[", "]", "B", "CODE", "HR", "IMG", "EMAIL", "LIST", "*", "OLIST", "quote"}
ValueLexemes(t) == CASE t = "COLOR" -> {"WORD"} \cup Colours
                     [] t \in {"SIZE", "FACE", "EMAIL"} -> {"WORD"}
                     [] t = "QUOTE" -> Lexemes \ {"[", "]", "/", "B", ":", "quote", "="}
                     [] OTHER       -> Lexemes \ NotInValue

AfterEquals(t, l) ==
    CASE l = "SP" /\ t \notin {"IMG", "EMAIL"} -> <<"equals", t>>
      [] l = "SP" /\ t = "EMAIL"               -> <<"value", t>>
      [] t = "URL" /\ l \in {":", "="}         -> Error
      [] OTHER -> Stay(<<"value", t>>, ValueLexemes(t), l)
AfterValue(t, l) ==
    CASE l = "]" -> IF t \in {"QUOTE", "IMG"} THEN <<"found", t>> ELSE <<"set", t>>
      [] l # "]" /\ t \in Words -> Stay(<<"value", t>>, {"SP"}, l)
      [] OTHER       -> Stay(<<"value", t>>, ValueLexemes(t) \cup {"SP"}, l)

(* [url] has been read; the text up to the next [ is its address.          *)
AfterURL(l) == CASE l = "SP"           -> <<"found", "URL">>
                 [] l \in {"WORD", "/"} -> <<"link", "URL">>
                 [] OTHER              -> Error
NotInLink(t) == CASE t = "URL" -> {"]", "quote"}
                  [] t = "IMG" -> {"]", "COLOR", "GREEN", "quote", "SP", "="}
                  [] OTHER     -> {"]", "/", "CODE", "HR", "IMG", "EMAIL", "LIST", "*",
                                   "OLIST", "="}
AfterLink(t, l) == IF l = "[" \/ (t = "URL" /\ l = "SP") THEN <<"break", t>>
                   ELSE Stay(<<"link", t>>, Lexemes \ NotInLink(t), l)

Parser(s, l) ==
    CASE s[1] = "text"    -> IF l = "[" THEN <<"open", "">> ELSE Text
      [] s[1] = "open"    -> Opened(l)
      [] s[1] = "close"   -> Closing(l)
      [] s[1] = "name"    -> AfterName(s[2], l)
      [] s[1] = "endname" -> AfterEndName(s[2], l)
      [] s[1] = "equals"  -> AfterEquals(s[2], l)
      [] s[1] = "value"   -> AfterValue(s[2], l)
      [] s[1] = "found"   -> AfterURL(l)
      [] s[1] = "link"    -> AfterLink(s[2], l)

(* T and RET: replacements are made and the table goes on from RET.        *)
Ends(s) == s[1] \in {"found", "set", "ended", "break"} /\ s # <<"found", "URL">>
Ret(s) == CASE s[1] = "break" -> <<"open", "">>
            [] s = <<"found", "IMG">> -> <<"link", "IMG">>
            [] s \in {<<"found", "EMAIL">>, <<"found", "LIST">>} -> <<"link", "EMAIL">>
            [] OTHER -> Text

-----------------------------------------------------------------------------
(* _bbcode_replacements                                                    *)
Lexeme(l) == [kind |-> "text", name |-> l, src |-> <<l>>, value |-> <<>>]
Source(d) == FlattenSeq([k \in DOMAIN d |-> d[k].src])

(* What is before a colon that is not near the beginning is cut off.       *)
JsGuard(v) == LET colon == SelectInSeq(v, LAMBDA l : l = ":")
              IN IF "LONG" \in ToSet(SubSeq(v, 1, colon - 1))
                 THEN SubSeq(v, colon + 1, Len(v)) ELSE v

(* _tag_replacement: the HTML of a tag.  The macro in it gives way to the  *)
(* attribute of its name; without that attribute it is only removed if the *)
(* tag has no other.  A tag without a closing tag may be taken for one, by *)
(* a slash in a link before it: what it gives is stray, </li> or nothing.  *)
Value(t) == IF t.name \in DOMAIN t.attr THEN JsGuard(t.attr[t.name])
            ELSE IF DOMAIN t.attr = {} THEN <<>> ELSE <<"macro">>
Html(t, src) ==
    LET kind == IF t.name \in Void THEN IF t.type = "closing" THEN "stray" ELSE "void"
                ELSE IF t.type = "closing" THEN "close" ELSE "open"
    IN << [kind |-> kind, name |-> t.name, src |-> src, value |-> Value(t)] >>

(* erase and insert.  What is erased is the tag, except for one that was   *)
(* recorded twice, the second time from the beginning of the text, and for *)
(* one whose [ was noted before tags in front of it were replaced.  What   *)
(* erase takes then, or whether it throws out_of_range, depends on the     *)
(* length of HTML: the model stops there.                                  *)
Erased(d, t) == Source(SubSeq(d, t.left + 1, t.right))
InPlace(d, t) ==
    /\ t.left < t.right /\ t.right <= Len(d)
    /\ Len(Source(SubSeq(d, 1, t.left))) = t.from - 1
    /\ \A n \in t.left + 1..t.right : d[n].kind = "text"
ReplacedLeavingBracket(d, t) ==
    SubSeq(d, 1, t.left) \o Html(t, Erased(d, t)) \o SubSeq(d, t.right, Len(d))
Replaced(d, t) ==
    SubSeq(d, 1, t.left) \o Html(t, Erased(d, t)) \o SubSeq(d, t.right + 1, Len(d))

(* A tag that is not closed is replaced at once.                           *)
VoidReplaced(r) ==
    IF r.tags = <<>> \/ Last(r.tags).name \notin Void THEN r
    ELSE IF ~InPlace(r.data, Last(r.tags)) THEN [r EXCEPT !.lost = TRUE]
    ELSE [r EXCEPT !.data = Replaced(r.data, Last(r.tags)), !.tags = Front(r.tags)]

(* The opening tag of the last tag, a closing one: the nearest of its name.*)
OpenerFarthest(ts) == SelectInSubSeq(ts, 1, Len(ts) - 1,
                  LAMBDA t : t.type = "opening" /\ t.name = Last(ts).name)
OpenerAnyName(ts) == SelectLastInSubSeq(ts, 1, Len(ts) - 1, LAMBDA t : t.type = "opening")
OpenerOf(ts) == SelectLastInSubSeq(ts, 1, Len(ts) - 1,
                  LAMBDA t : t.type = "opening" /\ t.name = Last(ts).name)

(* Tags opened in between overlap, and are left as text.                   *)
LeaveClosings(ts, from) ==
    LET between == SubSeq(ts, from, Len(ts) - 1)
    IN FlattenSeq([k \in DOMAIN between |-> IF between[k].type = "closing" THEN <<between[k]>>
                                            ELSE <<>>])

PairReplaced(r) ==
    LET ts == r.tags
        k  == IF ts = <<>> THEN 0 ELSE OpenerOf(ts)
        d  == Replaced(r.data, Last(ts))
    IN IF r.lost \/ ts = <<>> \/ Last(ts).type = "opening" THEN r
       ELSE IF k = 0 THEN [r EXCEPT !.tags = Append(LeaveClosings(ts, 1), Last(ts))]
       ELSE IF ~InPlace(r.data, Last(ts)) \/ ~InPlace(d, ts[k]) THEN [r EXCEPT !.lost = TRUE]
       ELSE [r EXCEPT !.tags = SubSeq(ts, 1, k - 1) \o LeaveClosings(ts, k + 1),
                      !.data = Replaced(d, ts[k])]

Replacements(ts, d) == PairReplaced(VoidReplaced([tags |-> ts, data |-> d, lost |-> FALSE]))

-----------------------------------------------------------------------------
(* One lexeme: what it does to _tmp_tag before the state is looked at.     *)
Noted(t, l, d) == CASE l = "[" -> [t EXCEPT !.from = at + 1, !.left = Len(d) - 1]
                    [] l = "]" -> [t EXCEPT !.right = Len(d) - 1]
                    [] l = "/" -> [t EXCEPT !.type = "closing"]
                    [] OTHER   -> t

Insert(attr, k, v) == attr @@ (k :> v)
Add(attr, k, l)    == IF k \in DOMAIN attr THEN [attr EXCEPT ![k] = Append(@, l)]
                      ELSE Insert(attr, k, <<l>>)
AddLastOnly(ts, k, l) == IF ts # <<>> /\ Last(ts).name = k
                         THEN [ts EXCEPT ![Len(ts)].attr = (k :> <<l>>) @@ @] ELSE ts
AddToBack(ts, k, l) == IF ts # <<>> /\ Last(ts).name = k
                       THEN [ts EXCEPT ![Len(ts)].attr = Add(@, k, l)] ELSE ts

(* The value of a tag: the first word for some, all of it for others; that *)
(* of an image is its title.                                               *)
Collected(t, k, l) ==
    [t EXCEPT !.attr = CASE k \in Words -> Insert(@, k, <<l>>)
                         [] k = "IMG"   -> Add(@, "TITLE", l)
                         [] OTHER       -> Add(@, k, l)]

(* The tag recorded when it is complete.                                   *)
Recorded(t, s, d) ==
    LET k == s[2]
    IN [t EXCEPT !.name = k, !.right = Len(d),
                 !.type = CASE s = <<"set", "URL">>   -> "opening"
                            [] s = <<"ended", "IMG">> -> "closing"
                            [] OTHER -> @,
                 !.attr = CASE s = <<"found", "QUOTE">> /\ t.type = "opening" ->
                                  Insert(@, "QUOTE", <<>>)
                            [] s = <<"found", "IMG">> -> Insert(@, "TITLE", <<>>)
                            [] OTHER -> @]

(* A lexeme that does not fit is tried once more as text.                  *)
RecoverKeepingTag(l, d) ==
    state' = Parser(Text, l) /\ data' = d /\ tmp' = Noted(tmp, l, d) /\ UNCHANGED <<tags, lost>>
Recover(l, d) ==
    /\ state' = Parser(Text, l) /\ data' = d
    /\ tmp' = IF l = "[" THEN Noted(Cleared, l, d) ELSE Cleared
    /\ UNCHANGED <<tags, lost>>

Go(s, ts, d) ==
    LET r == IF Ends(s) THEN Replacements(ts, d) ELSE [tags |-> ts, data |-> d, lost |-> FALSE]
    IN /\ state' = IF Ends(s) THEN Ret(s) ELSE s
       /\ tags' = r.tags /\ data' = r.data /\ lost' = r.lost

Accept(s, l, t, d) ==
    CASE s = Text -> tmp' = Cleared /\ Go(s, tags, d)
      [] s[1] = "value" -> tmp' = Collected(t, s[2], l) /\ Go(s, tags, d)
      [] s[1] = "link" ->
            /\ tmp' = IF s[2] = "EMAIL" THEN Collected(t, "EMAIL", l) ELSE t
            /\ Go(s, AddToBack(tags, s[2], l), d)
      [] s[1] \in {"found", "set", "ended"} ->
            tmp' = Cleared /\ Go(s, Append(tags, Recorded(t, s, d)), d)
      [] OTHER -> tmp' = t /\ Go(s, tags, d)

Parse ==
    /\ ~lost /\ at < Len(text) /\ at' = at + 1 /\ UNCHANGED text
    /\ LET l == text[at + 1]
           d == Append(data, Lexeme(l))
           s == Parser(state, Kind(l))
       IN IF s = Error THEN Recover(l, d) ELSE Accept(s, l, Noted(tmp, l, d), d)

-----------------------------------------------------------------------------
TypeOK ==
    /\ at \in 0..Len(text) /\ lost \in BOOLEAN /\ tmp.name = ""
    /\ state[1] \in {"text", "open", "close", "name", "endname", "equals", "value",
                     "found", "link"}
    /\ \A k \in DOMAIN tags : tags[k].name \in Tags

(* Replacing changes tags and nothing else: the lexemes put back for the   *)
(* HTML are the post.                                                      *)
TagsReplacedOnly == Source(data) = SubSeq(text, 1, at)

(* The HTML is well nested whatever the tags of the post are, as long as   *)
(* they are at their positions when they are replaced.                     *)
Nest(open, item) ==
    IF open = <<"broken">> \/ item.kind \notin {"open", "close"} THEN open
    ELSE IF item.kind = "open" THEN Append(open, item.name)
    ELSE IF open # <<>> /\ Last(open) = item.name THEN Front(open) ELSE <<"broken">>
WellNested == FoldLeft(Nest, <<>>, data) = <<>>

(* Tags are where they were found, and the HTML for one is that of the tag *)
(* that was written, less the two rows that take a blank for another name. *)
Written(src) == src[IF src[2] = "/" THEN 3 ELSE 2]
Misread == {<<"COLOR", "O">>, <<"BLACK", "WHITE">>}
AsWritten ==
    /\ ~lost
    /\ \A k \in DOMAIN data :
          LET it == data[k] IN
          it.kind # "text" =>
              /\ it.kind \in IF it.src[2] = "/" THEN {"close"} ELSE {"open", "void"}
              /\ Written(it.src) = it.name \/ <<Written(it.src), it.name>> \in Misread
(* The address of a link or image is the text between its tags, less what  *)
(* _js_guard cuts off, if that is text an address may have.  So is that of *)
(* an e-mail tag, unless the text behind another one, or in a list, comes  *)
(* along with it.                                                          *)
IsAddress(t, s) ==
    /\ s # <<>> /\ ToSet(s) \cap (NotInLink(t) \cup {"["}) = {}
    /\ t = "URL" => s[1] \in {"WORD", "LONG", "/"} /\ ~Contains(s, "SP")
    /\ t = "EMAIL" => Len(SelectSeq(text, LAMBDA l : l \in {"EMAIL", "LIST"})) = 2
OwnAddress ==
    \A j, k \in DOMAIN data :
        LET between == SubSeq(data, j + 1, k - 1) IN
        /\ j < k /\ data[j].kind = "open" /\ data[j].name \in Linked /\ Len(data[j].src) = 3
        /\ data[k].kind = "close" /\ data[k].name = data[j].name
        /\ \A n \in DOMAIN between : between[n].kind = "text"
        /\ IsAddress(data[j].name, Source(between))
        => data[j].value = JsGuard(Source(between))
=============================================================================
