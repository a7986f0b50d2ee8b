---------------------------------- MODULE BBCode ----------------------------------
(***************************************************************************)
(* The BBCode library at work on one post: parse asks the lexer for a      *)
(* lexeme and deals with it before it asks for the next.                   *)
(***************************************************************************)
EXTENDS Naturals, Sequences, SequencesExt

CONSTANTS Posts,   \* [pieces, size]: the post is these texts one after the other,
                   \* read size characters at a time
          TagOf    \* character -> the tag whose name it stands for

VARIABLES post,
          position, i, inBuffer, mode, strbuf, lexemes, ended,   \* the lexer
          at, state, tmp, tags, data, lost                       \* the parser

(* A word with a "w" has _MAXIMUM_PROTO_LENGTH characters or more.         *)
Handed == [k \in DOMAIN lexemes |->
             IF lexemes[k].kind = "WORD" /\ Contains(lexemes[k].str, "w")
             THEN "LONG" ELSE lexemes[k].kind]

L == INSTANCE BBLexer WITH text <- FlattenSeq(post.pieces), size <- post.size
P == INSTANCE BBParser WITH text <- Handed

ASSUME PostAssumption ==
    /\ \A c \in DOMAIN TagOf : TagOf[c] \in P!Tags \ {"*"}
    /\ DOMAIN TagOf \cap (L!Singles \cup L!Breaks \cup {"sp"}) = {}
    /\ \A p \in Posts : p.size \in Nat \ {0} /\ p.pieces \in Seq(Seq(L!Chars))

lexer  == <<position, i, inBuffer, mode, strbuf, lexemes, ended>>
parser == <<at, state, tmp, tags, data, lost>>
vars   == <<post, lexer, parser>>

Init == post \in Posts /\ L!Init /\ P!Init

Lex ==
    /\ ~lost /\ at = Len(lexemes)
    /\ UNCHANGED <<post, parser>>
    /\ L!Next

Parse == UNCHANGED <<post, lexer>> /\ P!Parse

Next == Lex \/ Parse
Spec == Init /\ [][Next]_vars

-----------------------------------------------------------------------------
TypeOK == L!TypeOK /\ P!TypeOK

(* Wherever the pieces of the buffer end, nothing of a post is lost or     *)
(* read twice, no word is cut in two (which would hide a tag name), and    *)
(* what is dropped at the end begins with a blank or a line break.         *)
WordsWhole == L!TextKept /\ L!WordsWhole /\ L!DroppedTail

(* The parser replaces tags and nothing else, as long as they are at their *)
(* positions: the text of a post is in its HTML, in order, but for what    *)
(* the lexer dropped.                                                      *)
TagsReplacedOnly == P!TagsReplacedOnly

(* The HTML is well nested whatever the tags of the post are, as long as   *)
(* they are at their positions when they are replaced.                     *)
WellNested == P!WellNested

(* "replace bb tag with HTML tag" (bbcode_parser.h:97): in a post without  *)
(* links and images every tag that is replaced is where it was found, and  *)
(* its HTML is that of the tag that was written.  The table takes the      *)
(* blank in [color ] and [black ] for another name; that is left out.      *)
FormattingAsWritten == ToSet(Handed) \cap P!Linked = {} => P!AsWritten

(* A link has the address between its own tags.                            *)
OwnAddress == P!OwnAddress

(* Every tag of a post whose tags are well nested becomes HTML, if none is *)
(* between the tags of a link, and none has a blank or a value in it.      *)
TagIn(p) ==
    CASE Len(p) = 3 /\ p[1] = "[" /\ p[2] \in DOMAIN TagOf /\ p[3] = "]" ->
            [kind |-> CASE TagOf[p[2]] \in P!Void  -> "void"
                        [] TagOf[p[2]] \in P!Words -> "other"
                        [] OTHER -> "open",
             name |-> TagOf[p[2]]]
      [] Len(p) = 4 /\ p[1] = "[" /\ p[2] = "/" /\ p[3] \in DOMAIN TagOf ->
            [kind |-> "close", name |-> TagOf[p[3]]]
      [] "]" \in ToSet(p) /\ p # <<"[", "*", "]">> -> [kind |-> "other", name |-> ""]
      [] OTHER -> [kind |-> "text", name |-> ""]
Marks(d) == SelectSeq([k \in DOMAIN d |-> [kind |-> d[k].kind, name |-> d[k].name]],
                      LAMBDA m : m.kind \in {"open", "close"})
AllConverted ==
    LET written == [k \in DOMAIN post.pieces |-> TagIn(post.pieces[k])]
        wanted  == SelectSeq(written, LAMBDA m : m.kind \in {"open", "close"})
        alone(k) == wanted[k].kind = "open" /\ wanted[k].name \in P!Linked =>
                        wanted[k + 1].kind = "close"
    IN /\ ended /\ \A k \in DOMAIN written : written[k].kind # "other"
       /\ FoldLeft(P!Nest, <<>>, wanted) = <<>> /\ \A k \in DOMAIN wanted : alone(k)
       => Marks(data) = wanted
=============================================================================
