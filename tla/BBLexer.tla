--------------------------------- MODULE BBLexer ---------------------------------
(***************************************************************************)
(* The lexer of the BBCode library: get_lexeme, which cuts a post's text   *)
(* into lexemes with a state table, reading it in pieces of                *)
(* _read_buffer_size characters.  BBCode runs it.                          *)
(*                                                                         *)
(* A character is one of the classes the table tells apart, or a word      *)
(* character that stands for a whole word: a tag name, a member of the     *)
(* domain of TagOf, or six characters or more, "w".  Each state is named   *)
(* for what it has found; C1, C2, C3, C4, C10, C11 of the table are Start, *)
(* InWord, WordEnd, AfterCR, InSpaces, SpacesEnd, the others found one     *)
(* character.                                                              *)
(***************************************************************************)
EXTENDS Naturals, Sequences, SequencesExt

CONSTANT TagOf           \* character -> the tag whose name it stands for

VARIABLES text, size,    \* what _source_stream holds, _read_buffer_size
          position,      \* how much of it has been read into _buffer
          i, inBuffer,   \* _i, _read_chars_num
          mode, strbuf,  \* _current_state, _strbuf
          lexemes,       \* the lexemes returned so far, with their strings
          ended          \* TERM has been returned

Letters == {"x", "w"} \cup DOMAIN TagOf
Singles == {":", "quote", "=", "[", "]", "/", "*"}
Breaks  == {"cr", "lf"}

Chars   == Letters \cup Singles \cup Breaks \cup {"sp"}

buffer == <<position, i, inBuffer>>

Init ==
    /\ position = 0 /\ i = 0 /\ inBuffer = 0
    /\ mode = "Start" /\ strbuf = <<>> /\ lexemes = <<>> /\ ended = FALSE

(* The state table, row by row.                                            *)
FromStart(c) == CASE c \in Letters -> "InWord"
                  [] c = "cr"      -> "AfterCR"
                  [] c = "lf"      -> "Start"
                  [] c = "sp"      -> "InSpaces"
                  [] OTHER         -> c
FromWord(c)   == IF c \in Letters THEN "InWord" ELSE "WordEnd"
FromCR(c)     == CASE c \in Letters               -> "InWord"
                   [] c \in {":", "quote", "="}   -> c
                   [] OTHER                       -> "Start"
FromSpaces(c) == CASE c = "sp" -> "InSpaces"
                   [] c = "*"  -> "Start"
                   [] OTHER    -> "SpacesEnd"

Lexer(s, c) == CASE s = "Start"    -> FromStart(c)
                 [] s = "InWord"   -> FromWord(c)
                 [] s = "AfterCR"  -> FromCR(c)
                 [] s = "InSpaces" -> FromSpaces(c)

PushesBack(s) == s \in {"WordEnd", "SpacesEnd"}
Found(s)      == PushesBack(s) \/ s \in Singles

(* Only a whole word of the right letters is a tag name.                   *)
WordKind(word) ==
    IF Len(word) = 1 /\ word[1] \in DOMAIN TagOf THEN TagOf[word[1]] ELSE "WORD"
Kind(s, str) == CASE s = "WordEnd"   -> WordKind(str)
                  [] s = "SpacesEnd" -> "SP"
                  [] OTHER           -> s

Return(kind, str) ==
    /\ lexemes' = Append(lexemes, [kind |-> kind, str |-> str])
    /\ strbuf' = <<>> /\ mode' = "Start"

RefillKeepsIndex ==
    /\ ~ended /\ i = inBuffer /\ position < Len(text)
    /\ inBuffer' = IF size < Len(text) - position THEN size ELSE Len(text) - position
    /\ position' = position + inBuffer'
    /\ UNCHANGED <<text, size, i, mode, strbuf, lexemes, ended>>

RefillEndsWord ==
    /\ ~ended /\ i = inBuffer /\ position < Len(text)
    /\ inBuffer' = IF size < Len(text) - position THEN size ELSE Len(text) - position
    /\ position' = position + inBuffer' /\ i' = 0
    /\ IF mode = "InWord" THEN Return("WORD", strbuf) ELSE UNCHANGED <<mode, strbuf, lexemes>>
    /\ UNCHANGED <<text, size, ended>>

(* The buffer is used up and there is more.                                *)
Refill ==
    /\ ~ended /\ i = inBuffer /\ position < Len(text)
    /\ inBuffer' = IF size < Len(text) - position THEN size ELSE Len(text) - position
    /\ position' = position + inBuffer' /\ i' = 0
    /\ UNCHANGED <<text, size, mode, strbuf, lexemes, ended>>

(* The stream is at its end: a word that was begun is returned as WORD     *)
(* whatever its letters, anything else is dropped.                         *)
AtEnd ==
    /\ ~ended /\ i = inBuffer /\ position = Len(text)
    /\ i' = 0 /\ inBuffer' = 0
    /\ IF mode = "InWord"
       THEN Return("WORD", strbuf) /\ UNCHANGED ended
       ELSE ended' = TRUE /\ UNCHANGED <<mode, strbuf, lexemes>>
    /\ UNCHANGED <<text, size, position>>

Current == text[position - inBuffer + i + 1]

(* One character; the one that ends a word or spaces is read again.        *)
Step ==
    /\ i < inBuffer
    /\ LET s   == Lexer(mode, Current)
           str == Append(strbuf, Current)
       IN /\ i' = IF PushesBack(s) THEN i ELSE i + 1
          /\ IF Found(s)
             THEN LET own == IF PushesBack(s) THEN Front(str) ELSE str
                  IN Return(Kind(s, own), own)
             ELSE mode' = s /\ strbuf' = str /\ UNCHANGED lexemes
    /\ UNCHANGED <<text, size, position, inBuffer, ended>>

Next == Refill \/ AtEnd \/ Step

-----------------------------------------------------------------------------
TypeOK ==
    /\ position \in 0..Len(text) /\ inBuffer \in 0..size /\ i \in 0..inBuffer
    /\ mode \in {"Start", "InWord", "AfterCR", "InSpaces"} /\ ended \in BOOLEAN
    /\ \A k \in DOMAIN lexemes : lexemes[k].str \in Seq(Chars) \ {<<>>}

(* Wherever the pieces of the buffer end, the strings of the lexemes are   *)
(* the text that was read: nothing is lost or read twice.                  *)
TextKept ==
    ~ended => FlattenSeq([k \in DOMAIN lexemes |-> lexemes[k].str]) \o strbuf
              = SubSeq(text, 1, position - inBuffer + i)

(* A word is never cut in two, which would hide a tag name: a word that    *)
(* follows a word begins with what stood between them.                     *)
IsWord(lx) == lx.kind = "WORD" \/ \E c \in DOMAIN TagOf : lx.kind = TagOf[c]
WordsWhole ==
    \A k \in 1..Len(lexemes) - 1 :
        IsWord(lexemes[k]) /\ IsWord(lexemes[k + 1]) =>
            lexemes[k + 1].str[1] \notin Letters

(* What is dropped at the end of a post begins with a blank or a line      *)
(* break.                                                                  *)
DroppedTail ==
    ended /\ strbuf # <<>> => strbuf[1] \in Breaks \cup {"sp"}
=============================================================================
