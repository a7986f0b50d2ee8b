--------------------------------- MODULE MCBBCode ---------------------------------
(* Posts of single characters of every class, of formatting tags, of links *)
(* and images, of links with other tags behind them, of e-mail tags in     *)
(* lists, and of tags with blanks in them.                                 *)
EXTENDS BBCode

MCTagOf == [b |-> "B", q |-> "QUOTE", h |-> "HR", u |-> "URL", e |-> "EMAIL", m |-> "IMG",
            l |-> "LIST", c |-> "COLOR", d |-> "CODE", o |-> "O"]

Begin(t)  == <<"[", t, "]">>
Finish(t) == <<"[", "/", t, "]">>
Address   == <<"x", ":", "/", "w">>

Of(pieces, n, sizes) == [pieces : BoundedSeq(pieces, n), size : sizes]

Characters == {<<c>> : c \in {"x", "b", "[", "]", "*", "sp", "cr", "lf", "="}}
Formatting == {Begin("b"), Finish("b"), Begin("q"), Finish("q"), Begin("h"), <<"[", "*", "]">>,
               <<"x">>, <<"lf", "b">>, <<"[">>, <<"/">>}
Links      == {Begin("u"), Finish("u"), Begin("e"), Finish("e"), Begin("m"), Finish("m"),
               <<"[", "u", "=">> \o Address \o <<"]">>, <<"x">>, Address}

Mixed      == {Begin("u"), Finish("u"), Address, Begin("b"), Begin("h"), <<"[", "*", "]">>}
Mail       == {Begin("e"), Finish("e"), Begin("l"), <<"x">>}
Blanks     == {Begin("u"), <<"[", "u", "sp", "]">>, <<"[", "/", "u", "sp", "]">>, Finish("u"),
               <<"x">>}
Names      == {<<"[", "c">>, <<"[", "d">>, <<"sp">>, <<"=", "x">>, <<"]">>, <<"[", "/">>,
               <<"o", "]">>, <<"c", "]">>}

MCPosts == Of(Characters, 4, {2, 3}) \cup Of(Formatting, 4, {4}) \cup Of(Links, 4, {4})
           \cup UNION {Of(pieces, 5, {4}) : pieces \in {Mixed, Mail, Blanks, Names}}
=============================================================================
