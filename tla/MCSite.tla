---------------------------------- MODULE MCSite ----------------------------------
(* Two blogs: one of many titles and few posts, for what is typed; one of  *)
(* many posts and few titles, for the pages.  Both orders of the patterns  *)
(* that overlap: all words first, and the open pattern first, as libstdc++ *)
(* has it.                                                                 *)
EXTENDS Site

MCPageTexts == {Word(ToString(n)) : n \in 0..MaxPage}
MCSession   == <<"s", "t">>

Own    == <<SessionName>> \o Session
Others == <<"u", "=", "z", ";", "sp">> \o Own \o <<";", "sp", "v", "=", "z">>
Typed  == BoundedSeq({"z", "sp", "%", "&", "=", "+", "!", "-", "2", "."}, 2)

Plainly == [titles |-> <<>>, contents |-> {<<"z">>}, edits |-> {}, deletes |-> FALSE, values |-> {},
            jumps |-> {}, cookies |-> {Own}, clients |-> {}, buttons |-> FALSE, ahead |-> {}]

Writing(ahead) ==
    [Plainly EXCEPT !.titles = <<Typed \cup {Word("login")}>>, !.contents = {<<"+", "%">>, <<>>},
                    !.cookies = {Own, Others}, !.clients = {"direct"}, !.ahead = ahead]
Editing(ahead) ==
    [Plainly EXCEPT !.titles = <<{<<"z", "%">>, Word("login")}, {<<"z">>}>>,
                    !.edits = {<<"z", "!">>, <<"z">>, <<".">>}, !.deletes = TRUE,
                    !.clients = {"direct"}, !.ahead = ahead]
Searching ==
    [Plainly EXCEPT !.titles = <<{<<"z", "sp", "+">>, <<"%", "z">>}, {Word("z")}>>,
                    !.contents = {<<"2", "&">>}, !.values = Typed]
Turning ==
    [Plainly EXCEPT !.titles = <<{Word("v")}, {Word("w")}, {Word("x")}, {Word("y")}, {Word("z")}>>,
                    !.deletes = TRUE, !.jumps = {1, 8}]
Browsing == [Plainly EXCEPT !.titles = <<{Word("z")}>>, !.clients = {"script"}]

Pressing == [Plainly EXCEPT !.titles = <<{Word("x")}, {Word("y")}, {Word("z")}>>, !.buttons = TRUE]

MCRuns  == {Writing({}), Editing({}), Editing(Overlapping), Searching, Turning, Pressing}
MCLinks == {Browsing, Pressing}
=============================================================================
