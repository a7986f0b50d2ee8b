---------------------------------- MODULE Routes ----------------------------------
(***************************************************************************)
(* Which function answers a request: the table of main, the search of      *)
(* find_resource, and the files under web/ for the paths no pattern takes. *)
(*                                                                         *)
(* A path is the sequence of the texts after its slashes ("/" is one empty *)
(* text).  start() copies the table in the iteration order of an           *)
(* unordered_map and the first match wins.  The patterns that overlap are  *)
(* the open one, ^/REGEXSEARCH$, and the four words it also matches; ahead *)
(* holds those of them that the order puts before it.                      *)
(***************************************************************************)
EXTENDS UrlCodec, FiniteSets

CONSTANT PageTexts   \* the texts REGEXNUMBER matches

Word(w)   == <<w>>
Path(ws)  == [i \in 1..Len(ws) |-> Word(ws[i])]
Root      == <<<<>>>>

Plain(method, ws, function) ==
    [method |-> method, prefix |-> Path(ws), rest |-> "", function |-> function]
Open(ws, class, function) ==
    [method |-> "GET", prefix |-> Path(ws), rest |-> class, function |-> function]

resource ==
    {Plain("GET", <<"login">>, "login_get"),    Plain("POST", <<"login">>, "login_post"),
     Plain("POST", <<"delete">>, "delete_post"), Plain("POST", <<"edit">>, "edit_post"),
     Plain("POST", <<"change">>, "change_post"), Plain("POST", <<"api", "post">>, "post_post"),
     Plain("GET", <<"reload">>, "reload_get"),  Plain("GET", <<"logout">>, "logout_get"),
     Plain("GET", <<"api", "home">>, "view_home"),
     Open(<<"api", "home">>, "number", "view_specific_home"),
     Open(<<"api", "view">>, "search", "view_post"),
     Open(<<"api", "find">>, "search", "find_post"),
     Open(<<"index">>, "number", "view_all_posts_get"),
     Plain("GET", <<"index">>, "view_all_posts_get"),
     Open(<<>>, "search", "view_post_get")}

(* REGEXSEARCH: letters, digits, % - + and the comma and the underscore.   *)
IsSearch(s) == s # <<>> /\ \A i \in 1..Len(s) : s[i] \notin Marks \ {"%", "-", "+"}
Takes(r, path) ==
    \/ r.rest = "" /\ path = r.prefix
    \/ /\ r.rest # "" /\ Len(path) = Len(r.prefix) + 1 /\ Front(path) = r.prefix
       /\ IF r.rest = "number" THEN Last(path) \in PageTexts ELSE IsSearch(Last(path))

Overlapping == {"login_get", "reload_get", "logout_get", "view_all_posts_get"}

(* The default resource of GET is get_file; POST has none, and a path that *)
(* no pattern takes is not answered.                                       *)
find_resource(method, path, ahead) ==
    LET matching == {r.function : r \in {s \in resource : s.method = method /\ Takes(s, path)}}
        first    == {f \in matching : \/ matching = {f}
                                      \/ f \in ahead
                                      \/ f = "view_post_get" /\ matching \cap ahead = {}}
    IN IF matching # {} THEN CHOOSE f \in first : TRUE
       ELSE IF method = "GET" THEN "get_file" ELSE "nothing"

-----------------------------------------------------------------------------
(* The files beside the program, by their path from its directory.         *)
web         == Path(<<"web">>)
File(ws)    == web \o ws
indexFile   == File(Path(<<"index">>))
viewFile    == File(Path(<<"view">>))
scriptFile  == File(<<Word("js"), <<"essentials", ".", "js">>>>)
Files       == {indexFile, viewFile, scriptFile,
                File(<<Word("css"), <<"style", ".", "css">>>>),
                File(<<Word("img"), <<"logo", ".", "png">>>>),
                <<<<"sql", ".", "db">>>>}
Directories == {<<>>, web, File(Path(<<"css">>)), File(Path(<<"img">>)), File(Path(<<"js">>))}
NotFound    == Path(<<"404">>)

(* boost::filesystem::canonical(web_root_path / path), which throws where  *)
(* there is nothing.                                                       *)
canonical(path) ==
    LET Step(d, s) ==
            IF d \notin Directories THEN NotFound
            ELSE IF s \in {<<>>, <<".">>} THEN d
            ELSE IF s = <<".", ".">> THEN (IF d = <<>> THEN NotFound ELSE Front(d))
            ELSE IF Append(d, s) \in Files \cup Directories THEN Append(d, s) ELSE NotFound
    IN FoldLeft(Step, web, path)

get_file(path) ==
    LET found == canonical(path)
        file  == IF found \in Directories THEN Append(found, Word("index")) ELSE found
    IN IF IsPrefix(web, found) /\ file \in Files THEN file ELSE NotFound

(* The document a GET of the path is answered with.                        *)
Document(path, ahead) ==
    LET f == find_resource("GET", path, ahead)
    IN IF f = "view_post_get" THEN viewFile
       ELSE IF f = "view_all_posts_get" THEN indexFile
       ELSE IF f = "get_file" THEN get_file(path) ELSE NotFound
=============================================================================
