----------------------------------- MODULE Site -----------------------------------
(***************************************************************************)
(* LightBlog end to end: an author fills in forms, a reader follows the    *)
(* links of posts and the buttons of pages and searches, a client asks for *)
(* page after page.  What they do reaches the handlers as the paths, form  *)
(* contents and cookies the browser makes of it, is routed, decoded and    *)
(* carried out on the posts table.                                         *)
(*                                                                         *)
(* A handler is one step; what its statements and the page cache do among  *)
(* other handlers is PageCache, and who is logged in is Sessions: here the *)
(* author has a session all the time.                                      *)
(***************************************************************************)
EXTENDS Paging, Routes

CONSTANTS Runs,    \* what is tried: [titles, contents, edits, deletes, values, jumps,
                   \* cookies, clients, buttons, ahead]; titles are those of the first post,
                   \* of the second, and so on
          Session  \* the value of the author's cookie

(* What is typed is text.  The author's session comes in the first cookie  *)
(* of its name, and ids are printed apart, as other characters than marks. *)
Sent(cookie) ==
    /\ cookie \in Seq(STRING)
    /\ \E i \in 1..Len(cookie) :
          /\ cookie[i] = SessionName /\ \A j \in 1..(i - 1) : cookie[j] # SessionName
          /\ i + Len(Session) <= Len(cookie)
          /\ SubSeq(cookie, i + 1, i + Len(Session)) = Session

ASSUME SiteAssumption ==
    /\ Session \in Seq(STRING)
    /\ \A r \in Runs :
          /\ r.titles \in Seq(SUBSET Seq(STRING))
          /\ r.contents \cup r.edits \cup r.values \subseteq Seq(STRING)
          /\ \A cookie \in r.cookies : Sent(cookie)
    /\ \A i \in 1..MaxId : ToString(i) \in STRING \ Marks
    /\ \A i, j \in 1..MaxId : ToString(i) = ToString(j) => i = j

VARIABLES run,     \* the one of Runs that is tried
          form,    \* the form being sent: what the author typed
          wire,    \* its request on the way
          reply,   \* what he was told
          visit,   \* the reader's latest link, button or search
          row      \* the row the link stood for, as it was then

svars == <<pvars, run, form, wire, reply, visit, row>>
author == <<form, wire, reply>>
visitor == <<visit, row>>

None    == [op |-> "none"]
NoRow   == {}
Text(title, content) == [title |-> title, slug |-> title_encode(title), content |-> content]
WithSlug(s) == {r \in posts : r.text.slug = s}

SiteInit ==
    /\ PagingInit
    /\ run \in Runs
    /\ form = None /\ wire = None /\ reply = "" /\ visit = None /\ row = NoRow

-----------------------------------------------------------------------------
(* The author's browser: serialize writes the fields one after the other,  *)
(* the cookie comes with whatever other cookies there are.                 *)

Id(i)          == <<ToString(i)>>
Field(key, v)  == <<key, "=">> \o v
Joined(fields) == FlattenSeq([k \in 1..Len(fields) |->
                      IF k = 1 THEN fields[k] ELSE <<"&">> \o fields[k]])
Blanks         == {<<"+">>, <<"%", "2", "0">>}

Content(f, blank) ==
    LET title   == Field("title", FormValue(f.title, blank))
        content == Field("content", FormValue(f.content, blank))
    IN IF f.op = "create" THEN Joined(<<title, content>>)
       ELSE Joined(<<Field("post_id", Id(f.id)), title, content>>)

Function == [create |-> Path(<<"api", "post">>), update |-> Path(<<"edit">>),
             delete |-> Path(<<"delete">>)]

Forms ==
    {[op |-> "create", title |-> t, content |-> c] :
         t \in IF nextId <= Len(run.titles) THEN run.titles[nextId] ELSE {},
         c \in run.contents}
    \cup {[op |-> "update", id |-> r.id, title |-> t, content |-> r.text.content] :
              r \in posts, t \in run.edits}
    \cup {[op |-> "delete", id |-> r.id, title |-> r.text.title, content |-> r.text.content] :
              r \in IF run.deletes THEN posts ELSE {}}

Submit(f) ==
    /\ form = None
    /\ form' = f
    /\ \E blank \in Blanks, cookie \in run.cookies :
           wire' = [op |-> f.op, path |-> Function[f.op], content |-> Content(f, blank),
                    cookie |-> cookie]
    /\ reply' = ""
    /\ UNCHANGED <<pvars, run, visitor>>

(* create_post, update_post and delete_post with what the handler decoded. *)
create_post(title, content) ==
    IF title = <<>> \/ content = <<>> THEN reply' = "{fields_error}" /\ UNCHANGED pvars
    ELSE IF WithSlug(title_encode(title)) # {}
    THEN reply' = "{title_taken_error}" /\ UNCHANGED pvars
    ELSE Add(Text(title, content)) /\ reply' = "{success}"

update_post(i, title, content) ==
    IF title = <<>> \/ content = <<>> THEN reply' = "{fields_error}" /\ UNCHANGED pvars
    ELSE IF ~\E r \in posts : Id(r.id) = i THEN reply' = "{notfound}" /\ UNCHANGED pvars
    ELSE IF WithSlug(title_encode(title)) # {}
    THEN reply' = "{title_taken_error}" /\ UNCHANGED pvars
    ELSE /\ \E r \in posts : Id(r.id) = i /\ Change(r.id, Text(title, content))
         /\ reply' = "{success}"

delete_post(i) ==
    IF ~\E r \in posts : Id(r.id) = i THEN reply' = "{notfound}" /\ UNCHANGED pvars
    ELSE /\ \E r \in posts : Id(r.id) = i /\ Withdraw(r.id)
         /\ reply' = "{success}"

(* The request arrives: routing, get_post_data, uri_decode, is_logged_in.  *)
Process ==
    /\ wire # None
    /\ LET function == find_resource("POST", wire.path, run.ahead)
           title    == uri_decode(get_post_data(wire.content, <<"title">>))
           content  == uri_decode(get_post_data(wire.content, <<"content">>))
           post_id  == get_post_data(wire.content, <<"post_id">>)
       IN IF get_session_cookie(wire.cookie, Len(Session)) # Session
          THEN reply' = "{nologin}" /\ UNCHANGED pvars
          ELSE \/ function = "post_post" /\ create_post(title, content)
               \/ function = "edit_post" /\ update_post(post_id, title, content)
               \/ function = "delete_post" /\ delete_post(post_id)
    /\ wire' = None
    /\ UNCHANGED <<run, form, visitor>>

Acknowledge ==
    /\ form # None /\ wire = None
    /\ form' = None
    /\ UNCHANGED <<pvars, run, wire, reply, visitor>>

-----------------------------------------------------------------------------
(* The reader.  A document names its script by the path from its own       *)
(* address (Beside).  The script of the view document asks for the text    *)
(* after the fourth slash of the document's address, that of the index     *)
(* document by the text after the third.                                   *)

scriptPath == <<Word("js"), <<"essentials", ".", "js">>>>
Beside(path, file) == Front(path) \o file
loadPosts(path) ==
    IF path[1] \in {<<>>, Word("index")} THEN Path(<<"api", "home">>)
    ELSE Beside(path, Path(<<"api", "home">>) \o <<path[1]>>)
loadThisPost(path) ==
    Path(<<"api", "view">>) \o <<IF Len(path) > 1 THEN path[2] ELSE Word("undefined")>>

(* Opening the link of a post on a page, /postid.                          *)
Click(r) ==
    /\ run.clients # {}
    /\ visit' = [op |-> "link", path |-> <<r.text.slug>>,
                 document |-> Document(<<r.text.slug>>, run.ahead)]
    /\ row' = {r}
    /\ UNCHANGED <<pvars, run, author>>

(* The answer to GET path when it is view_post's: the post, if there is    *)
(* one, as a set of rows.                                                  *)
Viewed(path) ==
    IF find_resource("GET", path, run.ahead) = "view_post" THEN WithSlug(path[3]) ELSE {}

(* The post is asked for, by the page's script or by a client that knows   *)
(* the interface; in between, it may have been edited or deleted.          *)
Ask(client) ==
    /\ visit.op = "link" /\ client \in run.clients
    /\ client = "script" =>
           /\ visit.document = viewFile
           /\ Document(Beside(visit.path, scriptPath), run.ahead) = scriptFile
    /\ LET path == IF client = "script" THEN loadThisPost(visit.path)
                   ELSE Path(<<"api", "view">>) \o visit.path
       IN visit' = [op |-> "asked", client |-> client, document |-> visit.document,
                    path |-> visit.path, there |-> row \subseteq posts, got |-> Viewed(path)]
    /\ UNCHANGED <<pvars, run, author, row>>

(* Pressing Back or Next, the link /index/N: the document, if it finds its *)
(* script, asks for posts.                                                 *)
Paged(path) ==
    LET function == find_resource("GET", path, run.ahead)
    IN IF function = "view_home" THEN Rows(posts, 0) ELSE {}
Press(button) ==
    /\ run.buttons /\ button \in nav
    /\ LET number   == IF button = "Next" THEN at + 1 ELSE at - 1
           path     == Path(<<"index", ToString(number)>>)
           document == Document(path, run.ahead)
           scripted == /\ document = indexFile
                       /\ Document(Beside(path, scriptPath), run.ahead) = scriptFile
       IN visit' = [op |-> "button", path |-> path, document |-> document,
                    page |-> Rows(posts, number),
                    got |-> IF scripted THEN Paged(loadPosts(path)) ELSE {}]
    /\ row' = NoRow
    /\ UNCHANGED <<pvars, run, author>>

(* LIKE '%value%', where a % in the value stands for any characters.       *)
Like(text, value) ==
    LET plain == {i \in 1..Len(value) : value[i] # "%"}
    IN \E f \in [plain -> 1..Len(text)] :
           \A i \in plain :
               /\ text[f[i]] = value[i]
               /\ \A j \in plain : i < j => f[i] < f[j]
               /\ i + 1 \in plain => f[i + 1] = f[i] + 1

find_post(value) == {r \in posts : Like(r.text.title, value) \/ Like(r.text.content, value)}

(* The search box: GET api/find/ and the encoded value.                    *)
Search(value) ==
    /\ LET path     == Path(<<"api", "find">>) \o <<encodeURIComponent(value)>>
           function == find_resource("GET", path, run.ahead)
       IN visit' = [op |-> "search", value |-> value, function |-> function, all |-> posts,
                    got |-> IF function = "find_post" THEN find_post(uri_decode(path[3])) ELSE {}]
    /\ row' = NoRow
    /\ UNCHANGED <<pvars, run, author>>

(* A client that turns the pages asks for /api/home and /api/home/N.       *)
Asked(ws, function) == find_resource("GET", Path(ws), run.ahead) = function
TurnPages ==
    /\ \/ view_home /\ Asked(<<"api", "home">>, "view_home")
       \/ /\ Continue \/ \E p \in run.jumps : Jump(p)
          /\ Asked(<<"api", "home", ToString(at')>>, "view_specific_home")
    /\ UNCHANGED <<run, author, visitor>>

Leave ==
    /\ visit # None
    /\ visit' = None /\ row' = NoRow
    /\ UNCHANGED <<pvars, run, author>>

SiteNext ==
    \/ \E f \in Forms : Submit(f)
    \/ Process \/ Acknowledge
    \/ \E r \in shown : Click(r)
    \/ \E client \in run.clients : Ask(client)
    \/ \E value \in run.values : Search(value)
    \/ \E button \in nav : Press(button)
    \/ TurnPages \/ Leave

Spec == SiteInit /\ [][SiteNext]_svars

-----------------------------------------------------------------------------
(* What the author typed is what the handlers carry out, whatever          *)
(* characters are in it and whatever other cookies come along: success     *)
(* means the post is there, word for word (or gone); a refusal has its     *)
(* cause; and his session is always found in his cookies.                  *)
FormsCarriedOut ==
    form # None /\ wire = None =>
        /\ reply = "{success}" =>
              IF form.op = "delete" THEN form.id \notin IdsOf(posts)
              ELSE \E r \in posts : r.text = Text(form.title, form.content)
        /\ reply = "{fields_error}" => <<>> \in {form.title, form.content}
        /\ reply = "{title_taken_error}" => WithSlug(title_encode(form.title)) # {}
        /\ reply # "{nologin}" /\ reply # "{notfound}"

(* A search finds every post whose title or content has the words typed.   *)
(* The marks that encodeURIComponent leaves and REGEXSEARCH lacks are out. *)
Holds(text, value) == \E i \in 0..Len(text) : IsPrefix(value, SubSeq(text, i + 1, Len(text)))
FoundAsTyped ==
    visit.op = "search" /\ visit.value # <<>> /\ ToSet(visit.value) \cap {".", "!"} = {} =>
        /\ visit.function = "find_post"
        /\ {r \in visit.all : \/ Holds(r.text.title, visit.value)
                              \/ Holds(r.text.content, visit.value)} \subseteq visit.got

CarriedAsTyped == FormsCarriedOut /\ FoundAsTyped

(* The link of a post on a page, though the page be old: as long as the    *)
(* post is unchanged, /api/view/ and its address answer with that post and *)
(* no other, and the link itself opens the view document, whatever the     *)
(* order of the patterns; unless the title leaves no address at all, or a  *)
(* word of the table that comes first.                                     *)
LeadsToPost ==
    visit.there /\ visit.path # Root => visit.got = row
LinkLeadsToPost ==
    /\ visit.op = "asked" /\ visit.client = "direct" => LeadsToPost
    /\ visit.op \in {"link", "asked"} /\ visit.path # Root =>
          \/ visit.document = viewFile
          \/ \E r \in resource : r.function \in run.ahead /\ visit.path = r.prefix

(* A document that has a place for posts is to show them there (Start     *)
(* Posts, says web/view:20, and web/index:19): the one that the link of a  *)
(* post opens shows that post, the one that Next or Back (blog.cpp:459)    *)
(* opens the posts of that page.                                           *)
PostsShown ==
    /\ visit.op = "asked" /\ visit.client = "script" => LeadsToPost
    /\ visit.op = "button" => visit.got = visit.page
=============================================================================
