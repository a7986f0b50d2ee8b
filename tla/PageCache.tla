------------------------------- MODULE PageCache -------------------------------
(***************************************************************************)
(* The posts table and the page cache of LightBlog.                        *)
(*                                                                         *)
(* A guest is answered from BlogSystem::cache when the page is there; any  *)
(* other view runs several SELECTs, stores the compressed page in the      *)
(* cache and answers with it.  Posting, editing and deleting write the     *)
(* table first and empty the cache afterwards.  Each SQL statement and     *)
(* each access to the shared map is one step, so the handlers of several   *)
(* io_service threads and the detached threads of /reload interleave       *)
(* between them.                                                           *)
(*                                                                         *)
(* Abstracted: what is_logged_in answers is left open here (a handler may  *)
(* take either branch); title, content and date are one member of Texts;   *)
(* a page is the rows it shows and its navigation buttons; the controls    *)
(* added for a logged-in reader, which are never cached, are left out.     *)
(***************************************************************************)
EXTENDS Naturals, FiniteSets

CONSTANTS Io,        \* threads of the io_service, the THREADS argument
          Workers,   \* detached threads serving GET /reload
          Slugs,     \* what title_encode makes of a title: the postid column
          Texts,     \* contents of a post
          Pages,     \* page numbers asked of /api/home/N
          HomeKey,   \* page number -> cache key, CACHEHOME + to_string(page)
          PageSize,  \* posts on a page, 10 in the code
          MaxId,     \* bound: the last id AUTOINCREMENT gives out
          Absent,    \* no entry under this key
          Blank      \* the empty string cache[key] inserts when the key is gone

VARIABLES posts,     \* rows of the posts table
          nextId,    \* AUTOINCREMENT: ids are never given out twice
          cache,     \* BlogSystem::cache
          pc, req,   \* per thread: the next step, the request in hand
          page,      \* per thread: the page under construction or served
          status     \* per thread: the kind of answer

vars == <<posts, nextId, cache, pc, req, page, status>>
local == <<req, page, status>>

Threads == Io \cup Workers
Keys == Slugs \cup {HomeKey[p] : p \in Pages}
Ids == 1..MaxId

Row  == [id : Ids, slug : Slugs, text : Texts]
Page == [rows : SUBSET Row, nav : SUBSET {"Back", "Next"}]

Views     == [op : {"post"}, slug : Slugs] \cup [op : {"home"}, num : Pages]
Creations == [op : {"create"}, slug : Slugs, text : Texts]
Edits     == [op : {"update"}, id : Ids, slug : Slugs, text : Texts]
Deletions == [op : {"delete"}, id : Ids]
Mutations == Creations \cup Edits \cup Deletions
NoRequest == [op |-> "none"]
Reload    == [op |-> "reload"]

Statuses == {"none", "page", "{success}", "{notfound}", "{server_error}",
             "{title_taken_error}", "{fields_error}", "{nologin}"}
Points   == {"idle", "serve", "count", "rows", "nav", "fill", "erase",
             "exists", "slug", "write", "flush", "reload", "reply"}

ASSUME ThreadAssumption == Io \cap Workers = {}
ASSUME BoundAssumption ==
    Pages \subseteq Nat /\ PageSize \in Nat \ {0} /\ MaxId \in Nat
ASSUME EntryAssumption == Absent # Blank /\ Absent \notin Page /\ Blank \notin Page

-----------------------------------------------------------------------------
(* What the SELECTs return from a table P.                                 *)

WithId(P, i)   == {r \in P : r.id = i}
WithSlug(P, s) == {r \in P : r.slug = s}

(* ORDER by id DESC LIMIT PageSize OFFSET p * PageSize                     *)
Newer(P, r)  == {q \in P : q.id > r.id}
Window(P, p) == {r \in P : /\ p * PageSize <= Cardinality(Newer(P, r))
                           /\ Cardinality(Newer(P, r)) < (p + 1) * PageSize}

Buttons(p, count) ==
    {b \in {"Back", "Next"} :
        /\ count > PageSize
        /\ b = "Back" => p # 0
        /\ b = "Next" => count > (p + 1) * PageSize}

KeyOf(v)      == IF v.op = "home" THEN HomeKey[v.num] ELSE v.slug
Missing(P, v) == IF v.op = "home" THEN P = {} ELSE Cardinality(WithSlug(P, v.slug)) # 1
RowsFor(P, v) == IF v.op = "home" THEN Window(P, v.num) ELSE WithSlug(P, v.slug)
NavFor(P, v)  == IF v.op = "home" THEN Buttons(v.num, Cardinality(P)) ELSE {}
PageFor(P, v) == [rows |-> RowsFor(P, v), nav |-> NavFor(P, v)]
EmptyPage     == [rows |-> {}, nav |-> {}]

-----------------------------------------------------------------------------
Init ==
    /\ posts = {} /\ nextId = 1
    /\ cache = [k \in Keys |-> Absent]
    /\ pc = [t \in Threads |-> "idle"]
    /\ req = [t \in Threads |-> NoRequest]
    /\ page = [t \in Threads |-> EmptyPage]
    /\ status = [t \in Threads |-> "none"]

Move(t, from, to) == pc[t] = from /\ pc' = [pc EXCEPT ![t] = to]
Take(t, r)        == req' = [req EXCEPT ![t] = r]
Show(t, p)        == page' = [page EXCEPT ![t] = p]
Say(t, s)         == status' = [status EXCEPT ![t] = s]
Table             == <<posts, nextId>>

(* The request is over: the response object goes out of scope and is sent. *)
Respond(t) ==
    /\ Move(t, "reply", "idle")
    /\ Take(t, NoRequest) /\ Show(t, EmptyPage) /\ Say(t, "none")
    /\ UNCHANGED <<Table, cache>>

(* Mutant: a view that trusts its memory of the cache.                     *)
LookupUnchecked(t, v) ==
    /\ Move(t, "idle", "count") \/ Move(t, "idle", "serve")
    /\ Take(t, v)
    /\ UNCHANGED <<Table, cache, page, status>>

(* A view: cache.find(key) == end() || is_logged_in(request).              *)
Lookup(t, v) ==
    /\ \/ Move(t, "idle", "count")
       \/ cache[KeyOf(v)] # Absent /\ Move(t, "idle", "serve")
    /\ Take(t, v)
    /\ UNCHANGED <<Table, cache, page, status>>

(* Mutant: the entry is returned as it was found, gone or not.             *)
ServeAsFound(t) ==
    /\ Move(t, "serve", "reply")
    /\ Show(t, cache[KeyOf(req[t])]) /\ Say(t, "page")
    /\ UNCHANGED <<Table, cache, req>>

(* cache[key] of a key that has gone meanwhile inserts the empty string.   *)
Serve(t) ==
    /\ Move(t, "serve", "reply")
    /\ LET k     == KeyOf(req[t])
           entry == IF cache[k] = Absent THEN Blank ELSE cache[k]
       IN  cache' = [cache EXCEPT ![k] = entry] /\ Show(t, entry)
    /\ Say(t, "page")
    /\ UNCHANGED <<Table, req>>

ViewCount(t) ==
    /\ Move(t, "count", IF Missing(posts, req[t]) THEN "erase" ELSE "rows")
    /\ UNCHANGED <<Table, cache, local>>

Erase(t) ==
    /\ Move(t, "erase", "reply")
    /\ cache' = [cache EXCEPT ![KeyOf(req[t])] = Absent]
    /\ Say(t, IF req[t].op = "home" THEN "page" ELSE "{notfound}")
    /\ UNCHANGED <<Table, req, page>>

(* Mutant: the page is stored before its buttons are added.                *)
ViewRowsNoButtons(t) ==
    /\ Move(t, "rows", "fill")
    /\ Show(t, [rows |-> RowsFor(posts, req[t]), nav |-> {}])
    /\ UNCHANGED <<Table, cache, req, status>>

ViewRows(t) ==
    /\ Move(t, "rows", IF req[t].op = "home" THEN "nav" ELSE "fill")
    /\ Show(t, [rows |-> RowsFor(posts, req[t]), nav |-> {}])
    /\ UNCHANGED <<Table, cache, req, status>>

ViewNav(t) ==
    /\ Move(t, "nav", "fill")
    /\ Show(t, [page[t] EXCEPT !.nav = NavFor(posts, req[t])])
    /\ UNCHANGED <<Table, cache, req, status>>

Fill(t) ==
    /\ Move(t, "fill", "reply")
    /\ cache' = [cache EXCEPT ![KeyOf(req[t])] = page[t]]
    /\ Say(t, "page")
    /\ UNCHANGED <<Table, req, page>>

(* A statement that throws changes nothing itself.                         *)
Throw(t) ==
    /\ pc' = [pc EXCEPT ![t] = "reply"]
    /\ Show(t, EmptyPage) /\ Say(t, "{server_error}")
    /\ UNCHANGED <<Table, cache, req>>

(* Any may: the database is locked by another connection, say.             *)
DbError(t) ==
    /\ pc[t] \in {"count", "rows", "nav", "exists", "slug", "write"}
    /\ Throw(t)

-----------------------------------------------------------------------------
(* Posting, editing, deleting.                                             *)

Admit(t, m) ==
    /\ Move(t, "idle", IF m.op = "create" THEN "slug" ELSE "exists")
    /\ Take(t, m)
    /\ UNCHANGED <<Table, cache, page, status>>

(* Not logged in, or an empty title or content.                            *)
Refuse(t, m) ==
    /\ Move(t, "idle", "reply")
    /\ Take(t, m)
    /\ \/ Say(t, "{nologin}")
       \/ m.op # "delete" /\ Say(t, "{fields_error}")
    /\ UNCHANGED <<Table, cache, page>>

(* Mutants: the count is not looked at; a missing post is not answered.    *)
CheckExistsUncounted(t) ==
    /\ Move(t, "exists", IF req[t].op = "delete" THEN "write" ELSE "slug")
    /\ UNCHANGED <<Table, cache, local>>

CheckExistsNoAnswer(t) ==
    /\ pc[t] = "exists" /\ WithId(posts, req[t].id) # {}
    /\ Move(t, "exists", IF req[t].op = "delete" THEN "write" ELSE "slug")
    /\ UNCHANGED <<Table, cache, local>>

CheckExists(t) ==
    /\ pc[t] = "exists"
    /\ \/ /\ WithId(posts, req[t].id) # {}
          /\ Move(t, "exists", IF req[t].op = "delete" THEN "write" ELSE "slug")
          /\ UNCHANGED status
       \/ /\ WithId(posts, req[t].id) = {}
          /\ Move(t, "exists", "reply")
          /\ Say(t, "{notfound}")
    /\ UNCHANGED <<Table, cache, req, page>>

(* Mutant: the post being edited is left out of the count.                 *)
CheckSlugOfOthers(t) ==
    LET taken == {r \in WithSlug(posts, req[t].slug) : req[t].op = "update" => r.id # req[t].id}
    IN  /\ pc[t] = "slug"
        /\ \/ taken = {} /\ Move(t, "slug", "write") /\ UNCHANGED status
           \/ /\ taken # {}
              /\ Move(t, "slug", "reply")
              /\ Say(t, "{title_taken_error}")
        /\ UNCHANGED <<Table, cache, req, page>>

(* The count takes in the very post being edited.                          *)
CheckSlug(t) ==
    /\ pc[t] = "slug"
    /\ \/ WithSlug(posts, req[t].slug) = {} /\ Move(t, "slug", "write") /\ UNCHANGED status
       \/ /\ WithSlug(posts, req[t].slug) # {}
          /\ Move(t, "slug", "reply")
          /\ Say(t, "{title_taken_error}")
    /\ UNCHANGED <<Table, cache, req, page>>

(* A write that the table refuses: the UNIQUE column has the title by now, *)
(* or the ids have run out.  An update of no row offends nothing.          *)
Conflict(m) ==
    \/ m.op = "create" /\ (nextId > MaxId \/ WithSlug(posts, m.slug) # {})
    \/ /\ m.op = "update" /\ WithId(posts, m.id) # {}
       /\ ~(WithSlug(posts, m.slug) \subseteq WithId(posts, m.id))

(* Mutant: no UNIQUE constraint.                                           *)
InsertNotUnique(t) ==
    /\ req[t].op = "create" /\ nextId <= MaxId
    /\ Move(t, "write", "flush")
    /\ posts' = posts \cup {[id |-> nextId, slug |-> req[t].slug, text |-> req[t].text]}
    /\ nextId' = nextId + 1
    /\ UNCHANGED <<cache, local>>

(* The INSERT, and the cache.clear() after it, run in the callback of the   *)
(* SELECT of the author's row, which then looks for another such row.      *)
Insert(t) ==
    /\ req[t].op = "create" /\ ~Conflict(req[t])
    /\ Move(t, "write", "flush")
    /\ posts' = posts \cup {[id |-> nextId, slug |-> req[t].slug, text |-> req[t].text]}
    /\ nextId' = nextId + 1
    /\ UNCHANGED <<cache, local>>

(* The SELECT has no (further) row of the author.  If it never had one, the *)
(* name being changed meanwhile, nothing was inserted: {success} all the   *)
(* same.  If it fails here instead, DbError answers {server_error} to a    *)
(* creation whose row may be in the table.                                 *)
AuthorsDone(t) ==
    /\ req[t].op = "create"
    /\ Move(t, "write", "reply")
    /\ Say(t, "{success}")
    /\ UNCHANGED <<Table, cache, req, page>>

(* Mutants: the row is put back if it has gone; the cache is not cleared.  *)
UpdateOrInsert(t) ==
    /\ req[t].op = "update"
    /\ ~Conflict(req[t])
    /\ Move(t, "write", "flush")
    /\ posts' = (posts \ WithId(posts, req[t].id)) \cup
                  {[id |-> req[t].id, slug |-> req[t].slug, text |-> req[t].text]}
    /\ UNCHANGED <<nextId, cache, local>>

UpdateNoFlush(t) ==
    /\ req[t].op = "update"
    /\ ~Conflict(req[t])
    /\ Move(t, "write", "reply") /\ Say(t, "{success}")
    /\ posts' = {IF r.id = req[t].id
                 THEN [id |-> r.id, slug |-> req[t].slug, text |-> req[t].text]
                 ELSE r : r \in posts}
    /\ UNCHANGED <<nextId, cache, req, page>>

(* UPDATE ... WHERE id=? of a row deleted meanwhile changes nothing.       *)
Update(t) ==
    /\ req[t].op = "update"
    /\ ~Conflict(req[t])
    /\ Move(t, "write", "flush")
    /\ posts' = {IF r.id = req[t].id
                 THEN [id |-> r.id, slug |-> req[t].slug, text |-> req[t].text]
                 ELSE r : r \in posts}
    /\ UNCHANGED <<nextId, cache, local>>

Reject(t) ==
    /\ pc[t] = "write" /\ Conflict(req[t])
    /\ Throw(t)

Delete(t) ==
    /\ req[t].op = "delete"
    /\ Move(t, "write", "flush")
    /\ posts' = posts \ WithId(posts, req[t].id)
    /\ UNCHANGED <<nextId, cache, local>>

(* Mutant: only the pages of the posts are dropped, not the home pages.    *)
FlushPosts(t) ==
    /\ Move(t, "flush", "reply")
    /\ cache' = [k \in Keys |-> IF k \in Slugs THEN Absent ELSE cache[k]]
    /\ Say(t, "{success}")
    /\ UNCHANGED <<Table, req, page>>

Flush(t) ==
    /\ \/ /\ req[t].op = "create"
          /\ Move(t, "flush", "write") /\ UNCHANGED status
       \/ /\ req[t].op # "create"
          /\ Move(t, "flush", "reply") /\ Say(t, "{success}")
    /\ cache' = [k \in Keys |-> Absent]
    /\ UNCHANGED <<Table, req, page>>

-----------------------------------------------------------------------------
(* GET /reload, on a thread of its own, for a logged-in user.              *)

ReloadStart(w) ==
    /\ \/ Move(w, "idle", "reload") /\ UNCHANGED status
       \/ Move(w, "idle", "reply") /\ Say(w, "{nologin}")
    /\ Take(w, Reload)
    /\ UNCHANGED <<Table, cache, page>>

ReloadClear(w) ==
    /\ Move(w, "reload", "reply")
    /\ cache' = [k \in Keys |-> Absent]
    /\ Say(w, "page")
    /\ UNCHANGED <<Table, req, page>>

Arrive(t) ==
    \/ t \in Io /\ \E v \in Views : Lookup(t, v)
    \/ t \in Io /\ \E m \in Mutations : Admit(t, m) \/ Refuse(t, m)
    \/ t \in Workers /\ ReloadStart(t)

Work(t) ==
    \/ Serve(t) \/ ViewCount(t) \/ Erase(t) \/ ViewRows(t) \/ ViewNav(t) \/ Fill(t)
    \/ CheckExists(t) \/ CheckSlug(t) \/ Insert(t) \/ AuthorsDone(t) \/ Update(t)
    \/ Reject(t) \/ Delete(t) \/ Flush(t) \/ ReloadClear(t) \/ Respond(t)

Next == \E t \in Threads : Arrive(t) \/ Work(t) \/ DbError(t)

Spec == Init /\ [][Next]_vars

(* A thread that has a request goes on with it: the handlers take no lock  *)
(* and wait for nothing but the operating system.  Neither arrivals nor    *)
(* failing statements are fair.                                            *)
FairSpec == Spec /\ \A t \in Threads : WF_vars(Work(t))

-----------------------------------------------------------------------------
TypeOK ==
    /\ posts \in SUBSET Row
    /\ nextId \in 1..(MaxId + 1)
    /\ cache \in [Keys -> Page \cup {Absent, Blank}]
    /\ pc \in [Threads -> Points]
    /\ req \in [Threads -> Views \cup Mutations \cup {NoRequest, Reload}]
    /\ page \in [Threads -> Page \cup {Blank}]
    /\ status \in [Threads -> Statuses]

(* Two posts never share an address, however creations and edits that all  *)
(* found the title free interleave: the UNIQUE column of the table, not    *)
(* the counts of create_post and update_post, decides.                     *)
UniqueSlugs == \A q, r \in posts : q.slug = r.slug => q = r

(* The page under a key shows the posts as they are, and one for a post    *)
(* that exists (a home page beyond the last is cached, a missing post's is *)
(* not).                                                                   *)
Fresh(v) == ~Missing(posts, v) /\ cache[KeyOf(v)] = PageFor(posts, v)

Flushing == \E t \in Io : pc[t] = "flush"

(* Whatever a guest can be served from the cache is the page the database  *)
(* would give now, but for an entry a reload blanked and for the moment    *)
(* between a write and the cache.clear() that follows it.                  *)
Coherent ==
    \A v \in Views : cache[KeyOf(v)] \in {Absent, Blank} \/ Fresh(v) \/ Flushing

(* A reader is answered with the posts as they are when the answer leaves, *)
(* never with a mixture of two states of the table (get_posts runs three   *)
(* statements and no transaction).                                         *)
AnswerIsCurrent ==
    \A t \in Io :
        pc[t] = "reply" /\ req[t].op \in {"post", "home"} /\ status[t] = "page"
            => page[t] \in {Blank, PageFor(posts, req[t])}

(* {success} to an edit or a deletion means the table has it.              *)
SuccessTookEffect ==
    \A t \in Io :
        pc[t] = "reply" /\ status[t] = "{success}"
            => /\ req[t].op = "delete" => WithId(posts, req[t].id) = {}
               /\ req[t].op = "update" =>
                    [id |-> req[t].id, slug |-> req[t].slug, text |-> req[t].text] \in posts

(* An edit always moves the post to another address: the title check       *)
(* counts the post itself, so no edit that keeps the title goes through.   *)
EditMovesPost ==
    [][\A q \in posts : \A r \in posts' :
           q.id = r.id /\ q # r => q.slug # r.slug]_vars

(* A deleted post does not come back: neither an edit that found it before *)
(* the deletion nor a later insert brings its id into the table again.     *)
GoneForGood ==
    [][\A r \in posts' : r.id >= nextId \/ WithId(posts, r.id) # {}]_vars

(* Every request is answered.                                              *)
Answered == \A t \in Threads : pc[t] # "idle" ~> pc[t] = "idle"
=============================================================================
