---------------------------- MODULE PageCacheProofs ----------------------------
(***************************************************************************)
(* What holds of PageCache for every number of threads, slugs, texts and   *)
(* pages: its types, that an address is one post's and a deleted post does *)
(* not come back; with one io_service thread, that cache and answers are   *)
(* coherent, a reported write took effect and an edit moves its post; and  *)
(* with several, as PageCacheRaces has them, that only a view which a      *)
(* write overtook spoils the cache.                                        *)
(***************************************************************************)
EXTENDS PageCacheRaces, FiniteSetTheorems, TLAPS

(* Where a thread stands tells which kind of request it has in hand.       *)
Shape ==
    \A t \in Threads :
        /\ pc[t] \in {"serve", "count", "rows", "nav", "fill", "erase"} => req[t] \in Views
        /\ pc[t] \in {"exists", "slug", "write", "flush"} => req[t] \in Mutations
        /\ pc[t] = "exists" => req[t] \in Edits \cup Deletions
        /\ pc[t] = "slug" => req[t] \in Creations \cup Edits
        /\ pc[t] \in {"nav", "fill"} => page[t] \in Page
        /\ pc[t] = "nav" => req[t].op = "home"

TypeInv == TypeOK /\ Shape

-----------------------------------------------------------------------------
(* A view's key is a key of the cache.                                     *)
LEMMA KeyOfView == \A v \in Views : KeyOf(v) \in Keys
  BY DEF Views, KeyOf, Keys

(* What the SELECTs return makes a page.                                   *)
LEMMA PageOfTable ==
    \A P \in SUBSET Row : \A v : /\ RowsFor(P, v) \in SUBSET Row
                                 /\ NavFor(P, v) \in SUBSET {"Back", "Next"}
                                 /\ PageFor(P, v) \in Page
  <1> SUFFICES ASSUME NEW P \in SUBSET Row, NEW v
               PROVE  /\ RowsFor(P, v) \in SUBSET Row
                      /\ NavFor(P, v) \in SUBSET {"Back", "Next"}
                      /\ PageFor(P, v) \in Page
    OBVIOUS
  <1>1. RowsFor(P, v) \in SUBSET Row
    BY DEF RowsFor, Window, WithSlug
  <1>2. NavFor(P, v) \in SUBSET {"Back", "Next"}
    BY DEF NavFor, Buttons
  <1>3. PageFor(P, v) \in Page
    BY <1>1, <1>2 DEF PageFor, Page
  <1> QED  BY <1>1, <1>2, <1>3

LEMMA EmptyPageType == EmptyPage \in Page
  BY DEF EmptyPage, Page

(* A mutation is what its op says.                                         *)
LEMMA RequestKinds ==
    /\ \A m \in Mutations : m.op = "create" => m \in Creations
    /\ \A m \in Mutations : m.op = "update" => m \in Edits
    /\ \A m \in Mutations : m.op = "delete" => m \in Deletions
    /\ \A m \in Mutations : m.op # "create" => m \in Edits \cup Deletions
    /\ \A m \in Edits \cup Deletions : m \in Mutations /\ (m.op # "delete" => m \in Edits)
  BY DEF Mutations, Creations, Edits, Deletions

(* A write that the table refuses fails like any other statement.          *)
LEMMA RejectThrows == \A t : Reject(t) => DbError(t)
  BY DEF Reject, DbError

(* An id below the limit can be given out.                                 *)
LEMMA IdBelowLimit ==
    \A n \in 1..(MaxId + 1) : ~(n > MaxId) => n \in Ids /\ n + 1 \in 1..(MaxId + 1)
  BY BoundAssumption DEF Ids

LEMMA TypeInit == Init => TypeInv
  <1> SUFFICES ASSUME Init PROVE TypeInv
    OBVIOUS
  <1>1. TypeOK
    BY BoundAssumption, EmptyPageType DEF Init, TypeOK, Points, Statuses
  <1>2. Shape
    BY DEF Init, Shape
  <1> QED  BY <1>1, <1>2 DEF TypeInv

(* Every step keeps the types.                                             *)
LEMMA TypeStep == TypeInv /\ [Next]_vars => TypeInv'
  <1> SUFFICES ASSUME TypeInv, [Next]_vars PROVE TypeInv'
    OBVIOUS
  <1> USE DEF TypeInv, TypeOK, Shape, Points, Statuses, Move, Take, Show, Say, Table, local
  <1>1. ASSUME NEW t \in Io, NEW v \in Views, Lookup(t, v) PROVE TypeInv'
    BY <1>1 DEF Lookup, Threads
  <1>2. ASSUME NEW t \in Io, NEW m \in Mutations, Admit(t, m) \/ Refuse(t, m) PROVE TypeInv'
    <2>1. CASE Admit(t, m)
      <3>1. m.op = "create" => m \in Creations
        BY RequestKinds
      <3>2. m.op # "create" => m \in Edits \cup Deletions
        BY RequestKinds
      <3> QED  BY <2>1, <3>1, <3>2 DEF Admit, Threads
    <2>2. CASE Refuse(t, m)
      BY <2>2 DEF Refuse, Threads
    <2> QED  BY <1>2, <2>1, <2>2
  <1>3. ASSUME NEW t \in Workers, ReloadStart(t) PROVE TypeInv'
    <2>1. t \in Threads /\ t \notin Io
      BY ThreadAssumption DEF Threads
    <2>2. /\ Move(t, "idle", "reload") \/ Move(t, "idle", "reply")
          /\ UNCHANGED status \/ Say(t, "{nologin}")
          /\ Take(t, Reload) /\ UNCHANGED <<Table, cache, page>>
      BY <1>3 DEF ReloadStart
    <2>3. TypeOK'
      BY <2>1, <2>2
    <2>4. Shape'
      BY <2>1, <2>2
    <2> QED  BY <2>3, <2>4
  <1>4. ASSUME NEW t \in Threads, Serve(t) PROVE TypeInv'
    BY <1>4, KeyOfView DEF Serve
  <1>5. ASSUME NEW t \in Threads, ViewCount(t) PROVE TypeInv'
    BY <1>5 DEF ViewCount
  <1>6. ASSUME NEW t \in Threads, Erase(t) PROVE TypeInv'
    BY <1>6, KeyOfView, EmptyPageType DEF Erase
  <1>7. ASSUME NEW t \in Threads, ViewRows(t) PROVE TypeInv'
    BY <1>7, PageOfTable DEF ViewRows, Page
  <1>8. ASSUME NEW t \in Threads, ViewNav(t) PROVE TypeInv'
    <2>1. req[t] \in Views /\ page[t] \in Page
      BY <1>8 DEF ViewNav
    <2>2. [page[t] EXCEPT !.nav = NavFor(posts, req[t])] \in Page
      BY <2>1, PageOfTable DEF Page
    <2> QED  BY <1>8, <2>1, <2>2 DEF ViewNav
  <1>9. ASSUME NEW t \in Threads, Fill(t) PROVE TypeInv'
    BY <1>9, KeyOfView DEF Fill
  <1>10. ASSUME NEW t \in Threads, CheckExists(t) PROVE TypeInv'
    <2>1. req[t] \in Edits \cup Deletions /\ req[t] \in Mutations
      BY <1>10 DEF CheckExists
    <2>2. req[t].op # "delete" => req[t] \in Edits
      BY <2>1, RequestKinds
    <2> QED  BY <1>10, <2>1, <2>2 DEF CheckExists
  <1>11. ASSUME NEW t \in Threads, CheckSlug(t) PROVE TypeInv'
    <2>1. CASE pc'[t] = "write"
      BY <1>11, <2>1 DEF CheckSlug
    <2>2. CASE pc'[t] # "write"
      BY <1>11, <2>2 DEF CheckSlug
    <2> QED  BY <2>1, <2>2
  <1>12. ASSUME NEW t \in Threads, Insert(t) PROVE TypeInv'
    <2>1. req[t] \in Creations
      BY <1>12, RequestKinds DEF Insert
    <2>2. nextId \in 1..(MaxId + 1) /\ ~(nextId > MaxId)
      BY <1>12 DEF Insert, Conflict
    <2>3. nextId \in Ids /\ nextId + 1 \in 1..(MaxId + 1)
      BY <2>2, IdBelowLimit
    <2>4. [id |-> nextId, slug |-> req[t].slug, text |-> req[t].text] \in Row
      BY <2>1, <2>3 DEF Creations, Row
    <2>5. posts' \in SUBSET Row /\ nextId' \in 1..(MaxId + 1)
      BY <1>12, <2>3, <2>4 DEF Insert
    <2> QED  BY <1>12, <2>5 DEF Insert
  <1>13. ASSUME NEW t \in Threads, AuthorsDone(t) PROVE TypeInv'
    BY <1>13 DEF AuthorsDone
  <1>14. ASSUME NEW t \in Threads, Update(t) PROVE TypeInv'
    <2>1. req[t] \in Edits
      BY <1>14, RequestKinds DEF Update
    <2>2. \A r \in Row :
             [id |-> r.id, slug |-> req[t].slug, text |-> req[t].text] \in Row
      BY <2>1 DEF Edits, Row
    <2>3. posts' \in SUBSET Row
      BY <1>14, <2>2 DEF Update
    <2> QED  BY <1>14, <2>3 DEF Update
  <1>15. ASSUME NEW t \in Threads, Delete(t) PROVE TypeInv'
    BY <1>15 DEF Delete
  <1>16. ASSUME NEW t \in Threads, Flush(t) PROVE TypeInv'
    <2>1. cache' \in [Keys -> Page \cup {Absent, Blank}] /\ UNCHANGED <<Table, req, page>>
      BY <1>16 DEF Flush
    <2>2. CASE Move(t, "flush", "write") /\ UNCHANGED status
      BY <2>1, <2>2
    <2>3. CASE Move(t, "flush", "reply") /\ Say(t, "{success}")
      BY <2>1, <2>3
    <2> QED  BY <1>16, <2>2, <2>3 DEF Flush
  <1>17. ASSUME NEW t \in Threads, ReloadClear(t) PROVE TypeInv'
    BY <1>17 DEF ReloadClear
  <1>18. ASSUME NEW t \in Threads, DbError(t) \/ Reject(t) PROVE TypeInv'
    <2>1. DbError(t)
      BY <1>18, RejectThrows
    <2> QED  BY <2>1, EmptyPageType DEF DbError, Throw
  <1>19. ASSUME NEW t \in Threads, Respond(t) PROVE TypeInv'
    BY <1>19, EmptyPageType DEF Respond
  <1>20. CASE UNCHANGED vars
    BY <1>20 DEF vars
  <1> QED
    BY <1>1, <1>2, <1>3, <1>4, <1>5, <1>6, <1>7, <1>8, <1>9, <1>10,
       <1>11, <1>12, <1>13, <1>14, <1>15, <1>16, <1>17, <1>18, <1>19, <1>20
       DEF Next, Arrive, Work, Threads

(* Every variable keeps its type and every step finds the kind of request  *)
(* it is written for, whatever the number of threads.                      *)
THEOREM TypeCorrect == Spec => []TypeOK
  <1>1. Spec => []TypeInv
    BY TypeInit, TypeStep, PTL DEF Spec
  <1>2. TypeInv => TypeOK
    BY DEF TypeInv
  <1> QED  BY <1>1, <1>2, PTL

-----------------------------------------------------------------------------
(* Only three steps write the posts table.                                 *)
LEMMA Writers ==
    ASSUME [Next]_vars, Table' # Table
    PROVE  \E t \in Threads : Insert(t) \/ Update(t) \/ Delete(t)
  BY DEF Next, Arrive, Work, vars, Table, local, Lookup, Admit, Refuse, ReloadStart,
         Serve, ViewCount, Erase, ViewRows, ViewNav, Fill, CheckExists, CheckSlug,
         AuthorsDone, Reject, Flush, ReloadClear, DbError, Throw, Respond

(* However many threads write at once, no two posts share an address: of   *)
(* create_post and update_post neither count is needed, the UNIQUE column  *)
(* is enough.                                                              *)
THEOREM AddressesUnique == Spec => []UniqueSlugs
  <1>1. Init => UniqueSlugs
    BY DEF Init, UniqueSlugs
  <1>2. ASSUME TypeInv, UniqueSlugs, [Next]_vars PROVE UniqueSlugs'
    <2>1. CASE Table' = Table
      BY <1>2, <2>1 DEF Table, UniqueSlugs
    <2>2. CASE Table' # Table
      <3>1. PICK t \in Threads : Insert(t) \/ Update(t) \/ Delete(t)
        BY <1>2, <2>2, Writers
      <3>2. CASE Insert(t)
        <4> DEFINE new == [id |-> nextId, slug |-> req[t].slug, text |-> req[t].text]
        <4>1. posts' = posts \cup {new} /\ WithSlug(posts, req[t].slug) = {}
          BY <3>2 DEF Insert, Conflict
        <4>2. new.slug = req[t].slug
          OBVIOUS
        <4>3. \A r \in posts : r.slug # new.slug
          BY <4>1, <4>2 DEF WithSlug
        <4> HIDE DEF new
        <4> QED  BY <1>2, <4>1, <4>3 DEF UniqueSlugs
      <3>3. CASE Update(t)
        <4> DEFINE m == req[t]
        <4>1. posts' = {IF r.id = m.id THEN [id |-> r.id, slug |-> m.slug, text |-> m.text]
                        ELSE r : r \in posts}
          BY <3>3 DEF Update
        <4>3. WithId(posts, m.id) = {} \/ WithSlug(posts, m.slug) \subseteq WithId(posts, m.id)
          BY <3>3 DEF Update, Conflict
        <4>4. \A q, r \in posts : q.id = m.id /\ r.slug = m.slug => r.id = m.id
          BY <4>3 DEF WithId, WithSlug
        <4>5. \A q, r \in posts : q.id = m.id /\ r.id = m.id
                 => [id |-> q.id, slug |-> m.slug, text |-> m.text]
                      = [id |-> r.id, slug |-> m.slug, text |-> m.text]
          OBVIOUS
        <4>6. \A r \in posts : [id |-> r.id, slug |-> m.slug, text |-> m.text].slug = m.slug
          OBVIOUS
        <4> HIDE DEF m
        <4> QED  BY <1>2, <4>1, <4>4, <4>5, <4>6 DEF UniqueSlugs
      <3>4. CASE Delete(t)
        BY <1>2, <3>4 DEF Delete, UniqueSlugs
      <3> QED  BY <3>1, <3>2, <3>3, <3>4
    <2> QED  BY <2>1, <2>2
  <1> QED  BY <1>1, <1>2, TypeInit, TypeStep, PTL DEF Spec

(* Nothing brings a deleted post back: every id in the table was in it one *)
(* step before, or is given out for the first time.                        *)
THEOREM DeletedForGood == Spec => GoneForGood
  <1>1. ASSUME TypeInv, [Next]_vars
        PROVE  \A r \in posts' : r.id >= nextId \/ WithId(posts, r.id) # {}
    <2>1. CASE Table' = Table
      BY <2>1 DEF Table, WithId
    <2>2. CASE Table' # Table
      <3>1. PICK t \in Threads : Insert(t) \/ Update(t) \/ Delete(t)
        BY <1>1, <2>2, Writers
      <3>2. nextId >= nextId
        BY <1>1, BoundAssumption DEF TypeInv, TypeOK
      <3>3. CASE Insert(t)
        BY <3>2, <3>3 DEF Insert, WithId
      <3>4. CASE Update(t)
        <4>1. posts \in SUBSET Row
          BY <1>1 DEF TypeInv, TypeOK
        <4> QED  BY <3>4, <4>1 DEF Update, WithId, Row
      <3>5. CASE Delete(t)
        BY <3>5 DEF Delete, WithId
      <3> QED  BY <3>1, <3>3, <3>4, <3>5
    <2> QED  BY <2>1, <2>2
  <1>2. TypeInv /\ [Next]_vars
          => [\A r \in posts' : r.id >= nextId \/ WithId(posts, r.id) # {}]_vars
    BY <1>1
  <1> QED  BY <1>2, TypeInit, TypeStep, PTL DEF Spec, GoneForGood

-----------------------------------------------------------------------------
(* With one io_service thread no write comes between the SELECTs of a      *)
(* view, which is what the coherence of the cache rests on; and no post    *)
(* may be titled like the cache key of a home page.                        *)
OneIo   == \A s, t \in Io : s = t
NoClash == \A v, w \in Views : KeyOf(v) = KeyOf(w) => v = w

(* What a thread holds at each step is what the table still says.          *)
Snapshot ==
    \A t \in Io :
        /\ pc[t] # "reload"
        /\ pc[t] \in {"idle", "count", "erase"} => page[t] = EmptyPage
        /\ pc[t] = "erase" => Missing(posts, req[t])
        /\ pc[t] \in {"rows", "nav", "fill"} => ~Missing(posts, req[t])
        /\ pc[t] = "nav" => page[t] = [rows |-> RowsFor(posts, req[t]), nav |-> {}]
        /\ pc[t] = "fill" => page[t] = PageFor(posts, req[t])

WorkersReload == \A t \in Workers : pc[t] \in {"idle", "reload", "reply"}

CacheInv == TypeInv /\ WorkersReload /\ Snapshot /\ Coherent /\ AnswerIsCurrent

-----------------------------------------------------------------------------
(* A home page of a blog without posts is the empty page.                  *)
LEMMA MissingHome == \A v : v.op = "home" /\ Missing({}, v) => PageFor({}, v) = EmptyPage
  <1> SUFFICES ASSUME NEW v, v.op = "home" PROVE PageFor({}, v) = EmptyPage
    OBVIOUS
  <1>1. RowsFor({}, v) = {}
    BY DEF RowsFor, Window
  <1>2. Cardinality({}) = 0
    BY FS_EmptySet
  <1>3. NavFor({}, v) = {}
    BY <1>2, BoundAssumption DEF NavFor, Buttons
  <1> QED  BY <1>1, <1>3 DEF PageFor, EmptyPage

(* The page of a post has no buttons.                                      *)
LEMMA PostPage ==
    \A P : \A v \in Views :
        v.op # "home" => PageFor(P, v) = [rows |-> RowsFor(P, v), nav |-> {}]
  BY DEF PageFor, NavFor

LEMMA CacheInit == Init => CacheInv
  <1> SUFFICES ASSUME Init PROVE CacheInv
    OBVIOUS
  <1>1. TypeInv
    BY TypeInit
  <1>2. WorkersReload
    BY DEF Init, WorkersReload, Threads
  <1>3. Snapshot
    BY DEF Init, Snapshot, Threads
  <1>4. Coherent
    BY KeyOfView DEF Init, Coherent
  <1>5. AnswerIsCurrent
    BY DEF Init, AnswerIsCurrent, Threads
  <1> QED  BY <1>1, <1>2, <1>3, <1>4, <1>5 DEF CacheInv

(* A step that leaves table and cache alone leaves the cache coherent.     *)
LEMMA CoherentKept ==
    ASSUME Coherent, posts' = posts, cache' = cache, Flushing => Flushing'
    PROVE  Coherent'
  BY DEF Coherent, Fresh

-----------------------------------------------------------------------------
(* Only an io_service thread is ever part way through a view or a write.   *)
LEMMA IoOnly ==
    WorkersReload => \A t \in Threads : pc[t] \notin {"idle", "reload", "reply"} => t \in Io
  BY DEF WorkersReload, Threads

(* Every step keeps the cache coherent when there is one io thread.        *)
LEMMA CacheStep ==
    ASSUME OneIo, NoClash, CacheInv, [Next]_vars
    PROVE  CacheInv'
  <1> DEFINE Rest == WorkersReload /\ Snapshot /\ Coherent /\ AnswerIsCurrent
  <1>a. TypeInv /\ TypeInv' /\ WorkersReload /\ Snapshot /\ Coherent /\ AnswerIsCurrent
    BY TypeStep DEF CacheInv
  <1>b. /\ pc \in [Threads -> Points] /\ page \in [Threads -> Page \cup {Blank}]
        /\ req \in [Threads -> Views \cup Mutations \cup {NoRequest, Reload}]
        /\ status \in [Threads -> Statuses]
        /\ cache \in [Keys -> Page \cup {Absent, Blank}]
    BY <1>a DEF TypeInv, TypeOK
  <1>c. Io \subseteq Threads /\ Workers \subseteq Threads /\ Io \cap Workers = {}
    BY ThreadAssumption DEF Threads
  <1>d. \A t \in Threads : pc[t] \notin {"idle", "reload", "reply"} => t \in Io
    BY <1>a, IoOnly
  <1>e. \A s, t \in Io : s = t
    BY DEF OneIo
  <1> SUFFICES Rest'
    BY <1>a DEF CacheInv
  <1> USE DEF Move, Take, Show, Say, Table, local
  <1>1. ASSUME NEW t \in Io, NEW v \in Views, Lookup(t, v) PROVE Rest'
    <2>1. WorkersReload'
      BY <1>1, <1>a, <1>b, <1>c DEF Lookup, WorkersReload
    <2>2. Snapshot'
      BY <1>1, <1>a, <1>b, <1>c, <1>e DEF Lookup, Snapshot
    <2>3. Coherent'
      BY <1>1, <1>a, <1>b, <1>c, CoherentKept DEF Lookup, Flushing
    <2>4. AnswerIsCurrent'
      BY <1>1, <1>a, <1>b, <1>c, <1>e DEF Lookup, AnswerIsCurrent
    <2> QED  BY <2>1, <2>2, <2>3, <2>4
  <1>2. ASSUME NEW t \in Io, NEW m \in Mutations, Admit(t, m) PROVE Rest'
    <2>1. WorkersReload'
      BY <1>2, <1>a, <1>b, <1>c DEF Admit, WorkersReload
    <2>2. Snapshot'
      BY <1>2, <1>a, <1>b, <1>c, <1>e DEF Admit, Snapshot
    <2>3. Coherent'
      BY <1>2, <1>a, <1>b, <1>c, CoherentKept DEF Admit, Flushing
    <2>4. AnswerIsCurrent'
      BY <1>2, <1>a, <1>b, <1>c, <1>e DEF Admit, AnswerIsCurrent
    <2> QED  BY <2>1, <2>2, <2>3, <2>4
  <1>3. ASSUME NEW t \in Io, NEW m \in Mutations, Refuse(t, m) PROVE Rest'
    <2>1. WorkersReload'
      BY <1>3, <1>a, <1>b, <1>c DEF Refuse, WorkersReload
    <2>2. Snapshot'
      BY <1>3, <1>a, <1>b, <1>c, <1>e DEF Refuse, Snapshot
    <2>3. Coherent'
      BY <1>3, <1>a, <1>b, <1>c, CoherentKept DEF Refuse, Flushing
    <2>4. AnswerIsCurrent'
      BY <1>3, <1>a, <1>b, <1>c, <1>e DEF Refuse, AnswerIsCurrent
    <2> QED  BY <2>1, <2>2, <2>3, <2>4
  <1>4. ASSUME NEW t \in Workers, ReloadStart(t) PROVE Rest'
    <2>1. WorkersReload'
      BY <1>4, <1>a, <1>b, <1>c DEF ReloadStart, WorkersReload
    <2>2. Snapshot'
      BY <1>4, <1>a, <1>b, <1>c, <1>e DEF ReloadStart, Snapshot
    <2>3. Coherent'
      BY <1>4, <1>a, <1>b, <1>c, CoherentKept DEF ReloadStart, Flushing
    <2>4. AnswerIsCurrent'
      BY <1>4, <1>a, <1>b, <1>c, <1>e DEF ReloadStart, AnswerIsCurrent
    <2> QED  BY <2>1, <2>2, <2>3, <2>4
  <1>5. ASSUME NEW t \in Threads, ViewCount(t) PROVE Rest'
    <2>0. t \in Io
      BY <1>5, <1>d DEF ViewCount
    <2>1. WorkersReload'
      BY <1>5, <1>a, <1>b, <1>c, <2>0 DEF ViewCount, WorkersReload
    <2>2. Snapshot'
      BY <1>5, <1>a, <1>b, <1>c, <1>e, <2>0 DEF ViewCount, Snapshot
    <2>3. Coherent'
      BY <1>5, <1>a, <1>b, <1>c, CoherentKept, <2>0 DEF ViewCount, Flushing
    <2>4. AnswerIsCurrent'
      BY <1>5, <1>a, <1>b, <1>c, <1>e, <2>0 DEF ViewCount, AnswerIsCurrent
    <2> QED  BY <2>1, <2>2, <2>3, <2>4
  <1>6. ASSUME NEW t \in Threads, ViewRows(t) PROVE Rest'
    <2>0. t \in Io
      BY <1>6, <1>d DEF ViewRows
    <2>v. req[t] \in Views
      BY <1>6, <1>a DEF ViewRows, TypeInv, Shape
    <2>1. WorkersReload'
      BY <1>6, <1>a, <1>b, <1>c, <2>0 DEF ViewRows, WorkersReload
    <2>2. Snapshot'
      <3>1. pc[t] = "rows" /\ ~Missing(posts, req[t])
        BY <1>6, <1>a, <2>0 DEF ViewRows, Move, Snapshot
      <3>2. /\ pc'[t] = IF req[t].op = "home" THEN "nav" ELSE "fill"
            /\ page'[t] = [rows |-> RowsFor(posts, req[t]), nav |-> {}]
            /\ posts' = posts /\ req' = req
        BY <1>6, <1>b DEF ViewRows, Move, Show, Table
      <3>3. req[t].op # "home" => page'[t] = PageFor(posts, req[t])
        BY <2>v, <3>2, PostPage
      <3>4. \A s \in Io : s = t
        BY <1>e, <2>0
      <3> QED  BY <3>1, <3>2, <3>3, <3>4 DEF Snapshot
    <2>3. Coherent'
      BY <1>6, <1>a, <1>b, <1>c, CoherentKept, <2>0 DEF ViewRows, Flushing
    <2>4. AnswerIsCurrent'
      BY <1>6, <1>a, <1>b, <1>c, <1>e, <2>0 DEF ViewRows, AnswerIsCurrent
    <2> QED  BY <2>1, <2>2, <2>3, <2>4
  <1>7. ASSUME NEW t \in Threads, ViewNav(t) PROVE Rest'
    <2>0. t \in Io
      BY <1>7, <1>d DEF ViewNav
    <2>1. WorkersReload'
      BY <1>7, <1>a, <1>b, <1>c, <2>0 DEF ViewNav, WorkersReload
    <2>2. Snapshot'
      BY <1>7, <1>a, <1>b, <1>c, <1>e, <2>0 DEF ViewNav, Snapshot, PageFor
    <2>3. Coherent'
      BY <1>7, <1>a, <1>b, <1>c, CoherentKept, <2>0 DEF ViewNav, Flushing
    <2>4. AnswerIsCurrent'
      BY <1>7, <1>a, <1>b, <1>c, <1>e, <2>0 DEF ViewNav, AnswerIsCurrent
    <2> QED  BY <2>1, <2>2, <2>3, <2>4
  <1>8. ASSUME NEW t \in Threads, CheckExists(t) PROVE Rest'
    <2>0. t \in Io
      BY <1>8, <1>d DEF CheckExists
    <2>1. WorkersReload'
      BY <1>8, <1>a, <1>b, <1>c, <2>0 DEF CheckExists, WorkersReload
    <2>2. Snapshot'
      BY <1>8, <1>a, <1>b, <1>c, <1>e, <2>0 DEF CheckExists, Snapshot
    <2>3. Coherent'
      BY <1>8, <1>a, <1>b, <1>c, CoherentKept, <2>0 DEF CheckExists, Flushing
    <2>4. AnswerIsCurrent'
      BY <1>8, <1>a, <1>b, <1>c, <1>e, <2>0 DEF CheckExists, AnswerIsCurrent
    <2> QED  BY <2>1, <2>2, <2>3, <2>4
  <1>9. ASSUME NEW t \in Threads, CheckSlug(t) PROVE Rest'
    <2>0. t \in Io
      BY <1>9, <1>d DEF CheckSlug
    <2>1. WorkersReload'
      BY <1>9, <1>a, <1>b, <1>c, <2>0 DEF CheckSlug, WorkersReload
    <2>2. Snapshot'
      BY <1>9, <1>a, <1>b, <1>c, <1>e, <2>0 DEF CheckSlug, Snapshot
    <2>3. Coherent'
      BY <1>9, <1>a, <1>b, <1>c, CoherentKept, <2>0 DEF CheckSlug, Flushing
    <2>4. AnswerIsCurrent'
      BY <1>9, <1>a, <1>b, <1>c, <1>e, <2>0 DEF CheckSlug, AnswerIsCurrent
    <2> QED  BY <2>1, <2>2, <2>3, <2>4
  <1>10. ASSUME NEW t \in Threads, AuthorsDone(t) PROVE Rest'
    <2>0. t \in Io
      BY <1>10, <1>d DEF AuthorsDone
    <2>1. WorkersReload'
      BY <1>10, <1>a, <1>b, <1>c, <2>0 DEF AuthorsDone, WorkersReload
    <2>2. Snapshot'
      BY <1>10, <1>a, <1>b, <1>c, <1>e, <2>0 DEF AuthorsDone, Snapshot
    <2>3. Coherent'
      BY <1>10, <1>a, <1>b, <1>c, CoherentKept, <2>0 DEF AuthorsDone, Flushing
    <2>4. AnswerIsCurrent'
      BY <1>10, <1>a, <1>b, <1>c, <1>e, <2>0 DEF AuthorsDone, AnswerIsCurrent
    <2> QED  BY <2>1, <2>2, <2>3, <2>4
  <1>11. ASSUME NEW t \in Threads, DbError(t) \/ Reject(t) PROVE Rest'
    <2>e. DbError(t)
      BY <1>11, RejectThrows
    <2>0. t \in Io
      BY <2>e, <1>d DEF DbError, Throw
    <2>1. WorkersReload'
      BY <2>e, <1>a, <1>b, <1>c, <2>0 DEF DbError, Throw, WorkersReload
    <2>2. Snapshot'
      BY <2>e, <1>a, <1>b, <1>c, <1>e, <2>0 DEF DbError, Throw, Snapshot
    <2>3. Coherent'
      BY <2>e, <1>a, <1>b, <1>c, CoherentKept, <2>0 DEF DbError, Throw, Flushing
    <2>4. AnswerIsCurrent'
      BY <2>e, <1>a, <1>b, <1>c, <1>e, <2>0 DEF DbError, Throw, AnswerIsCurrent
    <2> QED  BY <2>1, <2>2, <2>3, <2>4
  <1>12. ASSUME NEW t \in Threads, Respond(t) PROVE Rest'
    <2>1. WorkersReload'
      BY <1>12, <1>a, <1>b, <1>c DEF Respond, WorkersReload
    <2>2. Snapshot'
      BY <1>12, <1>a, <1>b, <1>c, <1>e DEF Respond, Snapshot
    <2>3. Coherent'
      BY <1>12, <1>a, <1>b, <1>c, CoherentKept DEF Respond, Flushing
    <2>4. AnswerIsCurrent'
      BY <1>12, <1>a, <1>b, <1>c, <1>e DEF Respond, AnswerIsCurrent
    <2> QED  BY <2>1, <2>2, <2>3, <2>4
  <1>13. ASSUME NEW t \in Threads, Serve(t) PROVE Rest'
    <2>0. t \in Io
      BY <1>13, <1>d DEF Serve
    <2>v. req[t] \in Views
      BY <1>13, <1>a DEF Serve, TypeInv, Shape
    <2>f. ~Flushing
      BY <1>13, <1>e, <2>0 DEF Serve, Flushing
    <2>1. WorkersReload'
      BY <1>13, <1>a, <1>b, <1>c, <2>0 DEF Serve, WorkersReload
    <2>2. Snapshot'
      BY <1>13, <1>a, <1>b, <1>c, <1>e, <2>0 DEF Serve, Snapshot
    <2>3. Coherent'
      BY <1>13, <1>a, <1>b, <1>c, <2>v, KeyOfView DEF Serve, Coherent, Fresh, Flushing
    <2>4. AnswerIsCurrent'
      BY <1>13, <1>a, <1>b, <1>c, <1>e, <2>0, <2>v, <2>f, KeyOfView
         DEF Serve, AnswerIsCurrent, Coherent, Fresh
    <2> QED  BY <2>1, <2>2, <2>3, <2>4
  <1>14. ASSUME NEW t \in Threads, Erase(t) PROVE Rest'
    <2>0. t \in Io
      BY <1>14, <1>d DEF Erase
    <2>v. req[t] \in Views
      BY <1>14, <1>a DEF Erase, TypeInv, Shape
    <2>h. req[t].op = "home" => page[t] = PageFor(posts, req[t])
      BY <1>14, <1>a, <2>0, MissingHome DEF Erase, Snapshot, Missing
    <2>1. WorkersReload'
      BY <1>14, <1>a, <1>b, <1>c, <2>0 DEF Erase, WorkersReload
    <2>2. Snapshot'
      BY <1>14, <1>a, <1>b, <1>c, <1>e, <2>0 DEF Erase, Snapshot
    <2>3. Coherent'
      BY <1>14, <1>a, <1>b, <1>c, <2>v, KeyOfView DEF Erase, Coherent, Fresh, Flushing
    <2>4. AnswerIsCurrent'
      BY <1>14, <1>a, <1>b, <1>c, <1>e, <2>0, <2>h DEF Erase, AnswerIsCurrent
    <2> QED  BY <2>1, <2>2, <2>3, <2>4
  <1>15. ASSUME NEW t \in Threads, Fill(t) PROVE Rest'
    <2>0. t \in Io
      BY <1>15, <1>d DEF Fill
    <2>v. req[t] \in Views
      BY <1>15, <1>a DEF Fill, TypeInv, Shape
    <2>p. page[t] = PageFor(posts, req[t]) /\ ~Missing(posts, req[t])
      BY <1>15, <1>a, <2>0 DEF Fill, Snapshot
    <2>1. WorkersReload'
      BY <1>15, <1>a, <1>b, <1>c, <2>0 DEF Fill, WorkersReload
    <2>2. Snapshot'
      BY <1>15, <1>a, <1>b, <1>c, <1>e, <2>0 DEF Fill, Snapshot
    <2>3. Coherent'
      BY <1>15, <1>a, <1>b, <1>c, <2>v, <2>p, KeyOfView DEF Fill, Coherent, Fresh, Flushing, NoClash
    <2>4. AnswerIsCurrent'
      BY <1>15, <1>a, <1>b, <1>c, <1>e, <2>0, <2>p DEF Fill, AnswerIsCurrent
    <2> QED  BY <2>1, <2>2, <2>3, <2>4
  <1>16. ASSUME NEW t \in Threads, Flush(t) PROVE Rest'
    <2>0. t \in Io
      BY <1>16, <1>d DEF Flush
    <2>1. WorkersReload'
      BY <1>16, <1>a, <1>b, <1>c, <2>0 DEF Flush, WorkersReload
    <2>2. Snapshot'
      BY <1>16, <1>a, <1>b, <1>c, <1>e, <2>0 DEF Flush, Snapshot
    <2>3. Coherent'
      BY <1>16, KeyOfView DEF Flush, Coherent
    <2>4. AnswerIsCurrent'
      BY <1>16, <1>a, <1>b, <1>c, <1>e, <2>0 DEF Flush, AnswerIsCurrent
    <2> QED  BY <2>1, <2>2, <2>3, <2>4
  <1>17. ASSUME NEW t \in Threads, ReloadClear(t) PROVE Rest'
    <2>1. WorkersReload'
      BY <1>17, <1>a, <1>b, <1>c DEF ReloadClear, WorkersReload
    <2>2. Snapshot'
      BY <1>17, <1>a, <1>b, <1>c DEF ReloadClear, Snapshot, WorkersReload
    <2>3. Coherent'
      BY <1>17, KeyOfView DEF ReloadClear, Coherent
    <2>4. AnswerIsCurrent'
      BY <1>17, <1>a, <1>b, <1>c DEF ReloadClear, AnswerIsCurrent, Snapshot
    <2> QED  BY <2>1, <2>2, <2>3, <2>4
  <1>18. ASSUME NEW t \in Threads, Insert(t) PROVE Rest'
    <2>0. t \in Io
      BY <1>18, <1>d DEF Insert
    <2>1. WorkersReload'
      BY <1>18, <1>a, <1>b, <1>c, <2>0 DEF Insert, WorkersReload
    <2>2. Snapshot'
      BY <1>18, <1>a, <1>b, <1>c, <1>e, <2>0 DEF Insert, Snapshot
    <2>3. Coherent'
      BY <1>18, <1>a, <1>b, <1>c, <2>0 DEF Insert, Coherent, Flushing
    <2>4. AnswerIsCurrent'
      BY <1>18, <1>a, <1>b, <1>c, <1>e, <2>0 DEF Insert, AnswerIsCurrent
    <2> QED  BY <2>1, <2>2, <2>3, <2>4
  <1>19. ASSUME NEW t \in Threads, Update(t) PROVE Rest'
    <2>0. t \in Io
      BY <1>19, <1>d DEF Update
    <2>1. WorkersReload'
      BY <1>19, <1>a, <1>b, <1>c, <2>0 DEF Update, WorkersReload
    <2>2. Snapshot'
      BY <1>19, <1>a, <1>b, <1>c, <1>e, <2>0 DEF Update, Snapshot
    <2>3. Coherent'
      BY <1>19, <1>a, <1>b, <1>c, <2>0 DEF Update, Coherent, Flushing
    <2>4. AnswerIsCurrent'
      BY <1>19, <1>a, <1>b, <1>c, <1>e, <2>0 DEF Update, AnswerIsCurrent
    <2> QED  BY <2>1, <2>2, <2>3, <2>4
  <1>20. ASSUME NEW t \in Threads, Delete(t) PROVE Rest'
    <2>0. t \in Io
      BY <1>20, <1>d DEF Delete
    <2>1. WorkersReload'
      BY <1>20, <1>a, <1>b, <1>c, <2>0 DEF Delete, WorkersReload
    <2>2. Snapshot'
      BY <1>20, <1>a, <1>b, <1>c, <1>e, <2>0 DEF Delete, Snapshot
    <2>3. Coherent'
      BY <1>20, <1>a, <1>b, <1>c, <2>0 DEF Delete, Coherent, Flushing
    <2>4. AnswerIsCurrent'
      BY <1>20, <1>a, <1>b, <1>c, <1>e, <2>0 DEF Delete, AnswerIsCurrent
    <2> QED  BY <2>1, <2>2, <2>3, <2>4
  <1>21. CASE UNCHANGED vars
    <2>1. WorkersReload' /\ Snapshot' /\ AnswerIsCurrent'
      BY <1>21, <1>a DEF vars, WorkersReload, Snapshot, AnswerIsCurrent
    <2>2. Coherent'
      BY <1>21, <1>a, CoherentKept DEF vars, Flushing
    <2> QED  BY <2>1, <2>2
  <1> QED
    BY <1>1, <1>2, <1>3, <1>4, <1>5, <1>6, <1>7, <1>8, <1>9, <1>10,
       <1>11, <1>12, <1>13, <1>14, <1>15, <1>16, <1>17, <1>18, <1>19, <1>20, <1>21, <1>c
       DEF Next, Arrive, Work

(* With one io_service thread, and no post titled like a home page's key:  *)
(* what a guest is served from the cache is what the database would give,  *)
(* but for blanked entries and the moment between a write and its clear.   *)
THEOREM CacheCoherence ==
    ASSUME OneIo, NoClash
    PROVE  Spec => []Coherent
  <1>1. CacheInv /\ [Next]_vars => CacheInv'
    BY CacheStep
  <1>2. CacheInv => Coherent
    BY DEF CacheInv
  <1> QED  BY CacheInit, <1>1, <1>2, PTL DEF Spec

(* Under the same conditions every page answered is the current one.       *)
THEOREM CurrentAnswers ==
    ASSUME OneIo, NoClash
    PROVE  Spec => []AnswerIsCurrent
  <1>1. CacheInv /\ [Next]_vars => CacheInv'
    BY CacheStep
  <1>2. CacheInv => AnswerIsCurrent
    BY DEF CacheInv
  <1> QED  BY CacheInit, <1>1, <1>2, PTL DEF Spec

-----------------------------------------------------------------------------
(* The table has what an edit or a deletion asked for.                     *)
Effected(m) ==
    /\ m.op = "delete" => WithId(posts, m.id) = {}
    /\ m.op = "update" => [id |-> m.id, slug |-> m.slug, text |-> m.text] \in posts

(* With one io_service thread, what the checks before a write have found   *)
(* is still so when it is made, and its effect when it is answered.        *)
EffectInv ==
    \A t \in Io :
        /\ pc[t] \in {"slug", "write"} /\ req[t].op = "update" => WithId(posts, req[t].id) # {}
        /\ pc[t] = "write" /\ req[t].op = "update" => WithSlug(posts, req[t].slug) = {}
        /\ pc[t] = "flush" => Effected(req[t])
        /\ pc[t] = "reply" /\ status[t] = "{success}" => Effected(req[t])

(* No id is in the table twice, and none that has not been given out.      *)
IdsUnique ==
    /\ \A q, r \in posts : q.id = r.id => q = r
    /\ \A r \in posts : r.id < nextId

WriteInv == TypeInv /\ WorkersReload /\ IdsUnique /\ EffectInv

LEMMA IdsStep ==
    ASSUME TypeInv, IdsUnique, [Next]_vars
    PROVE  IdsUnique'
  <1>a. posts \in SUBSET Row /\ nextId \in Nat
    BY BoundAssumption DEF TypeInv, TypeOK
  <1>1. CASE Table' = Table
    BY <1>1 DEF Table, IdsUnique
  <1>2. ASSUME NEW t \in Threads, Insert(t) PROVE IdsUnique'
    <2> DEFINE new == [id |-> nextId, slug |-> req[t].slug, text |-> req[t].text]
    <2>1. posts' = posts \cup {new} /\ nextId' = nextId + 1 /\ new.id = nextId
      BY <1>2 DEF Insert
    <2>2. \A r \in posts : r.id \in Nat /\ r.id < nextId
      BY <1>a, BoundAssumption DEF IdsUnique, Row, Ids
    <2> HIDE DEF new
    <2> QED  BY <1>a, <2>1, <2>2 DEF IdsUnique
  <1>3. ASSUME NEW t \in Threads, Update(t) PROVE IdsUnique'
    <2> DEFINE New(r) == IF r.id = req[t].id
                         THEN [id |-> r.id, slug |-> req[t].slug, text |-> req[t].text] ELSE r
    <2>1. posts' = {New(r) : r \in posts} /\ nextId' = nextId
      BY <1>3 DEF Update, Table
    <2>2. \A r \in posts : New(r).id = r.id
      OBVIOUS
    <2> HIDE DEF New
    <2> QED  BY <2>1, <2>2 DEF IdsUnique
  <1>4. ASSUME NEW t \in Threads, Delete(t) PROVE IdsUnique'
    BY <1>4 DEF Delete, IdsUnique
  <1> QED  BY <1>1, <1>2, <1>3, <1>4, Writers

(* The writes themselves.                                                  *)
LEMMA EffectWrites ==
    ASSUME OneIo, WriteInv, NEW t \in Io, Insert(t) \/ Update(t) \/ Delete(t)
    PROVE  EffectInv'
  <1>a. /\ pc \in [Threads -> Points] /\ t \in Threads /\ EffectInv
        /\ \A s \in Io : s = t
    BY DEF WriteInv, TypeInv, TypeOK, Threads, OneIo
  <1>1. /\ pc[t] = "write" /\ pc'[t] = "flush" /\ req' = req /\ status' = status
    BY <1>a DEF Insert, Update, Delete, Move, local
  <1>2. Effected(req[t])'
    <2>1. CASE Insert(t)
      BY <1>1, <2>1 DEF Insert, Effected
    <2>2. CASE Update(t)
      <3>1. PICK r \in posts : r.id = req[t].id
        BY <1>1, <1>a, <2>2 DEF Update, WithId, EffectInv
      <3>2. [id |-> req[t].id, slug |-> req[t].slug, text |-> req[t].text] \in posts'
        BY <2>2, <3>1 DEF Update
      <3> QED  BY <1>1, <2>2, <3>2 DEF Update, Effected
    <2>3. CASE Delete(t)
      BY <1>1, <2>3 DEF Delete, WithId, Effected
    <2> QED  BY <2>1, <2>2, <2>3
  <1> QED  BY <1>a, <1>1, <1>2 DEF EffectInv

(* A step of the io thread that leaves the table alone.                    *)
LEMMA EffectChecks ==
    ASSUME OneIo, WriteInv, NEW t \in Io, Arrive(t) \/ Work(t) \/ DbError(t), Table' = Table
    PROVE  EffectInv'
  <1>a. /\ pc \in [Threads -> Points] /\ status \in [Threads -> Statuses]
        /\ req \in [Threads -> Views \cup Mutations \cup {NoRequest, Reload}]
        /\ t \in Threads /\ EffectInv
    BY DEF WriteInv, TypeInv, TypeOK, Threads
  <1>b. posts' = posts /\ \A s \in Io : s = t
    BY DEF Table, OneIo
  <1> USE DEF Move, Take, Show, Say, local, EffectInv, Effected
  <1>1. CASE \E v \in Views : Lookup(t, v)
    BY <1>1, <1>a, <1>b DEF Lookup
  <1>2. ASSUME NEW m \in Mutations, Admit(t, m) PROVE EffectInv'
    BY <1>2, <1>a, <1>b DEF Admit
  <1>3. ASSUME NEW m \in Mutations, Refuse(t, m) PROVE EffectInv'
    BY <1>3, <1>a, <1>b DEF Refuse
  <1>4. CASE Serve(t) \/ ViewCount(t) \/ Erase(t) \/ ViewRows(t) \/ ViewNav(t) \/ Fill(t)
    BY <1>4, <1>a, <1>b DEF Serve, ViewCount, Erase, ViewRows, ViewNav, Fill
  <1>5. CASE CheckExists(t)
    BY <1>5, <1>a, <1>b DEF CheckExists
  <1>6. CASE CheckSlug(t)
    BY <1>6, <1>a, <1>b DEF CheckSlug
  <1>7. CASE AuthorsDone(t)
    BY <1>7, <1>a, <1>b DEF AuthorsDone
  <1>8. CASE Reject(t) \/ DbError(t)
    BY <1>8, <1>a, <1>b, RejectThrows DEF DbError, Throw
  <1>9. CASE Flush(t)
    BY <1>9, <1>a, <1>b DEF Flush
  <1>10. CASE Respond(t)
    BY <1>10, <1>a, <1>b DEF Respond
  <1>11. CASE ReloadStart(t) \/ ReloadClear(t)
    BY <1>11, <1>a, <1>b DEF ReloadStart, ReloadClear
  <1>12. CASE Insert(t) \/ Update(t) \/ Delete(t)
    BY <1>12, EffectWrites
  <1> QED
    BY <1>1, <1>2, <1>3, <1>4, <1>5, <1>6, <1>7, <1>8, <1>9, <1>10, <1>11, <1>12
       DEF Arrive, Work

LEMMA WriteStep ==
    ASSUME OneIo, WriteInv, [Next]_vars
    PROVE  WriteInv'
  <1>1. TypeInv' /\ IdsUnique'
    BY TypeStep, IdsStep DEF WriteInv
  <1>2. WorkersReload'
    <2>a. /\ pc \in [Threads -> Points] /\ WorkersReload /\ Io \cap Workers = {}
          /\ Threads = Io \cup Workers
      BY ThreadAssumption DEF WriteInv, TypeInv, TypeOK, Threads
    <2>1. ASSUME NEW t \in Io, Arrive(t) \/ Work(t) \/ DbError(t) PROVE WorkersReload'
      <3>1. \A w \in Workers : pc'[w] = pc[w]
        BY <2>a, <2>1 DEF Arrive, Work, Lookup, Admit, Refuse, ReloadStart, Serve, ViewCount,
           Erase, ViewRows, ViewNav, Fill, CheckExists, CheckSlug, AuthorsDone, Insert, Update,
           Delete, Reject, Flush, ReloadClear, DbError, Throw, Respond, Move
      <3> QED  BY <2>a, <3>1 DEF WorkersReload
    <2>2. ASSUME NEW t \in Workers, Arrive(t) \/ Work(t) \/ DbError(t) PROVE WorkersReload'
      <3>1. ReloadStart(t) \/ ReloadClear(t) \/ Respond(t)
        BY <2>a, <2>2 DEF WorkersReload, Arrive, Work, Serve, ViewCount,
           Erase, ViewRows, ViewNav, Fill, CheckExists, CheckSlug, AuthorsDone, Insert, Update,
           Delete, Reject, Flush, DbError, Move
      <3> QED  BY <2>a, <3>1 DEF WorkersReload, ReloadStart, ReloadClear, Respond, Move
    <2>3. CASE UNCHANGED vars
      BY <2>a, <2>3 DEF WorkersReload, vars
    <2> QED  BY <2>a, <2>1, <2>2, <2>3 DEF Next
  <1>3. EffectInv'
    <2>1. ASSUME NEW t \in Io, Arrive(t) \/ Work(t) \/ DbError(t) PROVE EffectInv'
      <3>1. CASE Table' = Table
        BY <2>1, <3>1, EffectChecks
      <3>2. CASE Table' # Table
        <4>1. PICK s \in Threads : Insert(s) \/ Update(s) \/ Delete(s)
          BY <3>2, Writers
        <4>2. s \in Io
          BY <4>1 DEF WriteInv, WorkersReload, Threads, Insert, Update, Delete, Move
        <4> QED  BY <4>1, <4>2, EffectWrites
      <3> QED  BY <3>1, <3>2
    <2>2. ASSUME NEW t \in Workers, Arrive(t) \/ Work(t) \/ DbError(t) PROVE EffectInv'
      <3>1. /\ pc \in [Threads -> Points] /\ DOMAIN req = Threads /\ DOMAIN status = Threads
            /\ t \in Threads /\ t \notin Io /\ Io \subseteq Threads /\ EffectInv
        BY ThreadAssumption DEF WriteInv, TypeInv, TypeOK, Threads
      <3>2. ReloadStart(t) \/ ReloadClear(t) \/ Respond(t)
        BY <2>2, <3>1 DEF WriteInv, WorkersReload, Arrive, Work, Serve, ViewCount,
           Erase, ViewRows, ViewNav, Fill, CheckExists, CheckSlug, AuthorsDone, Insert, Update,
           Delete, Reject, Flush, DbError, Move
      <3>3. /\ posts' = posts
            /\ \A s \in Io : pc'[s] = pc[s] /\ req'[s] = req[s] /\ status'[s] = status[s]
        BY <3>1, <3>2 DEF ReloadStart, ReloadClear, Respond, Move, Take, Say, Table
      <3> QED  BY <3>1, <3>3 DEF EffectInv, Effected
    <2>3. CASE UNCHANGED vars
      BY <2>3 DEF WriteInv, EffectInv, Effected, vars
    <2> QED  BY <2>1, <2>2, <2>3 DEF Next, Threads
  <1> QED  BY <1>1, <1>2, <1>3 DEF WriteInv

LEMMA WriteInit == Init => WriteInv
  <1> SUFFICES ASSUME Init PROVE WriteInv
    OBVIOUS
  <1>1. TypeInv
    BY TypeInit
  <1>2. WorkersReload /\ IdsUnique /\ EffectInv
    BY DEF Init, WorkersReload, IdsUnique, EffectInv, Threads
  <1> QED  BY <1>1, <1>2 DEF WriteInv

(* With one io_service thread {success} is the truth: the row of an edit   *)
(* is in the table, that of a deletion is not.                             *)
THEOREM SuccessIsTrue ==
    ASSUME OneIo
    PROVE  Spec => []SuccessTookEffect
  <1>1. WriteInv /\ [Next]_vars => WriteInv'
    BY WriteStep
  <1>2. WriteInv => SuccessTookEffect
    BY DEF WriteInv, EffectInv, Effected, SuccessTookEffect
  <1> QED  BY WriteInit, <1>1, <1>2, PTL DEF Spec

(* With one io_service thread no edit keeps the address of its post.       *)
THEOREM EditsMove ==
    ASSUME OneIo
    PROVE  Spec => EditMovesPost
  <1>1. WriteInv /\ [Next]_vars => WriteInv'
    BY WriteStep
  <1>2. ASSUME WriteInv, [Next]_vars, NEW q \in posts, NEW r \in posts', q.id = r.id, q # r
        PROVE  q.slug # r.slug
    <2>1. r \notin posts
      BY <1>2 DEF WriteInv, IdsUnique
    <2>2. PICK t \in Threads : Insert(t) \/ Update(t) \/ Delete(t)
      BY <1>2, <2>1, Writers DEF Table
    <2>3. CASE Insert(t)
      <3>1. r.id = nextId
        BY <2>1, <2>3 DEF Insert
      <3>2. nextId \in Nat
        BY <1>2, BoundAssumption DEF WriteInv, TypeInv, TypeOK
      <3> QED  BY <1>2, <3>1, <3>2 DEF WriteInv, IdsUnique
    <2>4. CASE Update(t)
      <3>1. r.slug = req[t].slug
        BY <2>1, <2>4 DEF Update
      <3>2. t \in Io /\ pc[t] = "write"
        BY <1>2, <2>4 DEF WriteInv, WorkersReload, Threads, Update, Move
      <3>3. WithSlug(posts, req[t].slug) = {}
        BY <1>2, <2>4, <3>2 DEF WriteInv, EffectInv, Update
      <3> QED  BY <3>1, <3>3 DEF WithSlug
    <2>5. CASE Delete(t)
      BY <2>1, <2>5 DEF Delete
    <2> QED  BY <2>2, <2>3, <2>4, <2>5
  <1>3. WriteInv /\ [Next]_vars
          => [\A q \in posts : \A r \in posts' : q.id = r.id /\ q # r => q.slug # r.slug]_vars
    BY <1>2
  <1> QED  BY WriteInit, <1>1, <1>3, PTL DEF Spec, EditMovesPost

-----------------------------------------------------------------------------
(* What a thread that no write overtook holds is what the table still says *)
Unspoilt ==
    \A t \in Io :
        pc[t] \in Reading /\ t \notin late =>
            /\ ~Missing(posts, req[t])
            /\ pc[t] = "nav" => page[t] = [rows |-> RowsFor(posts, req[t]), nav |-> {}]
            /\ pc[t] = "fill" => page[t] = PageFor(posts, req[t])

RacesInv == TypeInv /\ WorkersReload /\ Unspoilt /\ StaleOnlyByOverlap

-----------------------------------------------------------------------------
(* A step is the step of one thread: only its own variables change, and it *)
(* gets into the middle of a view by way of the three reading steps alone. *)
Only(t) ==
    \A s \in Threads \ {t} : pc'[s] = pc[s] /\ req'[s] = req[s] /\ page'[s] = page[s]

LEMMA Mover ==
    ASSUME TypeInv, Next
    PROVE  \E t \in Threads :
              /\ Only(t)
              /\ \/ ViewCount(t) \/ ViewRows(t) \/ ViewNav(t)
                 \/ pc'[t] \notin Reading
  <1> DEFINE Moves(t) == Only(t) /\ ( \/ ViewCount(t) \/ ViewRows(t) \/ ViewNav(t)
                                      \/ pc'[t] \notin Reading)
  <1>a. /\ pc \in [Threads -> Points] /\ page \in [Threads -> Page \cup {Blank}]
        /\ req \in [Threads -> Views \cup Mutations \cup {NoRequest, Reload}]
    BY DEF TypeInv, TypeOK
  <1> USE DEF Move, Take, Show, Only, Reading, local
  <1>1. ASSUME NEW t \in Threads, NEW v, Lookup(t, v) \/ Admit(t, v) \/ Refuse(t, v)
        PROVE  Moves(t)
    BY <1>1, <1>a DEF Lookup, Admit, Refuse
  <1>2. ASSUME NEW t \in Threads, ReloadStart(t) \/ ReloadClear(t) \/ Respond(t)
        PROVE  Moves(t)
    BY <1>2, <1>a DEF ReloadStart, ReloadClear, Respond
  <1>3. ASSUME NEW t \in Threads, ViewCount(t) \/ ViewRows(t) \/ ViewNav(t)
        PROVE  Moves(t)
    BY <1>3, <1>a DEF ViewCount, ViewRows, ViewNav
  <1>4. ASSUME NEW t \in Threads, Serve(t) \/ Erase(t) \/ Fill(t) \/ Flush(t)
        PROVE  Moves(t)
    BY <1>4, <1>a DEF Serve, Erase, Fill, Flush
  <1>5. ASSUME NEW t \in Threads, CheckExists(t) \/ CheckSlug(t) \/ AuthorsDone(t)
        PROVE  Moves(t)
    BY <1>5, <1>a DEF CheckExists, CheckSlug, AuthorsDone
  <1>6. ASSUME NEW t \in Threads, Insert(t) \/ Update(t) \/ Delete(t)
        PROVE  Moves(t)
    BY <1>6, <1>a DEF Insert, Update, Delete
  <1>7. ASSUME NEW t \in Threads, DbError(t) \/ Reject(t) PROVE Moves(t)
    BY <1>7, <1>a DEF DbError, Reject, Throw
  <1> QED
    BY <1>1, <1>2, <1>3, <1>4, <1>5, <1>6, <1>7 DEF Next, Arrive, Work, Threads

(* Detached threads never leave /reload.                                   *)
LEMMA WorkersStay ==
    ASSUME TypeInv, WorkersReload, Next
    PROVE  WorkersReload'
  <1>a. pc \in [Threads -> Points] /\ Io \cap Workers = {}
    BY ThreadAssumption DEF TypeInv, TypeOK
  <1>b. \A t \in Threads : pc[t] \notin {"idle", "reload", "reply"} => t \in Io
    BY IoOnly
  <1> USE DEF Move, WorkersReload, Threads
  <1>1. ASSUME NEW t \in Io, \E x : pc' = [pc EXCEPT ![t] = x] PROVE WorkersReload'
    BY <1>1, <1>a
  <1>2. ASSUME NEW t \in Io, Arrive(t) PROVE WorkersReload'
    BY <1>2, <1>1, <1>a DEF Arrive, Lookup, Admit, Refuse
  <1>3. ASSUME NEW t \in Workers, Arrive(t) PROVE WorkersReload'
    BY <1>3, <1>a DEF Arrive, ReloadStart
  <1>4. ASSUME NEW t \in Threads, ReloadClear(t) \/ Respond(t) PROVE WorkersReload'
    BY <1>4, <1>a DEF ReloadClear, Respond
  <1>5. ASSUME NEW t \in Threads, Serve(t) \/ ViewCount(t) \/ Erase(t) \/ ViewRows(t) \/ ViewNav(t)
                                    \/ Fill(t) \/ Flush(t)
        PROVE  WorkersReload'
    BY <1>5, <1>1, <1>b DEF Serve, ViewCount, Erase, ViewRows, ViewNav, Fill, Flush
  <1>6. ASSUME NEW t \in Threads, CheckExists(t) \/ CheckSlug(t) \/ Insert(t) \/ AuthorsDone(t)
                                    \/ Update(t) \/ Delete(t) \/ DbError(t) \/ Reject(t)
        PROVE  WorkersReload'
    BY <1>6, <1>1, <1>b DEF CheckExists, CheckSlug, Insert, AuthorsDone, Update, Delete,
                           DbError, Reject, Throw
  <1> QED
    BY <1>2, <1>3, <1>4, <1>5, <1>6 DEF Next, Work

(* A write overtakes every view under way: all of them become late.        *)
LEMMA UnspoiltStep ==
    ASSUME RacesInv, Next, Record
    PROVE  Unspoilt'
  <1>1. PICK u \in Threads : /\ Only(u)
                             /\ \/ ViewCount(u) \/ ViewRows(u) \/ ViewNav(u)
                                \/ pc'[u] \notin Reading
    BY Mover DEF RacesInv
  <1>2. SUFFICES ASSUME NEW t \in Io, pc'[t] \in Reading, t \notin late'
        PROVE  /\ ~Missing(posts', req'[t])
               /\ pc'[t] = "nav" => page'[t] = [rows |-> RowsFor(posts', req'[t]), nav |-> {}]
               /\ pc'[t] = "fill" => page'[t] = PageFor(posts', req'[t])
    BY DEF Unspoilt
  <1>3. t \notin late /\ (pc[t] \in Reading => posts' = posts) /\ t \in Threads
    BY <1>2 DEF Record, Threads
  <1>4. /\ pc \in [Threads -> Points] /\ page \in [Threads -> Page \cup {Blank}]
        /\ req \in [Threads -> Views \cup Mutations \cup {NoRequest, Reload}]
    BY DEF RacesInv, TypeInv, TypeOK
  <1>5. CASE t # u
    <2>1. pc'[t] = pc[t] /\ req'[t] = req[t] /\ page'[t] = page[t]
      BY <1>1, <1>3, <1>5 DEF Only
    <2> QED  BY <1>2, <1>3, <2>1 DEF RacesInv, Unspoilt
  <1>6. CASE t = u /\ ViewCount(t)
    BY <1>2, <1>4, <1>6, <1>3 DEF ViewCount, Move, Table, local, Reading
  <1>7. CASE t = u /\ ViewRows(t)
    <2>1. req[t] \in Views /\ ~Missing(posts, req[t])
      BY <1>3, <1>7 DEF ViewRows, Move, RacesInv, TypeInv, Shape, Unspoilt, Reading
    <2> QED  BY <1>2, <1>3, <1>4, <1>7, <2>1, PostPage DEF ViewRows, Move, Show, Table
  <1>8. CASE t = u /\ ViewNav(t)
    <2>1. /\ ~Missing(posts, req[t])
          /\ page[t] = [rows |-> RowsFor(posts, req[t]), nav |-> {}]
      BY <1>3, <1>8 DEF ViewNav, Move, RacesInv, Unspoilt, Reading
    <2> QED  BY <1>2, <1>3, <1>4, <1>8, <2>1 DEF ViewNav, Move, Show, Table, PageFor
  <1> QED  BY <1>1, <1>2, <1>5, <1>6, <1>7, <1>8

-----------------------------------------------------------------------------
(* No entry is stored by a step that is not a Fill; an entry that stays    *)
(* keeps its taint.                                                        *)
LEMMA TaintKept ==
    ASSUME Record, NEW k \in tainted, k \in Keys, cache'[k] \notin {Absent, Blank},
           \A t \in Io : ~Stores(t, k)
    PROVE  k \in tainted'
  BY DEF Record

(* Where a step leaves table and cache alone, nothing goes stale.          *)
LEMMA StaleKept ==
    ASSUME StaleOnlyByOverlap, Record, posts' = posts, cache' = cache,
           Flushing => Flushing', \A t \in Io : ~(pc[t] = "fill" /\ pc'[t] = "reply")
    PROVE  StaleOnlyByOverlap'
  BY KeyOfView, TaintKept DEF StaleOnlyByOverlap, Fresh, Stores

LEMMA StaleStep ==
    ASSUME NoClash, RacesInv, Next, Record
    PROVE  StaleOnlyByOverlap'
  <1>a. /\ pc \in [Threads -> Points] /\ page \in [Threads -> Page \cup {Blank}]
        /\ req \in [Threads -> Views \cup Mutations \cup {NoRequest, Reload}]
        /\ cache \in [Keys -> Page \cup {Absent, Blank}]
        /\ StaleOnlyByOverlap
    BY DEF RacesInv, TypeInv, TypeOK
  <1>b. \A t \in Threads : pc[t] \notin {"idle", "reload", "reply"} => t \in Io
    BY IoOnly DEF RacesInv
  <1>c. Io \subseteq Threads
    BY DEF Threads
  <1> DEFINE Quiet(t) == /\ posts' = posts /\ cache' = cache
                         /\ pc[t] \notin {"fill", "flush"}
                         /\ \E x : pc' = [pc EXCEPT ![t] = x]
  <1>1. ASSUME NEW t \in Threads, Quiet(t) PROVE StaleOnlyByOverlap'
    <2>1. Flushing => Flushing'
      BY <1>1, <1>a, <1>c DEF Flushing
    <2>2. \A s \in Io : ~(pc[s] = "fill" /\ pc'[s] = "reply")
      BY <1>1, <1>a, <1>c
    <2> QED  BY <1>1, <1>a, <2>1, <2>2, StaleKept
  <1> USE DEF Move, Table, local
  <1>2. ASSUME NEW t \in Threads, Arrive(t) PROVE StaleOnlyByOverlap'
    <2>1. Quiet(t)
      BY <1>2, <1>a DEF Arrive, Lookup, Admit, Refuse, ReloadStart
    <2> QED  BY <2>1, <1>1
  <1>3. ASSUME NEW t \in Threads, \/ ViewCount(t) \/ ViewRows(t) \/ ViewNav(t)
                                  \/ CheckExists(t) \/ CheckSlug(t) \/ AuthorsDone(t)
        PROVE  StaleOnlyByOverlap'
    <2>1. Quiet(t)
      BY <1>3, <1>a DEF ViewCount, ViewRows, ViewNav, CheckExists, CheckSlug, AuthorsDone
    <2> QED  BY <2>1, <1>1
  <1>4. ASSUME NEW t \in Threads, DbError(t) \/ Reject(t) \/ Respond(t)
        PROVE  StaleOnlyByOverlap'
    <2>1. Quiet(t)
      BY <1>4, <1>a DEF DbError, Reject, Throw, Respond
    <2> QED  BY <2>1, <1>1
  <1>5. ASSUME NEW t \in Threads, Insert(t) \/ Update(t) \/ Delete(t)
        PROVE  StaleOnlyByOverlap'
    <2>1. t \in Io /\ pc'[t] = "flush"
      BY <1>5, <1>a, <1>b DEF Insert, Update, Delete
    <2>2. Flushing'
      BY <2>1 DEF Flushing
    <2> QED  BY <2>2 DEF StaleOnlyByOverlap
  <1>6. ASSUME NEW t \in Threads, Flush(t) \/ ReloadClear(t)
        PROVE  StaleOnlyByOverlap'
    <2>1. cache' = [k \in Keys |-> Absent]
      BY <1>6 DEF Flush, ReloadClear
    <2> QED  BY <2>1, KeyOfView DEF StaleOnlyByOverlap
  <1>7. ASSUME NEW t \in Threads, Serve(t) \/ Erase(t)
        PROVE  StaleOnlyByOverlap'
    <2>1. posts' = posts /\ (Flushing => Flushing')
      BY <1>7, <1>a, <1>c DEF Serve, Erase, Flushing
    <2>2. \A s \in Io : ~(pc[s] = "fill" /\ pc'[s] = "reply")
      BY <1>7, <1>a, <1>c DEF Serve, Erase
    <2>3. \A k \in Keys : cache'[k] \in {Absent, Blank} \/ cache'[k] = cache[k]
      BY <1>7, <1>a DEF Serve, Erase
    <2> QED
      BY <1>a, <2>1, <2>2, <2>3, KeyOfView, TaintKept DEF StaleOnlyByOverlap, Fresh, Stores
  <1>8. ASSUME NEW t \in Threads, Fill(t)
        PROVE  StaleOnlyByOverlap'
    <2>1. t \in Io /\ req[t] \in Views /\ pc[t] = "fill" /\ pc'[t] = "reply"
      BY <1>8, <1>a, <1>b DEF Fill, RacesInv, TypeInv, Shape
    <2>2. posts' = posts /\ (Flushing => Flushing')
      BY <1>8, <1>a, <1>c DEF Fill, Flushing
    <2>3. cache' = [cache EXCEPT ![KeyOf(req[t])] = page[t]]
      BY <1>8 DEF Fill
    <2>4. page[t] \in Page
      BY <2>1, <1>c DEF RacesInv, TypeInv, Shape
    <2> SUFFICES ASSUME NEW v \in Views, cache'[KeyOf(v)] \notin {Absent, Blank}
                 PROVE  Fresh(v)' \/ Flushing' \/ KeyOf(v) \in tainted'
      BY DEF StaleOnlyByOverlap
    <2>5. CASE v = req[t] /\ t \in late
      BY <2>1, <2>5, KeyOfView DEF Record, Stores
    <2>6. CASE v = req[t] /\ t \notin late
      <3>1. ~Missing(posts, v) /\ page[t] = PageFor(posts, v)
        BY <2>1, <2>6 DEF RacesInv, Unspoilt, Reading
      <3>2. cache'[KeyOf(v)] = page[t]
        BY <2>3, <2>6, <1>a, KeyOfView
      <3> QED  BY <2>2, <3>1, <3>2 DEF Fresh
    <2>7. CASE v # req[t]
      <3>1. KeyOf(v) # KeyOf(req[t])
        BY <2>1, <2>7 DEF NoClash
      <3>2. cache'[KeyOf(v)] = cache[KeyOf(v)]
        BY <2>3, <3>1, <1>a, KeyOfView
      <3>3. \A s \in Io : ~Stores(s, KeyOf(v))
        <4>1. \A s \in Io : s # t => pc'[s] = pc[s]
          BY <1>8, <1>a, <1>c DEF Fill
        <4> QED  BY <4>1, <3>1 DEF Stores
      <3>4. KeyOf(v) \in tainted => KeyOf(v) \in tainted'
        BY <3>3, KeyOfView, TaintKept
      <3> QED  BY <1>a, <2>2, <3>2, <3>4 DEF StaleOnlyByOverlap, Fresh
    <2> QED  BY <2>5, <2>6, <2>7
  <1> QED
    BY <1>2, <1>3, <1>4, <1>5, <1>6, <1>7, <1>8 DEF Next, Work

(* Whatever the number of io_service threads: a cached page that no longer *)
(* shows the posts as they are was stored by a view that a write overtook, *)
(* or is about to be cleared by the write that changed it.                 *)
THEOREM StaleByOverlapOnly ==
    ASSUME NoClash
    PROVE  RacesSpec => []StaleOnlyByOverlap
  <1>1. RacesInit => RacesInv
    <2> SUFFICES ASSUME RacesInit PROVE RacesInv
      OBVIOUS
    <2>1. TypeInv
      BY TypeInit DEF RacesInit
    <2>2. WorkersReload /\ Unspoilt
      BY DEF RacesInit, Init, WorkersReload, Unspoilt, Threads, Reading
    <2>3. StaleOnlyByOverlap
      BY KeyOfView DEF RacesInit, Init, StaleOnlyByOverlap
    <2> QED  BY <2>1, <2>2, <2>3 DEF RacesInv
  <1>2. RacesInv /\ [RacesNext]_<<vars, history>> => RacesInv'
    <2> SUFFICES ASSUME RacesInv, [RacesNext]_<<vars, history>> PROVE RacesInv'
      OBVIOUS
    <2>1. CASE RacesNext
      <3>1. TypeInv' /\ WorkersReload'
        BY <2>1, TypeStep, WorkersStay DEF RacesInv, RacesNext
      <3>2. Unspoilt' /\ StaleOnlyByOverlap'
        BY <2>1, UnspoiltStep, StaleStep DEF RacesNext
      <3> QED  BY <3>1, <3>2 DEF RacesInv
    <2>2. CASE UNCHANGED <<vars, history>>
      <3>1. TypeInv'
        BY <2>2, TypeStep DEF RacesInv
      <3> QED
        BY <3>1, <2>2 DEF RacesInv, vars, history, WorkersReload, Unspoilt,
                          StaleOnlyByOverlap, Fresh, Flushing
    <2> QED  BY <2>1, <2>2
  <1>3. RacesInv => StaleOnlyByOverlap
    BY DEF RacesInv
  <1> QED  BY <1>1, <1>2, <1>3, PTL DEF RacesSpec

-----------------------------------------------------------------------------
(* A thread that found its page in the cache and has lost it is in swept.  *)
FoundOrSwept ==
    \A t \in Io : pc[t] = "serve" /\ cache[KeyOf(req[t])] = Absent => t \in swept

(* A thread is about to serve an entry because it has just seen it, or has *)
(* been about to all along.                                                *)
LEMMA ServePoint ==
    ASSUME TypeInv, Next, NEW t \in Threads, pc'[t] = "serve"
    PROVE  \/ pc[t] = "serve" /\ req'[t] = req[t]
           \/ cache' = cache /\ cache[KeyOf(req'[t])] # Absent
  <1>a. /\ pc \in [Threads -> Points]
        /\ req \in [Threads -> Views \cup Mutations \cup {NoRequest, Reload}]
    BY DEF TypeInv, TypeOK
  <1>b. Io \subseteq Threads
    BY DEF Threads
  <1> DEFINE Aim == \/ pc[t] = "serve" /\ req'[t] = req[t]
                    \/ cache' = cache /\ cache[KeyOf(req'[t])] # Absent
  <1> USE DEF Move, Take, Table, local
  <1>1. ASSUME NEW s \in Io, NEW v \in Views, Lookup(s, v) PROVE Aim
    BY <1>1, <1>a, <1>b DEF Lookup
  <1>2. ASSUME NEW s \in Threads, NEW m, Admit(s, m) \/ Refuse(s, m) \/ ReloadStart(s)
        PROVE  Aim
    BY <1>2, <1>a DEF Admit, Refuse, ReloadStart
  <1>3. ASSUME NEW s \in Threads, Serve(s) \/ ViewCount(s) \/ Erase(s) \/ ViewRows(s)
                                  \/ ViewNav(s) \/ Fill(s)
        PROVE  Aim
    BY <1>3, <1>a DEF Serve, ViewCount, Erase, ViewRows, ViewNav, Fill
  <1>4. ASSUME NEW s \in Threads, CheckExists(s) \/ CheckSlug(s) \/ Insert(s) \/ AuthorsDone(s)
                                  \/ Update(s) \/ Delete(s) \/ Flush(s)
        PROVE  Aim
    BY <1>4, <1>a DEF CheckExists, CheckSlug, Insert, AuthorsDone, Update, Delete, Flush
  <1>5. ASSUME NEW s \in Threads, ReloadClear(s) \/ Respond(s) \/ DbError(s) \/ Reject(s)
        PROVE  Aim
    BY <1>5, <1>a DEF ReloadClear, Respond, DbError, Reject, Throw
  <1> QED
    BY <1>1, <1>2, <1>3, <1>4, <1>5, <1>b DEF Next, Arrive, Work, Threads

(* Only cache[key] in a view inserts the empty string, for a key that is   *)
(* not there.                                                              *)
LEMMA Blanking ==
    ASSUME TypeInv, WorkersReload, Next, NEW k \in Keys, cache[k] # Blank, cache'[k] = Blank
    PROVE  \E t \in Io : pc[t] = "serve" /\ KeyOf(req[t]) = k /\ cache[k] = Absent
  <1>a. cache \in [Keys -> Page \cup {Absent, Blank}] /\ cache' # cache
    BY DEF TypeInv, TypeOK
  <1>b. \A t \in Threads : pc[t] = "fill" => page[t] \in Page
    BY DEF TypeInv, Shape
  <1>1. PICK t \in Threads : Serve(t) \/ Erase(t) \/ Fill(t) \/ Flush(t) \/ ReloadClear(t)
    BY <1>a DEF Next, Arrive, Work, Lookup, Admit, Refuse, ReloadStart, ViewCount, ViewRows,
                ViewNav, CheckExists, CheckSlug, Insert, AuthorsDone, Update, Delete, Respond,
                DbError, Reject, Throw
  <1>2. Serve(t)
    BY <1>1, <1>a, <1>b, EntryAssumption DEF Erase, Fill, Flush, ReloadClear, Move
  <1>3. pc[t] = "serve" /\ t \in Io
    BY <1>2, IoOnly DEF Serve, Move
  <1> QED  BY <1>2, <1>3, <1>a DEF Serve

(* Whatever the number of threads: a page is blanked only under a thread   *)
(* whose entry a clear removed between cache.find and cache[key].          *)
THEOREM BlankBySweepOnly == RacesSpec => BlankOnlyBySweep
  <1> DEFINE Inv == TypeInv /\ WorkersReload /\ FoundOrSwept
  <1>1. RacesInit => Inv
    BY TypeInit DEF RacesInit, Init, WorkersReload, FoundOrSwept, Threads
  <1>2. ASSUME Inv, [RacesNext]_<<vars, history>> PROVE Inv'
    <2>1. CASE RacesNext
      <3>1. TypeInv' /\ WorkersReload'
        BY <1>2, <2>1, TypeStep, WorkersStay DEF RacesNext
      <3>2. ASSUME NEW t \in Io, pc'[t] = "serve", cache'[KeyOf(req'[t])] = Absent
            PROVE  t \in swept'
        <4>1. pc[t] = "serve" /\ req'[t] = req[t]
          BY <1>2, <2>1, <3>2, ServePoint DEF RacesNext, Threads
        <4> QED  BY <2>1, <3>2, <4>1 DEF RacesNext, Record
      <3> QED  BY <3>1, <3>2 DEF FoundOrSwept
    <2>2. CASE UNCHANGED <<vars, history>>
      <3>1. TypeInv'
        BY <1>2, <2>2, TypeStep
      <3> QED
        BY <1>2, <3>1, <2>2 DEF vars, history, WorkersReload, FoundOrSwept
    <2> QED  BY <1>2, <2>1, <2>2
  <1>3. Inv /\ [RacesNext]_<<vars, history>>
          => [\A k \in Keys : cache[k] # Blank /\ cache'[k] = Blank
                 => \E t \in swept : KeyOf(req[t]) = k]_<<vars, history>>
    BY Blanking DEF RacesNext, FoundOrSwept
  <1> QED  BY <1>1, <1>2, <1>3, PTL DEF RacesSpec, BlankOnlyBySweep

=============================================================================
