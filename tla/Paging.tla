---------------------------------- MODULE Paging ----------------------------------
(***************************************************************************)
(* A client that asks for one page after the other, /api/home,             *)
(* /api/home/1 and so on, while posts are added, edited and deleted.       *)
(* get_posts numbers the pages anew at every request: a post published     *)
(* meanwhile pushes the others to later pages, a deletion pulls them       *)
(* forward.  The page number is a C++ int, and so is page * 10.            *)
(*                                                                         *)
(* The answers are HTML with the buttons Back and Next, from which the     *)
(* client learns whether there is another page.  Where the buttons         *)
(* themselves lead, to /index/N, is in Site (Press).                       *)
(*                                                                         *)
(* Requests are one step here: PageCache has their statements and shows    *)
(* that a page is always that of one state of the table.                   *)
(***************************************************************************)
EXTENDS Integers, FiniteSets

CONSTANTS PageSize,  \* posts on a page, 10 in the code
          MaxInt,    \* the greatest int
          MaxPage,   \* the greatest number REGEXNUMBER matches: nine digits
          Jumps,     \* page numbers asked for out of turn
          MaxId      \* bound: the last id AUTOINCREMENT gives out

ASSUME PagingAssumption ==
    /\ PageSize \in Nat \ {0} /\ MaxId \in Nat /\ MaxInt \in Nat /\ MaxPage \in Nat
    /\ MaxId <= MaxInt /\ Jumps \subseteq 0..MaxPage

VARIABLES posts,   \* rows of the posts table
          nextId,  \* AUTOINCREMENT
          at,      \* the page the client asked for last
          nav,     \* the buttons it came with
          shown,   \* its rows
          due,     \* ids there were when it began at /api/home
          seen,    \* ids it has been given since
          calm     \* no post has been deleted since

table  == <<posts, nextId>>
reader == <<at, nav, shown, due, seen, calm>>
pvars  == <<posts, nextId, at, nav, shown, due, seen, calm>>

IdsOf(rows) == {r.id : r \in rows}
NewerThan(P, i) == {j \in IdsOf(P) : j > i}

(* page * 10, which wraps around beyond the greatest int.                  *)
Product(p) ==
    IF p * PageSize <= MaxInt THEN p * PageSize
    ELSE ((p * PageSize + MaxInt + 1) % (2 * MaxInt + 2)) - (MaxInt + 1)

(* LIMIT 10 OFFSET ?, where SQLite takes a negative offset for none.       *)
Offset(p)  == IF Product(p) < 0 THEN 0 ELSE Product(p)
Rows(P, p) == {r \in P : /\ Offset(p) <= Cardinality(NewerThan(P, r.id))
                         /\ Cardinality(NewerThan(P, r.id)) < Offset(p) + PageSize}

Branches == {{"Next"}, {"Back", "Next"}, {"Back"}}

(* Mutant: the last page is not offered.                                   *)
ButtonsNoLast(p, count) ==
    IF count <= PageSize THEN {{}}
    ELSE IF p * PageSize > MaxInt THEN Branches
    ELSE IF p = 0 THEN {{"Next"}}
    ELSE IF count - p * PageSize > 2 * PageSize THEN {{"Back", "Next"}} ELSE {{"Back"}}

(* The buttons by the count of posts; by any of the three branches when    *)
(* the product has overflowed.                                             *)
Buttons(p, count) ==
    IF count <= PageSize THEN {{}}
    ELSE IF p * PageSize > MaxInt THEN Branches
    ELSE IF p = 0 THEN {{"Next"}}
    ELSE IF count - p * PageSize > PageSize THEN {{"Back", "Next"}} ELSE {{"Back"}}

PagingInit ==
    /\ posts = {} /\ nextId = 1
    /\ at = 0 /\ nav = {} /\ shown = {} /\ due = {} /\ seen = {} /\ calm = TRUE

(* What get_posts answers for page p; nothing but the controls when there  *)
(* are no posts.                                                           *)
get_posts(p) ==
    /\ at' = p
    /\ IF posts = {} THEN nav' = {} /\ shown' = {}
       ELSE nav' \in Buttons(p, Cardinality(posts)) /\ shown' = Rows(posts, p)
    /\ UNCHANGED table

view_home ==
    /\ get_posts(0)
    /\ due' = IdsOf(posts) /\ seen' = IdsOf(shown') /\ calm' = TRUE

(* The page beside the one it has, /api/home/N, if the answer says by a    *)
(* button that there is one.  Beyond nine digits the path is no page.      *)
Turn(p) ==
    /\ p \in 0..MaxPage
    /\ get_posts(p)
    /\ seen' = seen \cup IdsOf(shown')
    /\ UNCHANGED <<due, calm>>
Continue == \/ "Next" \in nav /\ Turn(at + 1)
            \/ "Back" \in nav /\ Turn(at - 1)

(* A page out of turn: the client is no longer on its way from /api/home.  *)
Jump(p) ==
    /\ p \in Jumps
    /\ get_posts(p)
    /\ due' = {} /\ seen' = {} /\ calm' = TRUE

Add(text) ==
    /\ nextId <= MaxId
    /\ posts' = posts \cup {[id |-> nextId, text |-> text]}
    /\ nextId' = nextId + 1
    /\ UNCHANGED reader

Change(i, text) ==
    /\ posts' = {IF r.id = i THEN [id |-> i, text |-> text] ELSE r : r \in posts}
    /\ UNCHANGED <<nextId, reader>>

Withdraw(i) ==
    /\ posts' = {r \in posts : r.id # i}
    /\ calm' = FALSE
    /\ UNCHANGED <<nextId, at, nav, shown, due, seen>>

-----------------------------------------------------------------------------
(* A client that asks for /api/home and then for /api/home/1, /api/home/2  *)
(* and so on, until an answer comes without Next, has been given every     *)
(* post that was there when it began, however many were added or edited    *)
(* meanwhile; only a deletion can make it miss one (it moves the posts     *)
(* that follow to the page before).                                        *)
NothingMissed == calm /\ "Next" \notin nav => due \subseteq seen
=============================================================================
