---------------------------- MODULE PageCacheRaces -----------------------------
(***************************************************************************)
(* PageCache under several io_service threads.  Started with THREADS > 1   *)
(* the program runs view and edit handlers in parallel over a cache that   *)
(* no lock protects, and a page may be stored that the database would no   *)
(* longer give.  Three history variables, which no step of the program     *)
(* reads, record when exactly that happens.                                *)
(***************************************************************************)
EXTENDS PageCache

VARIABLES late,     \* threads part way through their SELECTs when a write landed
          tainted,  \* keys whose entry such a thread stored
          swept     \* threads whose entry was removed after cache.find saw it

history == <<late, tainted, swept>>

Reading == {"rows", "nav", "fill"}

Stores(t, k) == pc[t] = "fill" /\ pc'[t] = "reply" /\ KeyOf(req[t]) = k

Record ==
    /\ late' = {t \in Io : /\ pc'[t] \in Reading
                           /\ t \in late \/ (pc[t] \in Reading /\ posts' # posts)}
    /\ tainted' = {k \in Keys :
                     /\ cache'[k] \notin {Absent, Blank}
                     /\ \/ \E t \in late : Stores(t, k)
                        \/ k \in tainted /\ \A t \in Io : ~Stores(t, k)}
    /\ swept' = {t \in Io :
                   /\ pc'[t] = "serve"
                   /\ \/ t \in swept
                      \/ pc[t] = "serve" /\ cache'[KeyOf(req[t])] = Absent}

RacesInit == Init /\ late = {} /\ tainted = {} /\ swept = {}
RacesNext == Next /\ Record
RacesSpec == RacesInit /\ [][RacesNext]_<<vars, history>>

-----------------------------------------------------------------------------
(* A cached page that no longer shows the posts as they are was stored by  *)
(* a view that a write overtook between its first SELECT and its fill; in  *)
(* particular every write empties the cache of the pages it changed, and a *)
(* view that no write overtook stores the truth.                           *)
StaleOnlyByOverlap ==
    \A v \in Views :
        \/ cache[KeyOf(v)] \in {Absent, Blank}
        \/ Fresh(v) \/ Flushing
        \/ KeyOf(v) \in tainted

(* A page is blanked only under a thread that had found it in the cache    *)
(* and lost it to a clear before reading it.                               *)
BlankOnlyBySweep ==
    [][\A k \in Keys :
          cache[k] # Blank /\ cache'[k] = Blank
              => \E t \in swept : KeyOf(req[t]) = k]_<<vars, history>>
=============================================================================
