----------------------------- MODULE SessionsProofs ----------------------------
(***************************************************************************)
(* What holds of Sessions for every number of threads, accounts, names,    *)
(* passwords and cookies: its types and, as long as the random source      *)
(* works, that only a login lets a request through.  Then, with or without *)
(* that source and whatever statements fail, what holds when requests come *)
(* one at a time: with two threads TLC finds each of these violated, or    *)
(* they hold only but for an overlap.                                      *)
(***************************************************************************)
EXTENDS SessionsForms, FiniteSetTheorems, TLAPS

Cookied   == Changes(Jar) \cup Visits(Jar) \cup Others(Jar)
Asking    == {"stamp", "sweep", "find", "who", "verify", "evictwho", "evict"}
Changing  == {"orig", "avail", "oldcount", "oldpass", "hash", "update"}
Resolved    == {"avail", "oldcount", "oldpass", "hash", "update"}
LoggingIn == {"count", "check", "drop", "restamp", "store"}
Admitted  == {"drop", "restamp", "store"}

(* Where a thread stands tells which kind of request it has in hand.       *)
Shape ==
    \A t \in Threads :
        /\ pc[t] \in Asking \cup {"outwho", "out", "author"} => req[t] \in Cookied
        /\ pc[t] \in Changing => req[t] \in Changes(Jar)
        /\ pc[t] \in Resolved => req[t].name \in Names
        /\ pc[t] \in LoggingIn => req[t] \in Logins
        /\ pc[t] \in Admitted => token[t] \in Jar

TypeInv == TypeOK /\ Shape

-----------------------------------------------------------------------------
(* sessions[cookie] gives a username or the empty string.                  *)
LEMMA SubscriptType ==
    ASSUME sessions \in [Jar -> Names \cup {NoName, Gone}],
           who \in [Threads -> Names \cup {NoName}],
           NEW t \in Threads, req[t].cookie \in Jar, Subscript(t)
    PROVE  /\ sessions' \in [Jar -> Names \cup {NoName, Gone}]
           /\ who' \in [Threads -> Names \cup {NoName}]
  <1> DEFINE n == IF sessions[req[t].cookie] = Gone THEN NoName ELSE sessions[req[t].cookie]
  <1>1. n \in Names \cup {NoName}
    OBVIOUS
  <1>2. /\ sessions' = [sessions EXCEPT ![req[t].cookie] = n]
        /\ who' = [who EXCEPT ![t] = n]
    BY DEF Subscript, Know
  <1> HIDE DEF n
  <1> QED  BY <1>1, <1>2

LEMMA LoggoutType ==
    ASSUME sessions \in [Jar -> Names \cup {NoName, Gone}], NEW n, Loggout(n)
    PROVE  sessions' \in [Jar -> Names \cup {NoName, Gone}]
  BY DEF Loggout, Held

(* The pass column read back is a hash, or what is left of two.            *)
LEMMA StoredType ==
    ASSUME users \in [Accounts -> [name : Names, pass : Hashes]], NEW n
    PROVE  Stored(n) \in Hashes
  <1> DEFINE found == {users[u].pass : u \in Named(n)}
  <1>1. found \subseteq Hashes
    BY DEF Named
  <1>2. Named(n) # {} => found # {}
    OBVIOUS
  <1>3. found # {} => (CHOOSE h \in found : TRUE) \in Hashes
    BY <1>1
  <1> HIDE DEF found
  <1>4. NoPassword \in Hashes /\ Junk \in Hashes
    BY DEF Hashes
  <1>5. Stored(n) = IF Named(n) = {} THEN NoPassword
                    ELSE IF Cardinality(Named(n)) > 1 THEN Junk
                    ELSE CHOOSE h \in found : TRUE
    BY DEF Stored, found
  <1> QED  BY <1>2, <1>3, <1>4, <1>5

(* What a request is by its op, and what it carries.                       *)
LEMMA RequestKinds ==
    /\ \A r \in Cookied : r.cookie \in Jar
    /\ \A r \in Cookied : r.op = "change" => r \in Changes(Jar)
    /\ \A r \in Changes(Jar) : /\ r \in Cookied /\ r.name \in Names \cup {NoName}
                               /\ r.pass \in Passwords \cup {NoPassword} /\ r.cookie \in Jar
    /\ \A r \in Logins : r.name \in Names
  BY DEF Cookied, Changes, Visits, Others, Logins

(* The clock stays within its bound.                                       *)
LEMMA AgeType ==
    /\ 0 \in 0..Expire
    /\ \A a \in 0..Expire : a < Expire => a + 1 \in 0..Expire
  BY SessionsAssumption

LEMMA TypeInit == Init => TypeInv
  <1> SUFFICES ASSUME Init PROVE TypeInv
    OBVIOUS
  <1>1. TypeOK
    BY SessionsAssumption DEF Init, TypeOK, Hashes, Points, Statuses
  <1>2. Shape
    BY DEF Init, Shape, Asking, Changing, Resolved, LoggingIn, Admitted
  <1> QED  BY <1>1, <1>2 DEF TypeInv

(* Every step keeps the types.                                             *)
LEMMA TypeStep == TypeInv /\ [Next]_vars => TypeInv'
  <1> SUFFICES ASSUME TypeInv, [Next]_vars PROVE TypeInv'
    OBVIOUS
  <1> USE DEF TypeInv, TypeOK, Shape, Points, Statuses, Asking, Changing, Resolved, LoggingIn,
          Admitted, Move, Finish, Know, Keep
  <1>1. CASE Tick
    BY <1>1, AgeType DEF Tick
  <1>2. ASSUME NEW t \in Threads, Respond(t) PROVE TypeInv'
    BY <1>2 DEF Respond, Hashes
  <1>3. ASSUME NEW t \in Threads,
               NEW r \in Changes(Presented) \cup Visits(Presented) \cup Others(Presented),
               Enter(t, r)
        PROVE  TypeInv'
    <2>1. Presented \subseteq Jar
      BY DEF Presented, Jar
    <2>2. r \in Cookied /\ r \in Changes(Jar) \cup Visits(Jar) \cup Others(Jar)
      BY <2>1 DEF Cookied, Changes, Visits, Others
    <2> QED  BY <1>3, <2>2 DEF Enter
  <1>4. ASSUME NEW t \in Threads, Stamp(t) PROVE TypeInv'
    BY <1>4, AgeType DEF Stamp
  <1>5. ASSUME NEW t \in Threads, Sweep(t) PROVE TypeInv'
    BY <1>5 DEF Sweep
  <1>6. ASSUME NEW t \in Threads, Find(t) PROVE TypeInv'
    <2>1. CASE Move(t, "find", "who") /\ UNCHANGED status
      BY <1>6, <2>1 DEF Find
    <2>2. CASE Finish(t, "find", "{nologin}")
      BY <1>6, <2>2 DEF Find
    <2> QED  BY <1>6, <2>1, <2>2 DEF Find
  <1>7. ASSUME NEW t \in Threads, Who(t) PROVE TypeInv'
    <2>1. req[t].cookie \in Jar
      BY <1>7, RequestKinds DEF Who
    <2> QED  BY <1>7, <2>1, SubscriptType DEF Who
  <1>8. ASSUME NEW t \in Threads, Verify(t) PROVE TypeInv'
    <2>1. CASE Move(t, "verify", "outwho") /\ UNCHANGED status
      BY <1>8, <2>1 DEF Verify
    <2>4. CASE Move(t, "verify", "author") /\ UNCHANGED status
      BY <1>8, <2>4 DEF Verify
    <2>5. CASE Move(t, "verify", "evictwho") /\ UNCHANGED status
      BY <1>8, <2>5 DEF Verify
    <2>2. CASE req[t].op = "change" /\ Move(t, "verify", "orig") /\ UNCHANGED status
      <3>1. req[t] \in Changes(Jar)
        BY <1>8, <2>2, RequestKinds DEF Verify
      <3> QED  BY <1>8, <2>2, <3>1 DEF Verify
    <2>3. CASE Finish(t, "verify", "page")
      BY <1>8, <2>3 DEF Verify
    <2> QED  BY <1>8, <2>1, <2>2, <2>3, <2>4, <2>5 DEF Verify
  <1>9. ASSUME NEW t \in Threads, EvictWho(t) PROVE TypeInv'
    <2>1. req[t].cookie \in Jar
      BY <1>9, RequestKinds DEF EvictWho
    <2> QED  BY <1>9, <2>1, SubscriptType DEF EvictWho
  <1>10. ASSUME NEW t \in Threads, Evict(t) PROVE TypeInv'
    BY <1>10, LoggoutType DEF Evict
  <1>11. ASSUME NEW t \in Threads, OutWho(t) PROVE TypeInv'
    <2>1. req[t].cookie \in Jar
      BY <1>11, RequestKinds DEF OutWho
    <2> QED  BY <1>11, <2>1, SubscriptType DEF OutWho
  <1>12. ASSUME NEW t \in Threads, Out(t) PROVE TypeInv'
    BY <1>12, LoggoutType DEF Out
  <1>13. ASSUME NEW t \in Threads, Author(t) PROVE TypeInv'
    <2>1. req[t].cookie \in Jar
      BY <1>13, RequestKinds DEF Author
    <2> QED  BY <1>13, <2>1, SubscriptType DEF Author
  <1>14. ASSUME NEW t \in Threads, Original(t) PROVE TypeInv'
    <2>1. req[t].cookie \in Jar /\ req[t].name \in Names \cup {NoName}
      BY <1>14, RequestKinds DEF Original
    <2>2. CASE req[t].name = NoName
      <3>1. /\ Finish(t, "orig", "{fields_error}")
            /\ UNCHANGED <<users, sessions, age, used, req, who, secret, token>>
        BY <1>14, <2>2 DEF Original
      <3> QED  BY <3>1
    <2>3. CASE req[t].name # NoName
      <3>1. Subscript(t) /\ Move(t, "orig", "avail")
            /\ UNCHANGED <<users, age, used, req, secret, token, status>>
        BY <1>14, <2>3 DEF Original
      <3>2. /\ sessions' \in [Jar -> Names \cup {NoName, Gone}]
            /\ who' \in [Threads -> Names \cup {NoName}]
        BY <2>1, <3>1, SubscriptType
      <3>3. req[t].name \in Names /\ req[t] \in Changes(Jar)
        BY <1>14, <2>1, <2>3 DEF Original
      <3> QED  BY <3>1, <3>2, <3>3
    <2> QED  BY <2>2, <2>3
  <1>15. ASSUME NEW t \in Threads, Available(t) PROVE TypeInv'
    <2>1. CASE Move(t, "avail", "oldcount") /\ UNCHANGED status
      BY <1>15, <2>1 DEF Available
    <2>2. CASE Move(t, "avail", "hash") /\ UNCHANGED status
      BY <1>15, <2>2 DEF Available
    <2>3. CASE Finish(t, "avail", "{username_taken_error}")
      BY <1>15, <2>3 DEF Available
    <2> QED  BY <1>15, <2>1, <2>2, <2>3 DEF Available
  <1>16. ASSUME NEW t \in Threads, OldCount(t) PROVE TypeInv'
    <2>1. Error \in Hashes
      BY DEF Hashes
    <2>2. CASE Move(t, "oldcount", "oldpass") /\ UNCHANGED secret
      <3>1. UNCHANGED <<users, sessions, age, used, req, who, token, status>>
        BY <1>16 DEF OldCount
      <3> QED  BY <2>2, <3>1
    <2>3. CASE Move(t, "oldcount", "update") /\ Keep(t, Error)
      BY <1>16, <2>1, <2>3 DEF OldCount
    <2> QED  BY <1>16, <2>2, <2>3 DEF OldCount
  <1>17. ASSUME NEW t \in Threads, OldPass(t) PROVE TypeInv'
    <2>1. Stored(who[t]) \in Hashes /\ Error \in Hashes
      BY StoredType DEF Hashes
    <2>2. Move(t, "oldpass", "update")
          /\ UNCHANGED <<users, sessions, age, used, req, who, token, status>>
      BY <1>17 DEF OldPass
    <2>3. \E h \in Hashes : Keep(t, h)
      BY <1>17, <2>1 DEF OldPass
    <2>4. secret' \in [Threads -> Hashes]
      BY <2>3 DEF Keep, TypeOK
    <2> QED  BY <2>2, <2>4
  <1>18. ASSUME NEW t \in Threads, Hash(t) PROVE TypeInv'
    <2>1. req[t].pass \in Hashes
      BY <1>18, RequestKinds DEF Hash, Hashes
    <2> QED  BY <1>18, <2>1 DEF Hash
  <1>19. ASSUME NEW t \in Threads, UpdateUser(t) PROVE TypeInv'
    <2>1. req[t].name \in Names /\ secret[t] \in Hashes
      BY <1>19, RequestKinds DEF UpdateUser
    <2>2. users' \in [Accounts -> [name : Names, pass : Hashes]]
      BY <1>19, <2>1 DEF UpdateUser
    <2>3. /\ Finish(t, "update", "{success}")
          /\ UNCHANGED <<sessions, age, used, req, who, secret, token>>
      BY <1>19 DEF UpdateUser
    <2> QED  BY <2>2, <2>3
  <1>20. ASSUME NEW t \in Threads, ChangeFails(t) PROVE TypeInv'
    BY <1>20 DEF ChangeFails
  <1>21. ASSUME NEW t \in Threads, LoginCount(t) PROVE TypeInv'
    <2>0. UNCHANGED <<users, sessions, age, used, req, who, secret, token>>
      BY <1>21 DEF LoginCount
    <2>1. CASE Move(t, "count", "check") /\ UNCHANGED status
      BY <2>0, <2>1
    <2>2. CASE Finish(t, "count", "wrong")
      BY <2>0, <2>2
    <2> QED  BY <1>21, <2>1, <2>2 DEF LoginCount
  <1>22. ASSUME NEW t \in Threads, LoginCheck(t) PROVE TypeInv'
    <2>1. used' \subseteq Cookies
      BY <1>22 DEF LoginCheck
    <2>2. CASE /\ Move(t, "check", "drop") /\ UNCHANGED status
               /\ \E c \in Jar : token' = [token EXCEPT ![t] = c]
      BY <1>22, <2>1, <2>2 DEF LoginCheck
    <2>3. CASE Finish(t, "check", "wrong") /\ UNCHANGED token
      BY <1>22, <2>1, <2>3 DEF LoginCheck
    <2> QED  BY <1>22, <2>2, <2>3 DEF LoginCheck, Jar
  <1>23. ASSUME NEW t \in Threads, Drop(t) PROVE TypeInv'
    BY <1>23, LoggoutType DEF Drop
  <1>24. ASSUME NEW t \in Threads, Restamp(t) PROVE TypeInv'
    BY <1>24, AgeType DEF Restamp
  <1>25. ASSUME NEW t \in Threads, Store(t) PROVE TypeInv'
    BY <1>25, RequestKinds DEF Store
  <1>26. ASSUME NEW t \in Threads, NEW r \in Logins, Login(t, r) PROVE TypeInv'
    BY <1>26 DEF Login
  <1>27. CASE UNCHANGED vars
    BY <1>27 DEF vars
  <1> QED
    BY <1>1, <1>2, <1>3, <1>4, <1>5, <1>6, <1>7, <1>8, <1>9, <1>10,
       <1>11, <1>12, <1>13, <1>14, <1>15, <1>16, <1>17, <1>18, <1>19, <1>20,
       <1>21, <1>22, <1>23, <1>24, <1>25, <1>26, <1>27
       DEF Next, Arrive, Work, Threads

(* TypeOK holds for any number of threads, accounts and cookies.           *)
THEOREM TypeCorrect == Spec => []TypeOK
  <1>1. TypeInv => TypeOK
    BY DEF TypeInv
  <1> QED  BY TypeInit, TypeStep, <1>1, PTL DEF Spec

-----------------------------------------------------------------------------
Granted(c, n) == owner[c] # Gone /\ owner[c].name = n

(* What a thread holds comes from a login: the token it will store is the  *)
(* one of its own, the cookie of its request is out already, and the       *)
(* username it goes on with is the one that cookie was granted to.         *)
Sound(t) ==
    /\ pc[t] \in Admitted => Granted(token[t], req[t].name)
    /\ pc[t] \in Asking \cup Changing \cup {"outwho", "out", "author"}
          => req[t].cookie \in used \cup {NoCookie}
    /\ pc[t] \in {"verify", "out"} \cup Resolved
          => who[t] = NoName \/ Granted(req[t].cookie, who[t])
    /\ pc[t] \in {"outwho", "author", "orig"} => Granted(req[t].cookie, who[t])

(* A session belongs to the login its cookie was made for, and no cookie   *)
(* that is not out has a login.                                            *)
Provenance ==
    /\ owner \in [Jar -> {Gone} \cup [name : Names, account : Accounts]]
    /\ \A c \in Jar : sessions[c] \notin {Gone, NoName} => Granted(c, sessions[c])
    /\ \A c \in Jar : owner[c] # Gone => c \in used
    /\ \A t \in Threads : Sound(t)

SessionsInv == TypeInv /\ Provenance

(* The random source works, and with it the hashing of passwords.          *)
SaltWorks == SaltFails = FALSE
HashWorks == HashFails = FALSE

-----------------------------------------------------------------------------
(* A step is the step of one thread, or the clock's.                       *)
Only(t) ==
    \A s \in Threads \ {t} : /\ pc'[s] = pc[s] /\ req'[s] = req[s]
                             /\ who'[s] = who[s] /\ token'[s] = token[s]
                             /\ secret'[s] = secret[s]

Acts(t) == Arrive(t) \/ Work(t)

LEMMA Mover ==
    ASSUME TypeInv, NEW t \in Threads, Acts(t)
    PROVE  Only(t)
  <1>a. /\ pc \in [Threads -> Points] /\ who \in [Threads -> Names \cup {NoName}]
        /\ token \in [Threads -> Jar \cup {Gone}] /\ secret \in [Threads -> Hashes]
        /\ DOMAIN req = Threads
    BY DEF TypeInv, TypeOK
  <1> USE <1>a DEF Move, Finish, Know, Keep, Subscript, Only
  <1>1. CASE Arrive(t)
    BY <1>1 DEF Arrive, Login, Enter
  <1>2. CASE Stamp(t) \/ Sweep(t) \/ Find(t) \/ Who(t) \/ Verify(t) \/ EvictWho(t) \/ Evict(t)
    BY <1>2 DEF Stamp, Sweep, Find, Who, Verify, EvictWho, Evict
  <1>3. CASE OutWho(t) \/ Out(t) \/ Author(t) \/ Original(t) \/ Available(t)
    BY <1>3 DEF OutWho, Out, Author, Original, Available
  <1>4. CASE OldCount(t) \/ OldPass(t) \/ Hash(t) \/ UpdateUser(t) \/ ChangeFails(t)
    BY <1>4 DEF OldCount, OldPass, Hash, UpdateUser, ChangeFails
  <1>5. CASE LoginCount(t) \/ Drop(t) \/ Restamp(t) \/ Store(t) \/ Respond(t)
    BY <1>5 DEF LoginCount, Drop, Restamp, Store, Respond
  <1>6. CASE LoginCheck(t)
    BY <1>6 DEF LoginCheck
  <1> QED  BY <1>1, <1>2, <1>3, <1>4, <1>5, <1>6 DEF Acts, Work

(* Only LoginCheck lets a login through, and only with a cookie that is    *)
(* not out yet.                                                            *)
LEMMA Identification ==
    ASSUME SaltWorks, TypeInv, Next, NEW t \in Threads, Identified(t)
    PROVE  /\ token'[t] \in Cookies \ used
           /\ used' = used \cup {token'[t]}
  <1>a. pc \in [Threads -> Points] /\ token \in [Threads -> Jar \cup {Gone}]
    BY DEF TypeInv, TypeOK
  <1>b. pc[t] = "check" /\ pc'[t] = "drop"
    BY DEF Identified
  <1>1. PICK s \in Threads : Acts(s)
    BY <1>b DEF Next, Tick, Acts
  <1>2. s = t
    BY <1>1, <1>b, Mover DEF Only
  <1>3. LoginCheck(t)
    BY <1>1, <1>2, <1>a, <1>b
       DEF Acts, Arrive, Work, Move, Finish, Login, Enter, Stamp, Sweep, Find, Who, Verify,
           EvictWho, Evict, OutWho, Out, Author, Original, Available, OldCount, OldPass,
           Hash, UpdateUser, ChangeFails, LoginCount, Drop, Restamp, Store, Respond
  <1>4. \E c \in Cookies \ used : token' = [token EXCEPT ![t] = c]
    BY <1>3, <1>a, <1>b DEF LoginCheck, Finish, Move, SaltWorks
  <1> QED  BY <1>3, <1>4, <1>a DEF LoginCheck

(* Cookies that are out stay out.                                          *)
LEMMA UsedGrows ==
    ASSUME Next
    PROVE  used \subseteq used'
  BY DEF Next, Tick, Arrive, Work, Login, Enter, Stamp, Sweep, Find, Who, Verify, EvictWho,
         Evict, OutWho, Out, Author, Original, Available, OldCount, OldPass, Hash, UpdateUser,
         ChangeFails, LoginCount, LoginCheck, Drop, Restamp, Store, Respond

(* A login once recorded for a cookie is never replaced.                   *)
LEMMA LedgerGrows ==
    ASSUME SaltWorks, SessionsInv, Next, Record
    PROVE  /\ owner' \in [Jar -> {Gone} \cup [name : Names, account : Accounts]]
           /\ \A c \in Jar : owner[c] # Gone => owner'[c] = owner[c]
           /\ \A c \in Jar : owner'[c] # Gone => c \in used'
  <1>a. /\ owner \in [Jar -> {Gone} \cup [name : Names, account : Accounts]]
        /\ \A c \in Jar : owner[c] # Gone => c \in used
        /\ used \subseteq used'
    BY UsedGrows DEF SessionsInv, Provenance
  <1>1. CASE UNCHANGED owner
    BY <1>1, <1>a
  <1>2. CASE ~UNCHANGED owner
    <2>1. PICK t \in Threads :
             /\ Identified(t)
             /\ \E u \in Named(req[t].name) :
                   owner' = [owner EXCEPT ![token'[t]] = [name |-> req[t].name, account |-> u]]
      BY <1>2 DEF Record
    <2>2. token'[t] \in Cookies \ used /\ used' = used \cup {token'[t]}
      BY <2>1, Identification DEF SessionsInv
    <2>3. req[t].name \in Names
      BY <2>1, RequestKinds DEF Identified, SessionsInv, TypeInv, Shape, LoggingIn
    <2>4. \A u \in Named(req[t].name) :
             [name |-> req[t].name, account |-> u] \in [name : Names, account : Accounts]
      BY <2>3 DEF Named
    <2>5. Cookies \subseteq Jar
      BY DEF Jar
    <2> QED  BY <1>a, <2>1, <2>2, <2>4, <2>5
  <1> QED  BY <1>1, <1>2

-----------------------------------------------------------------------------
(* A step only takes sessions away, leaves empty ones behind, or stores    *)
(* the session of a login.                                                 *)
LEMMA SessionsChange ==
    ASSUME TypeInv, Next, NEW c \in Jar, sessions'[c] \notin {Gone, NoName}
    PROVE  \/ sessions'[c] = sessions[c]
           \/ \E t \in Threads : /\ pc[t] = "store" /\ token[t] = c
                                 /\ sessions'[c] = req[t].name
  <1>a. sessions \in [Jar -> Names \cup {NoName, Gone}]
    BY DEF TypeInv, TypeOK
  <1>1. CASE UNCHANGED sessions
    BY <1>1
  <1>2. ASSUME NEW t \in Threads, Subscript(t) PROVE sessions'[c] = sessions[c]
    <2> DEFINE d == req[t].cookie
    <2> DEFINE n == IF sessions[d] = Gone THEN NoName ELSE sessions[d]
    <2>1. sessions' = [sessions EXCEPT ![d] = n]
      BY <1>2 DEF Subscript
    <2>2. n = NoName \/ n = sessions[d]
      OBVIOUS
    <2> HIDE DEF n, d
    <2> QED  BY <1>a, <2>1, <2>2
  <1>3. ASSUME NEW n, Loggout(n) PROVE sessions'[c] = sessions[c]
    BY <1>3, <1>a DEF Loggout
  <1>4. ASSUME NEW t \in Threads, Store(t)
        PROVE  \/ sessions'[c] = sessions[c]
               \/ /\ pc[t] = "store" /\ token[t] = c
                  /\ sessions'[c] = req[t].name
    BY <1>4, <1>a DEF Store, Finish, Move
  <1>5. ASSUME NEW t \in Threads, Sweep(t) PROVE sessions'[c] = Gone
    BY <1>5 DEF Sweep
  <1>6. ASSUME ~UNCHANGED sessions
        PROVE  \E t \in Threads :
                  \/ Subscript(t) \/ (\E n : Loggout(n)) \/ Store(t) \/ Sweep(t)
    BY <1>6 DEF Next, Tick, Arrive, Work, Login, Enter, Stamp, Find, Who, Verify, EvictWho,
         Evict, OutWho, Out, Author, Original, Available, OldCount, OldPass, Hash, UpdateUser,
         ChangeFails, LoginCount, LoginCheck, Drop, Restamp, Respond
  <1> QED  BY <1>1, <1>2, <1>3, <1>4, <1>5, <1>6

(* Nobody is called by the empty username, so get_user_id, which counts    *)
(* one row, tells a login's name from what operator[] left behind.         *)
LEMMA Nobody ==
    ASSUME TypeInv, NEW n, Cardinality(Named(n)) = 1
    PROVE  n # NoName
  <1>1. \A u \in Accounts : users[u].name # NoName
    BY SessionsAssumption DEF TypeInv, TypeOK
  <1>2. n = NoName => Named(n) = {}
    BY <1>1 DEF Named
  <1> QED  BY <1>2, FS_EmptySet

(* A table has finitely many rows, so a count of one is one row.           *)
LEMMA OnlyOne ==
    ASSUME NEW n, Cardinality(Named(n)) = 1
    PROVE  \E u : Named(n) = {u}
  <1>1. IsFiniteSet(Named(n))
    BY SessionsAssumption, FS_Subset DEF Named
  <1> QED  BY <1>1, FS_Singleton

(* sessions[cookie] is the name of the cookie's login, or empty; a cookie  *)
(* found in the map has a login or an empty name.                          *)
LEMMA Reading ==
    ASSUME Provenance, TypeInv, NEW t \in Threads, req[t].cookie \in Jar, Subscript(t)
    PROVE  who'[t] = NoName \/ Granted(req[t].cookie, who'[t])
  <1> DEFINE n == IF sessions[req[t].cookie] = Gone THEN NoName ELSE sessions[req[t].cookie]
  <1>1. who'[t] = n
    BY DEF Subscript, Know, TypeInv, TypeOK
  <1>2. n = NoName \/ Granted(req[t].cookie, n)
    BY DEF Provenance
  <1> HIDE DEF n
  <1> QED  BY <1>1, <1>2

(* What a thread holds stays sound while another one moves.                *)
LEMMA SoundKept ==
    ASSUME SaltWorks, SessionsInv, Next, Record, NEW t \in Threads,
           pc'[t] = pc[t], req'[t] = req[t], who'[t] = who[t], token'[t] = token[t]
    PROVE  Sound(t)'
  <1>1. used \subseteq used' /\ \A c \in Jar : owner[c] # Gone => owner'[c] = owner[c]
    BY UsedGrows, LedgerGrows
  <1>2. Sound(t) /\ owner \in [Jar -> {Gone} \cup [name : Names, account : Accounts]]
    BY DEF SessionsInv, Provenance
  <1>3. /\ pc[t] \in Admitted => token[t] \in Jar
        /\ pc[t] \in Asking \cup Changing \cup {"outwho", "out", "author"}
              => req[t].cookie \in Jar
    BY RequestKinds DEF SessionsInv, TypeInv, Shape
  <1> QED
    BY <1>1, <1>2, <1>3 DEF Sound, Granted, Asking, Changing, Resolved, Admitted

(* The thread that moves is sound after its step.                          *)
LEMMA SoundMove ==
    ASSUME SaltWorks, SessionsInv, Next, Record, NEW t \in Threads, Acts(t)
    PROVE  Sound(t)'
  <1>a. /\ pc \in [Threads -> Points] /\ who \in [Threads -> Names \cup {NoName}]
        /\ token \in [Threads -> Jar \cup {Gone}]
        /\ DOMAIN req = Threads
        /\ Shape /\ TypeInv /\ Provenance /\ Sound(t)
    BY DEF SessionsInv, TypeInv, TypeOK, Provenance
  <1>b. used \subseteq used' /\ \A c \in Jar : owner[c] # Gone => owner'[c] = owner[c]
    BY UsedGrows, LedgerGrows
  <1>c. /\ pc[t] \in Admitted => token[t] \in Jar
        /\ pc[t] \in Asking \cup Changing \cup {"outwho", "out", "author"}
              => req[t].cookie \in Jar
    BY RequestKinds DEF SessionsInv, TypeInv, Shape
  <1>d. \A c \in Jar : \A n : Granted(c, n) => Granted(c, n)'
    BY <1>b DEF Granted
  <1> USE DEF Move, Finish, Know, Keep, Sound, Asking, Changing, Resolved, Admitted
  <1>1. CASE Stamp(t)
    BY <1>1, <1>a, <1>b, <1>c, <1>d DEF Stamp
  <1>2. CASE Sweep(t)
    BY <1>2, <1>a, <1>b, <1>c, <1>d DEF Sweep
  <1>3. CASE Find(t)
    BY <1>3, <1>a, <1>b, <1>c, <1>d DEF Find
  <1>4. CASE EvictWho(t)
    BY <1>4, <1>a, <1>b, <1>c, <1>d DEF EvictWho, Subscript
  <1>5. CASE Evict(t)
    BY <1>5, <1>a, <1>b, <1>c, <1>d DEF Evict
  <1>6. CASE Out(t)
    BY <1>6, <1>a, <1>b, <1>c, <1>d DEF Out
  <1>7. CASE Author(t)
    BY <1>7, <1>a, <1>b, <1>c, <1>d DEF Author, Subscript
  <1>8. CASE Available(t)
    BY <1>8, <1>a, <1>b, <1>c, <1>d DEF Available
  <1>9. CASE OldCount(t)
    BY <1>9, <1>a, <1>b, <1>c, <1>d DEF OldCount
  <1>10. CASE OldPass(t)
    BY <1>10, <1>a, <1>b, <1>c, <1>d DEF OldPass
  <1>11. CASE Hash(t)
    BY <1>11, <1>a, <1>b, <1>c, <1>d DEF Hash
  <1>12. CASE UpdateUser(t)
    BY <1>12, <1>a, <1>b, <1>c, <1>d DEF UpdateUser
  <1>13. CASE ChangeFails(t)
    BY <1>13, <1>a, <1>b, <1>c, <1>d DEF ChangeFails
  <1>14. CASE LoginCount(t)
    BY <1>14, <1>a, <1>b, <1>c, <1>d DEF LoginCount
  <1>15. CASE Drop(t)
    BY <1>15, <1>a, <1>b, <1>c, <1>d DEF Drop
  <1>16. CASE Restamp(t)
    BY <1>16, <1>a, <1>b, <1>c, <1>d DEF Restamp
  <1>17. CASE Store(t)
    BY <1>17, <1>a, <1>b, <1>c, <1>d DEF Store
  <1>18. CASE Respond(t)
    BY <1>18, <1>a, <1>b, <1>c, <1>d DEF Respond
  <1>19. CASE Who(t)
    <2>1. who'[t] = NoName \/ Granted(req[t].cookie, who'[t])
      BY <1>19, <1>a, <1>c, Reading DEF Who
    <2> QED  BY <1>19, <1>a, <1>b, <1>c, <1>d, <2>1 DEF Who
  <1>20. CASE OutWho(t)
    <2>1. who'[t] = NoName \/ Granted(req[t].cookie, who'[t])
      BY <1>20, <1>a, <1>c, Reading DEF OutWho
    <2> QED  BY <1>20, <1>a, <1>b, <1>c, <1>d, <2>1 DEF OutWho
  <1>21. CASE Original(t)
    <2>1. CASE req[t].name = NoName
      BY <1>21, <1>a, <2>1 DEF Original
    <2>2. CASE req[t].name # NoName
      <3>1. who'[t] = NoName \/ Granted(req[t].cookie, who'[t])
        BY <1>21, <1>a, <1>c, <2>2, Reading DEF Original
      <3> QED  BY <1>21, <1>a, <1>b, <1>c, <1>d, <2>2, <3>1 DEF Original
    <2> QED  BY <2>1, <2>2
  <1>22. CASE Verify(t)
    <2>1. CASE Cardinality(Named(who[t])) = 1
      <3>1. who[t] # NoName
        BY <1>a, <2>1, Nobody
      <3> QED  BY <1>22, <1>a, <1>b, <1>c, <1>d, <3>1 DEF Verify
    <2>2. CASE Cardinality(Named(who[t])) # 1
      BY <1>22, <1>a, <1>b, <1>c, <2>2 DEF Verify
    <2> QED  BY <2>1, <2>2
  <1>23. CASE LoginCheck(t)
    <2>1. CASE pc'[t] = "drop"
      <3>1. Identified(t) /\ req'[t] = req[t]
        BY <1>23, <2>1 DEF Identified, LoginCheck
      <3>2. PICK s \in Threads :
              /\ Identified(s)
              /\ \E u \in Named(req[s].name) :
                    owner' = [owner EXCEPT ![token'[s]] = [name |-> req[s].name, account |-> u]]
        BY <3>1 DEF Record
      <3>3. s = t
        BY <1>a, <3>1, <3>2, Mover DEF Identified, Only
      <3>4. token'[t] \in Cookies
        BY <1>a, <3>1, Identification
      <3>5. PICK u \in Named(req[t].name) :
              owner' = [owner EXCEPT ![token'[t]] = [name |-> req[t].name, account |-> u]]
        BY <3>2, <3>3
      <3>6. [name |-> req[t].name, account |-> u] \in [name : Names, account : Accounts]
        BY <1>23, <1>a, <3>5, RequestKinds DEF LoginCheck, Shape, LoggingIn, Named
      <3>7. owner'[token'[t]] = [name |-> req[t].name, account |-> u]
        BY <1>a, <3>4, <3>5 DEF Provenance, Jar
      <3>8. Granted(token[t], req[t].name)'
        BY <3>1, <3>6, <3>7, HistoryAssumption DEF Granted
      <3> QED  BY <2>1, <3>8
    <2>2. CASE pc'[t] # "drop"
      BY <1>23, <1>a, <2>2 DEF LoginCheck
    <2> QED  BY <2>1, <2>2
  <1>24. CASE Arrive(t)
    <2>1. CASE \E r \in Logins : Login(t, r)
      BY <1>24, <1>a, <2>1 DEF Login
    <2>2. CASE \E r \in Changes(Presented) \cup Visits(Presented) \cup Others(Presented) :
                 Enter(t, r)
      <3>1. PICK r \in Changes(Presented) \cup Visits(Presented) \cup Others(Presented) :
                 Enter(t, r)
        BY <2>2
      <3>2. r.cookie \in used \cup {NoCookie}
        BY DEF Changes, Visits, Others, Presented
      <3> QED  BY <1>a, <1>b, <3>1, <3>2 DEF Enter
    <2> QED  BY <1>24, <2>1, <2>2 DEF Arrive
  <1> QED
    BY <1>1, <1>2, <1>3, <1>4, <1>5, <1>6, <1>7, <1>8, <1>9, <1>10,
       <1>11, <1>12, <1>13, <1>14, <1>15, <1>16, <1>17, <1>18, <1>19, <1>20,
       <1>21, <1>22, <1>23, <1>24
       DEF Acts, Work

-----------------------------------------------------------------------------
LEMMA SessionsStep ==
    ASSUME SaltWorks, SessionsInv, HistoryNext
    PROVE  SessionsInv'
  <1>a. Next /\ Record
    BY DEF HistoryNext
  <1>b. TypeInv /\ Provenance /\ TypeInv'
    BY <1>a, TypeStep DEF SessionsInv
  <1>1. /\ owner' \in [Jar -> {Gone} \cup [name : Names, account : Accounts]]
        /\ \A c \in Jar : owner[c] # Gone => owner'[c] = owner[c]
        /\ \A c \in Jar : owner'[c] # Gone => c \in used'
    BY <1>a, LedgerGrows
  <1>2. ASSUME NEW c \in Jar, sessions'[c] \notin {Gone, NoName}
        PROVE  Granted(c, sessions[c])'
    <2>1. CASE sessions'[c] = sessions[c]
      BY <1>b, <1>1, <1>2, <2>1 DEF Provenance, Granted
    <2>2. ASSUME NEW t \in Threads, pc[t] = "store", token[t] = c, sessions'[c] = req[t].name
          PROVE  Granted(c, sessions[c])'
      <3>1. Granted(c, req[t].name)
        BY <1>b, <2>2 DEF Provenance, Sound, Admitted
      <3> QED  BY <1>1, <2>2, <3>1 DEF Granted
    <2> QED  BY <1>a, <1>b, <1>2, <2>1, <2>2, SessionsChange
  <1>3. ASSUME NEW t \in Threads PROVE Sound(t)'
    <2>1. CASE Tick
      BY <1>a, <2>1, SoundKept DEF Tick
    <2>2. ASSUME NEW s \in Threads, Acts(s) PROVE Sound(t)'
      <3>1. CASE s = t
        BY <1>a, <2>2, <3>1, SoundMove
      <3>2. CASE s # t
        BY <1>a, <1>b, <2>2, <3>2, Mover, SoundKept DEF Only
      <3> QED  BY <3>1, <3>2
    <2> QED  BY <1>a, <2>1, <2>2 DEF Next, Acts
  <1> QED  BY <1>b, <1>1, <1>2, <1>3 DEF SessionsInv, Provenance

LEMMA SessionsStart == HistoryInit => SessionsInv
  <1> SUFFICES ASSUME HistoryInit PROVE SessionsInv
    OBVIOUS
  <1>1. TypeInv
    BY TypeInit DEF HistoryInit
  <1>2. Provenance
    BY DEF HistoryInit, Init, Provenance, Sound, Asking, Changing, Resolved, Admitted
  <1> QED  BY <1>1, <1>2 DEF SessionsInv

LEMMA SessionsStutter ==
    ASSUME SessionsInv, UNCHANGED <<vars, history>>
    PROVE  SessionsInv'
  <1>1. TypeInv'
    BY TypeStep DEF SessionsInv
  <1>2. Provenance'
    BY DEF SessionsInv, Provenance, Sound, Granted, vars, history
  <1> QED  BY <1>1, <1>2 DEF SessionsInv

(* With any number of threads and accounts, and whatever statements fail:  *)
(* as long as the random source works, a request goes on as logged in only *)
(* under the username its cookie was obtained with.                        *)
THEOREM LoginRequired ==
    ASSUME SaltWorks
    PROVE  HistorySpec => []AuthenticatedByLogin
  <1>1. HistoryInit => SessionsInv
    BY SessionsStart
  <1>2. SessionsInv /\ [HistoryNext]_<<vars, history>> => SessionsInv'
    BY SessionsStep, SessionsStutter
  <1>3. SessionsInv => AuthenticatedByLogin
    BY DEF SessionsInv, Provenance, Sound, Granted, Resolved, AuthenticatedByLogin
  <1> QED  BY <1>1, <1>2, <1>3, PTL DEF HistorySpec

-----------------------------------------------------------------------------
(* A settings form that no other form has overtaken: the user it was let   *)
(* in as still has the one row it had then, and the hash it will write     *)
(* back is still the one in that row.                                      *)
Undisturbed(t) ==
    /\ pc[t] \in Forms => \E n \in Names : Granted(req[t].cookie, n) /\ Cardinality(Named(n)) = 1
    /\ pc[t] = "hash" => req[t].pass # NoPassword
    /\ pc[t] = "update" /\ req[t].pass = NoPassword
          => \/ \A u \in Named(who[t]) : secret[t] = users[u].pass
             \/ DbFails /\ secret[t] = Error

OverlapInv ==
    /\ SessionsInv
    /\ \A t \in overtaken : pc[t] \in Forms
    /\ \A t \in Threads \ overtaken : Undisturbed(t)
(* While nobody writes the table, a form's own steps keep it so.           *)
LEMMA FormMoves ==
    ASSUME SaltWorks, SessionsInv, Next, Record, NEW t \in Threads, Acts(t), Undisturbed(t),
           users' = users, pc'[t] \in Forms
    PROVE  Undisturbed(t)'
  <1>a. /\ pc \in [Threads -> Points] /\ who \in [Threads -> Names \cup {NoName}]
        /\ secret \in [Threads -> Hashes] /\ TypeInv /\ Provenance /\ Sound(t)
    BY DEF SessionsInv, TypeInv, TypeOK, Provenance
  <1>b. pc[t] \in Changing \cup {"verify"} => req[t].cookie \in Jar
    BY RequestKinds DEF SessionsInv, TypeInv, Shape, Asking
  <1>c. \A c \in Jar : \A n : Granted(c, n) => Granted(c, n)'
    BY LedgerGrows DEF Granted
  <1>d. \A n : Named(n)' = Named(n)
    BY DEF Named
  <1>1. req'[t] = req[t] /\ pc[t] \in {"verify", "orig", "avail", "oldcount", "oldpass", "hash"}
    BY <1>a DEF Acts, Arrive, Work, Login, Enter, Stamp, Sweep, Find, Who, Verify, EvictWho,
       Evict, OutWho, Out, Author, Original, Available, OldCount, OldPass, Hash, UpdateUser,
       ChangeFails, LoginCount, LoginCheck, Drop, Restamp, Store, Respond, Move, Finish, Forms
  <1>2. \E n \in Names : Granted(req[t].cookie, n)' /\ Cardinality(Named(n)') = 1
    <2>1. CASE pc[t] = "verify"
      <3>1. Verify(t) /\ Cardinality(Named(who[t])) = 1
        BY <1>a, <2>1 DEF Acts, Arrive, Work, Login, Enter, Stamp, Sweep, Find, Who, Verify,
           EvictWho, Evict, OutWho, Out, Author, Original, Available, OldCount, OldPass, Hash,
           UpdateUser, ChangeFails, LoginCount, LoginCheck, Drop, Restamp, Store, Respond,
           Move, Finish, Forms
      <3>2. who[t] # NoName
        BY <1>a, <3>1, Nobody
      <3>3. who[t] \in Names /\ Granted(req[t].cookie, who[t])
        BY <1>a, <2>1, <3>2 DEF Sound
      <3> QED  BY <1>1, <1>b, <1>c, <1>d, <2>1, <3>1, <3>3
    <2>2. CASE pc[t] # "verify"
      <3>1. PICK n \in Names : Granted(req[t].cookie, n) /\ Cardinality(Named(n)) = 1
        BY <1>1, <2>2 DEF Undisturbed, Forms
      <3> QED  BY <1>1, <1>b, <1>c, <1>d, <2>2, <3>1 DEF Changing
    <2> QED  BY <2>1, <2>2
  <1>3. pc'[t] = "hash" => req[t].pass # NoPassword
    BY <1>a DEF Acts, Arrive, Work, Login, Enter, Stamp, Sweep, Find, Who, Verify, EvictWho,
       Evict, OutWho, Out, Author, Original, Available, OldCount, OldPass, Hash, UpdateUser,
       ChangeFails, LoginCount, LoginCheck, Drop, Restamp, Store, Respond, Move, Finish
  <1>4. ASSUME pc'[t] = "update", req[t].pass = NoPassword
        PROVE  \/ \A u \in Named(who[t]) : secret'[t] = users[u].pass
               \/ DbFails /\ secret'[t] = Error
    <2>1. OldCount(t) \/ OldPass(t)
      <3>1. ~Hash(t)
        BY <1>4 DEF Hash, Move, Undisturbed
      <3> QED
        BY <1>4, <1>a, <3>1 DEF Acts, Arrive, Work, Login, Enter, Stamp, Sweep, Find, Who,
           Verify, EvictWho, Evict, OutWho, Out, Author, Original, Available, UpdateUser,
           ChangeFails, LoginCount, LoginCheck, Drop, Restamp, Store, Respond, Move, Finish
    <2>2. Named(who[t]) = {} \/ Cardinality(Named(who[t])) = 1
      <3>1. PICK n \in Names : Granted(req[t].cookie, n) /\ Cardinality(Named(n)) = 1
        BY <2>1 DEF Undisturbed, Forms, OldCount, OldPass, Move
      <3>2. who[t] = NoName \/ who[t] = n
        BY <1>a, <2>1, <3>1 DEF Sound, Granted, OldCount, OldPass, Move, Resolved
      <3>3. Named(NoName) = {}
        BY <1>a, SessionsAssumption DEF Named, TypeInv, TypeOK
      <3> QED  BY <3>1, <3>2, <3>3
    <2>3. CASE OldCount(t)
      BY <1>4, <1>a, <2>2, <2>3 DEF OldCount, Move, Keep
    <2>4. CASE OldPass(t)
      <3>1. CASE Keep(t, Stored(who[t]))
        <4>1. \A u \in Named(who[t]) : Stored(who[t]) = users[u].pass
          <5>1. CASE Named(who[t]) = {}
            BY <5>1
          <5>2. CASE Cardinality(Named(who[t])) = 1
            <6>1. PICK u : Named(who[t]) = {u}
              BY <5>2, OnlyOne
            <6>2. {users[v].pass : v \in Named(who[t])} = {users[u].pass}
              BY <6>1
            <6>3. Named(who[t]) # {} /\ ~(Cardinality(Named(who[t])) > 1)
              BY <5>2, <6>1
            <6> QED  BY <6>1, <6>2, <6>3 DEF Stored
          <5> QED  BY <2>2, <5>1, <5>2
        <4> QED  BY <1>a, <3>1, <4>1 DEF Keep
      <3>2. CASE DbFails /\ Keep(t, Error)
        BY <1>a, <3>2 DEF Keep
      <3> QED  BY <2>4, <3>1, <3>2 DEF OldPass
    <2> QED  BY <2>1, <2>3, <2>4
  <1>5. pc'[t] = "update" => who'[t] = who[t]
    BY <1>a DEF Acts, Arrive, Work, Login, Enter, Stamp, Sweep, Find, Who, Verify, EvictWho,
       Evict, OutWho, Out, Author, Original, Available, OldCount, OldPass, Hash, UpdateUser,
       ChangeFails, LoginCount, LoginCheck, Drop, Restamp, Store, Respond, Move, Finish
  <1> QED  BY <1>1, <1>2, <1>3, <1>4, <1>5, <1>d DEF Undisturbed

(* While nobody writes the table, the others' steps keep it so too.        *)
LEMMA FormWaits ==
    ASSUME SaltWorks, SessionsInv, Next, Record, NEW t \in Threads, Undisturbed(t),
           users' = users, pc'[t] = pc[t], req'[t] = req[t], who'[t] = who[t],
           secret'[t] = secret[t]
    PROVE  Undisturbed(t)'
  <1>1. pc[t] \in Forms => req[t].cookie \in Jar
    BY RequestKinds DEF SessionsInv, TypeInv, Shape, Changing, Forms
  <1>2. \A c \in Jar : \A n : Granted(c, n) => Granted(c, n)'
    BY LedgerGrows DEF Granted
  <1>3. \A n : Named(n)' = Named(n)
    BY DEF Named
  <1> QED  BY <1>1, <1>2, <1>3 DEF Undisturbed

LEMMA OverlapStep ==
    ASSUME SaltWorks, OverlapInv, [FormsNext]_<<vars, history, overtaken>>
    PROVE  OverlapInv'
  <1>1. CASE UNCHANGED <<vars, history, overtaken>>
    <2>1. SessionsInv'
      BY <1>1, SessionsStutter DEF OverlapInv
    <2>2. \A n : Named(n)' = Named(n)
      BY <1>1 DEF Named, vars
    <2>3. \A t : Undisturbed(t) => Undisturbed(t)'
      BY <1>1, <2>2 DEF Undisturbed, Granted, vars, history
    <2> QED  BY <1>1, <2>1, <2>3 DEF OverlapInv, vars
  <1>2. CASE FormsNext
    <2>1. Next /\ Record /\ Overtake /\ SessionsInv /\ TypeInv
      BY <1>2 DEF FormsNext, HistoryNext, OverlapInv, SessionsInv
    <2>2. SessionsInv'
      BY <1>2, SessionsStep DEF FormsNext, OverlapInv
    <2>3. \A t \in overtaken' : pc'[t] \in Forms
      BY <2>1 DEF Overtake
    <2>4. ASSUME NEW t \in Threads \ overtaken' PROVE Undisturbed(t)'
      <3>1. CASE pc'[t] \notin Forms
        BY <3>1 DEF Undisturbed, Forms
      <3>2. CASE pc'[t] \in Forms
        <4>1. t \notin overtaken /\ users' = users /\ Undisturbed(t)
          BY <2>1, <3>2 DEF Overtake, OverlapInv
        <4>2. CASE Tick
          BY <2>1, <4>1, <4>2, FormWaits DEF Tick
        <4>3. ASSUME NEW s \in Threads, Acts(s) PROVE Undisturbed(t)'
          <5>1. CASE s = t
            BY <2>1, <3>2, <4>1, <4>3, <5>1, FormMoves
          <5>2. CASE s # t
            BY <2>1, <4>1, <4>3, <5>2, Mover, FormWaits DEF Only
          <5> QED  BY <5>1, <5>2
        <4> QED  BY <2>1, <4>2, <4>3 DEF Next, Acts
      <3> QED  BY <3>1, <3>2
    <2> QED  BY <2>2, <2>3, <2>4 DEF OverlapInv
  <1> QED  BY <1>1, <1>2

(* With any number of threads, as long as the random source works: a form  *)
(* with an empty password field replaces a hash only when another form has *)
(* changed the table since it was let in, or by the text of a failure.     *)
THEOREM LostUpdatesNeedOverlap ==
    ASSUME SaltWorks
    PROVE  FormsSpec => LostByOverlapOnly
  <1>1. FormsInit => OverlapInv
    <2> SUFFICES ASSUME FormsInit PROVE OverlapInv
      OBVIOUS
    <2>1. SessionsInv
      BY SessionsStart DEF FormsInit
    <2>2. \A t \in Threads : Undisturbed(t)
      BY DEF FormsInit, HistoryInit, Init, Undisturbed, Forms
    <2> QED  BY <2>1, <2>2 DEF OverlapInv, FormsInit
  <1>2. OverlapInv /\ [FormsNext]_<<vars, history, overtaken>> => OverlapInv'
    BY OverlapStep
  <1>3. ASSUME OverlapInv, Next, NEW u \in Accounts, NEW t \in Threads,
               users'[u].pass # users[u].pass, pc[t] = "update", pc'[t] = "reply",
               req[t].pass = NoPassword, t \notin overtaken
        PROVE  DbFails /\ users'[u].pass = Error
    <2>1. PICK s \in Threads : UpdateUser(s)
      BY <1>3 DEF Next, Tick, Arrive, Work, Login, Enter, Stamp, Sweep, Find, Who, Verify, EvictWho,
         Evict, OutWho, Out, Author, Original, Available, OldCount, OldPass, Hash,
         ChangeFails, LoginCount, LoginCheck, Drop, Restamp, Store, Respond
    <2>2. s = t
      BY <1>3, <2>1, Mover DEF Acts, Work, Only, OverlapInv, SessionsInv
    <2>3. u \in Named(who[t]) /\ users'[u].pass = secret[t]
      BY <1>3, <2>1, <2>2 DEF UpdateUser, OverlapInv, SessionsInv, TypeInv, TypeOK
    <2>4. Undisturbed(t)
      BY <1>3 DEF OverlapInv
    <2> QED  BY <1>3, <2>3, <2>4 DEF Undisturbed
  <1>4. OverlapInv /\ [FormsNext]_<<vars, history, overtaken>> =>
           [\A u \in Accounts, t \in Threads :
               /\ users'[u].pass # users[u].pass
               /\ pc[t] = "update" /\ pc'[t] = "reply"
               /\ req[t].pass = NoPassword
               => t \in overtaken
                  \/ (DbFails /\ users'[u].pass = Error)]_<<vars, history, overtaken>>
    BY <1>3 DEF FormsNext, HistoryNext
  <1> QED  BY <1>1, <1>2, <1>4, PTL DEF FormsSpec, LostByOverlapOnly

-----------------------------------------------------------------------------
(* One thread serves every request.                                        *)
OneThread == \A s, t \in Threads : s = t

(* Every session has a username, and no two have the same.                 *)
OneEach ==
    /\ \A c \in Jar : sessions[c] # NoName
    /\ \A c, d \in Jar : sessions[c] = sessions[d] /\ sessions[c] # Gone => c = d

Entered == {"who", "verify", "evictwho", "evict", "outwho", "out", "author", "orig"}

(* The session that let a request in is still the one it was.              *)
SessionSteady(t) ==
    /\ pc[t] \in Entered => sessions[req[t].cookie] # Gone
    /\ pc[t] \in Entered \ {"who"} => who[t] = sessions[req[t].cookie]
    /\ pc[t] \in {"evictwho", "evict"} => DbFails \/ Named(who[t]) = {}
    /\ pc[t] \in {"restamp", "store"} => Held(req[t].name) = {}
    /\ pc[t] = "reply" /\ req[t].op = "logout" /\ status[t] = "{success}"
          => sessions[req[t].cookie] = Gone

(* The row a settings form is about to write is the one it asked about:    *)
(* the name is still its own or nobody's, the password the one in the row. *)
FormSteady(t) ==
    /\ pc[t] \in Changing => \E u \in Accounts : Named(who[t]) = {u}
    /\ pc[t] \in Resolved \ {"avail"} => req[t].name = who[t] \/ Named(req[t].name) = {}
    /\ pc[t] \in {"oldcount", "oldpass"} => req[t].pass = NoPassword
    /\ pc[t] = "hash" => req[t].pass # NoPassword
    /\ pc[t] = "update" /\ req[t].pass = NoPassword
          => \/ \A u \in Named(who[t]) : secret[t] = users[u].pass
             \/ DbFails /\ secret[t] = Error
    /\ pc[t] = "update" /\ req[t].pass # NoPassword => secret[t] = req[t].pass \/ ~HashWorks

SerialInv ==
    /\ TypeInv
    /\ UniqueUsernames
    /\ OneEach
    /\ \A t \in Threads : SessionSteady(t) /\ FormSteady(t)

-----------------------------------------------------------------------------
(* A username has at most one row, so the count tells whether it has one.  *)
LEMMA OneRow ==
    ASSUME UniqueUsernames, NEW n
    PROVE  /\ Named(n) = {} \/ \E u \in Accounts : Named(n) = {u}
           /\ Cardinality(Named(n)) = 1 <=> Named(n) # {}
  <1>1. \A u, v \in Named(n) : u = v /\ u \in Accounts
    BY DEF UniqueUsernames, Named
  <1>2. Named(n) = {} \/ \E u \in Accounts : Named(n) = {u}
    BY <1>1
  <1>3. ASSUME NEW u, Named(n) = {u} PROVE Cardinality(Named(n)) = 1
    BY <1>3, FS_Singleton
  <1>4. Named(n) = {} => Cardinality(Named(n)) # 1
    BY FS_EmptySet
  <1> QED  BY <1>2, <1>3, <1>4

(* Looking a session up by its cookie leaves the map as it is.             *)
LEMMA SubscriptFinds ==
    ASSUME TypeInv, NEW t \in Threads, req[t].cookie \in Jar,
           sessions[req[t].cookie] # Gone, Subscript(t)
    PROVE  /\ sessions' = sessions
           /\ who' = [who EXCEPT ![t] = sessions[req[t].cookie]]
  <1>1. sessions \in [Jar -> Names \cup {NoName, Gone}]
    BY DEF TypeInv, TypeOK
  <1> QED  BY <1>1 DEF Subscript, Know

(* Logging a user out ends the session that has the name, and no other.    *)
LEMMA LoggoutEnds ==
    ASSUME TypeInv, OneEach, NEW c \in Jar, sessions[c] # Gone, Loggout(sessions[c])
    PROVE  sessions' = [sessions EXCEPT ![c] = Gone]
  BY DEF TypeInv, TypeOK, OneEach, Loggout, Held

(* Logging a user out leaves no session with the name.                     *)
LEMMA LoggoutAll ==
    ASSUME TypeInv, OneEach, NEW n, n # Gone, Loggout(n)
    PROVE  /\ OneEach' /\ Held(n)' = {}
  <1>1. sessions \in [Jar -> Names \cup {NoName, Gone}]
    BY DEF TypeInv, TypeOK
  <1>2. CASE Held(n) = {} /\ UNCHANGED sessions
    BY <1>2 DEF OneEach, Held
  <1>3. ASSUME NEW c \in Held(n), sessions' = [sessions EXCEPT ![c] = Gone]
        PROVE  OneEach' /\ Held(n)' = {}
    <2>1. c \in Jar /\ sessions[c] = n
      BY DEF Held
    <2>2. \A d \in Jar : sessions'[d] = IF d = c THEN Gone ELSE sessions[d]
      BY <1>1, <1>3, <2>1
    <2>3. Gone # NoName
      BY SessionsAssumption
    <2> QED  BY <2>1, <2>2, <2>3 DEF OneEach, Held
  <1> QED  BY <1>2, <1>3 DEF Loggout

-----------------------------------------------------------------------------
(* Steps that leave both the users and the sessions alone.                 *)
LEMMA TablesKept ==
    ASSUME SerialInv, UNCHANGED <<users, sessions>>
    PROVE  /\ UniqueUsernames' /\ OneEach'
           /\ \A n : Named(n)' = Named(n) /\ Held(n)' = Held(n)
  BY DEF SerialInv, UniqueUsernames, OneEach, Named, Held

(* Each step of is_logged_in.                                              *)
LEMMA SerialAsking ==
    ASSUME SerialInv, NEW t \in Threads,
           \/ Stamp(t) \/ Sweep(t) \/ Find(t) \/ Who(t) \/ Verify(t) \/ EvictWho(t) \/ Evict(t)
    PROVE  UniqueUsernames' /\ OneEach' /\ SessionSteady(t)' /\ FormSteady(t)'
  <1>a. /\ pc \in [Threads -> Points] /\ who \in [Threads -> Names \cup {NoName}]
        /\ status \in [Threads -> Statuses]
        /\ sessions \in [Jar -> Names \cup {NoName, Gone}]
        /\ TypeInv /\ UniqueUsernames /\ OneEach /\ SessionSteady(t) /\ FormSteady(t)
        /\ Gone # NoName
    BY SessionsAssumption DEF SerialInv, TypeInv, TypeOK
  <1>b. pc[t] \in Asking => req[t].cookie \in Jar
    BY RequestKinds, <1>a DEF TypeInv, Shape
  <1> USE DEF Move, Finish, SessionSteady, FormSteady, Asking, Entered, Changing, Resolved
  <1>1. CASE Stamp(t)
    BY <1>1, <1>a, TablesKept DEF Stamp
  <1>2. CASE Sweep(t)
    BY <1>2, <1>a DEF Sweep, OneEach, UniqueUsernames
  <1>3. CASE Find(t)
    BY <1>3, <1>a, TablesKept DEF Find
  <1>4. CASE Who(t)
    <2>1. sessions' = sessions /\ who' = [who EXCEPT ![t] = sessions[req[t].cookie]]
      BY <1>4, <1>a, <1>b, SubscriptFinds DEF Who
    <2> QED  BY <1>4, <1>a, <2>1, TablesKept DEF Who
  <1>5. CASE Verify(t)
    <2>1. CASE Cardinality(Named(who[t])) = 1
      <3>1. \E u \in Accounts : Named(who[t]) = {u}
        BY <1>a, <2>1, OneRow
      <3>2. /\ UniqueUsernames' /\ OneEach' /\ UNCHANGED <<users, sessions, req, who>>
            /\ Named(who[t])' = Named(who[t])
        BY <1>5, TablesKept DEF Verify, Named
      <3>3. pc'[t] \in {"outwho", "orig", "author", "reply", "evictwho"}
        BY <1>5, <1>a DEF Verify
      <3>4. pc'[t] = "evictwho" => DbFails
        BY <1>5, <1>a, <2>1 DEF Verify
      <3>5. pc'[t] = "reply" => status'[t] = "page"
        BY <1>5, <1>a DEF Verify
      <3>6. pc[t] = "verify"
        BY <1>5 DEF Verify
      <3>7. SessionSteady(t)'
        BY <1>a, <3>2, <3>3, <3>4, <3>5, <3>6
      <3>8. FormSteady(t)'
        BY <3>1, <3>2, <3>3
      <3> QED  BY <3>2, <3>7, <3>8
    <2>2. CASE Cardinality(Named(who[t])) # 1
      <3>1. Named(who[t]) = {}
        BY <1>a, <2>2, OneRow
      <3> QED  BY <1>5, <1>a, <2>2, <3>1, TablesKept DEF Verify
    <2> QED  BY <2>1, <2>2
  <1>6. CASE EvictWho(t)
    <2>1. sessions' = sessions /\ who' = [who EXCEPT ![t] = sessions[req[t].cookie]]
      BY <1>6, <1>a, <1>b, SubscriptFinds DEF EvictWho
    <2> QED  BY <1>6, <1>a, <2>1, TablesKept DEF EvictWho
  <1>7. CASE Evict(t)
    <2>1. OneEach'
      BY <1>7, <1>a, LoggoutAll DEF Evict
    <2>2. UniqueUsernames'
      BY <1>7, <1>a DEF Evict, UniqueUsernames
    <2> QED  BY <1>7, <1>a, <2>1, <2>2 DEF Evict
  <1> QED  BY <1>1, <1>2, <1>3, <1>4, <1>5, <1>6, <1>7

(* Logging out and reading the author, and the end of every request.       *)
LEMMA SerialLeaving ==
    ASSUME SerialInv, NEW t \in Threads, OutWho(t) \/ Out(t) \/ Author(t) \/ Respond(t)
    PROVE  UniqueUsernames' /\ OneEach' /\ SessionSteady(t)' /\ FormSteady(t)'
  <1>a. /\ pc \in [Threads -> Points] /\ who \in [Threads -> Names \cup {NoName}]
        /\ status \in [Threads -> Statuses]
        /\ sessions \in [Jar -> Names \cup {NoName, Gone}]
        /\ TypeInv /\ UniqueUsernames /\ OneEach /\ SessionSteady(t) /\ FormSteady(t)
    BY DEF SerialInv, TypeInv, TypeOK
  <1>b. pc[t] \in {"outwho", "out", "author"} => req[t].cookie \in Jar
    BY RequestKinds, <1>a DEF TypeInv, Shape
  <1> USE DEF Move, Finish, SessionSteady, FormSteady, Entered, Changing, Resolved
  <1>1. CASE OutWho(t)
    <2>1. sessions' = sessions /\ who' = [who EXCEPT ![t] = sessions[req[t].cookie]]
      BY <1>1, <1>a, <1>b, SubscriptFinds DEF OutWho
    <2> QED  BY <1>1, <1>a, <2>1, TablesKept DEF OutWho
  <1>2. CASE Out(t)
    <2>1. OneEach' /\ sessions' = [sessions EXCEPT ![req[t].cookie] = Gone]
      BY <1>2, <1>a, <1>b, LoggoutAll, LoggoutEnds DEF Out
    <2>2. UniqueUsernames'
      BY <1>2, <1>a DEF Out, UniqueUsernames
    <2> QED  BY <1>2, <1>a, <1>b, <2>1, <2>2 DEF Out
  <1>3. CASE Author(t)
    <2>1. sessions' = sessions
      BY <1>3, <1>a, <1>b, SubscriptFinds DEF Author
    <2> QED  BY <1>3, <1>a, <2>1, TablesKept DEF Author
  <1>4. CASE Respond(t)
    BY <1>4, <1>a, TablesKept DEF Respond
  <1> QED  BY <1>1, <1>2, <1>3, <1>4

(* Each step of change_user_details.                                       *)
LEMMA SerialChanging ==
    ASSUME SerialInv, NEW t \in Threads,
           \/ Original(t) \/ Available(t) \/ OldCount(t) \/ OldPass(t) \/ Hash(t)
           \/ UpdateUser(t) \/ ChangeFails(t)
    PROVE  UniqueUsernames' /\ OneEach' /\ SessionSteady(t)' /\ FormSteady(t)'
  <1>a. /\ pc \in [Threads -> Points] /\ who \in [Threads -> Names \cup {NoName}]
        /\ status \in [Threads -> Statuses] /\ secret \in [Threads -> Hashes]
        /\ sessions \in [Jar -> Names \cup {NoName, Gone}]
        /\ users \in [Accounts -> [name : Names, pass : Hashes]]
        /\ TypeInv /\ UniqueUsernames /\ OneEach /\ SessionSteady(t) /\ FormSteady(t)
    BY DEF SerialInv, TypeInv, TypeOK
  <1>b. pc[t] \in Changing => req[t].cookie \in Jar /\ req[t].op = "change"
    BY RequestKinds, <1>a DEF TypeInv, Shape, Changes
  <1> USE DEF Move, Finish, Keep, SessionSteady, FormSteady, Entered, Changing, Resolved
  <1>1. CASE Original(t)
    <2>1. CASE req[t].name = NoName
      BY <1>1, <1>a, <2>1, TablesKept DEF Original
    <2>2. CASE req[t].name # NoName
      <3>1. sessions' = sessions /\ who' = [who EXCEPT ![t] = sessions[req[t].cookie]]
        BY <1>1, <1>a, <1>b, <2>2, SubscriptFinds DEF Original
      <3> QED  BY <1>1, <1>a, <2>2, <3>1, TablesKept DEF Original
    <2> QED  BY <2>1, <2>2
  <1>2. CASE Available(t)
    BY <1>2, <1>a, TablesKept DEF Available
  <1>3. CASE OldCount(t)
    <2>1. Cardinality(Named(who[t])) = 1
      BY <1>3, <1>a, OneRow DEF OldCount
    <2> QED  BY <1>3, <1>a, <2>1, TablesKept DEF OldCount
  <1>4. CASE OldPass(t)
    <2>1. PICK u \in Accounts : Named(who[t]) = {u}
      BY <1>4, <1>a DEF OldPass
    <2>2. Stored(who[t]) = users[u].pass
      <3>1. /\ Named(who[t]) # {} /\ Cardinality(Named(who[t])) = 1
            /\ {users[v].pass : v \in Named(who[t])} = {users[u].pass}
        BY <2>1, FS_Singleton
      <3>2. ~(Cardinality(Named(who[t])) > 1)
        BY <3>1
      <3> QED  BY <3>1, <3>2 DEF Stored
    <2>3. CASE Keep(t, Stored(who[t]))
      BY <1>4, <1>a, <2>1, <2>2, <2>3, TablesKept DEF OldPass
    <2>4. CASE DbFails /\ Keep(t, Error)
      BY <1>4, <1>a, <2>4, TablesKept DEF OldPass
    <2> QED  BY <1>4, <2>3, <2>4 DEF OldPass
  <1>5. CASE Hash(t)
    BY <1>5, <1>a, SessionsAssumption, TablesKept DEF Hash, HashWorks
  <1>6. CASE UpdateUser(t)
    <2>1. PICK u \in Accounts : Named(who[t]) = {u}
      BY <1>6, <1>a DEF UpdateUser
    <2>2. \A v \in Accounts : users'[v].name = IF v = u THEN req[t].name ELSE users[v].name
      BY <1>6, <1>a, <2>1 DEF UpdateUser
    <2>3. \A v \in Accounts : v # u => users[v].name # req[t].name
      BY <1>6, <1>a, <2>1 DEF UpdateUser, Named
    <2>4. UniqueUsernames'
      <3>1. \A v, w \in Accounts : users[v].name = users[w].name => v = w
        BY <1>a DEF UniqueUsernames
      <3>2. \A v, w \in Accounts : users'[v].name = users'[w].name => v = w
        BY <2>2, <2>3, <3>1
      <3> QED  BY <3>2 DEF UniqueUsernames
    <2>5. OneEach'
      BY <1>6, <1>a DEF UpdateUser, OneEach
    <2> QED  BY <1>6, <1>a, <1>b, <2>4, <2>5 DEF UpdateUser
  <1>7. CASE ChangeFails(t)
    BY <1>7, <1>a, TablesKept DEF ChangeFails
  <1> QED  BY <1>1, <1>2, <1>3, <1>4, <1>5, <1>6, <1>7

LEMMA NoNameIsNoName == NoName \notin Names
  BY SessionsAssumption

(* Each step of a login, and the arrival of every request.                 *)
LEMMA SerialLoggingIn ==
    ASSUME SerialInv, NEW t \in Threads,
           \/ Arrive(t) \/ LoginCount(t) \/ LoginCheck(t) \/ Drop(t) \/ Restamp(t) \/ Store(t)
    PROVE  UniqueUsernames' /\ OneEach' /\ SessionSteady(t)' /\ FormSteady(t)'
  <1>a. /\ pc \in [Threads -> Points] /\ who \in [Threads -> Names \cup {NoName}]
        /\ status \in [Threads -> Statuses]
        /\ sessions \in [Jar -> Names \cup {NoName, Gone}]
        /\ TypeInv /\ UniqueUsernames /\ OneEach /\ SessionSteady(t) /\ FormSteady(t)
    BY DEF SerialInv, TypeInv, TypeOK
  <1>b. pc[t] \in LoggingIn => req[t].name \in Names
    BY RequestKinds, <1>a DEF TypeInv, Shape
  <1> USE DEF Move, Finish, SessionSteady, FormSteady, Entered, Changing, Resolved, LoggingIn
  <1>1. CASE Arrive(t)
    <2>1. ASSUME NEW r, Login(t, r) \/ Enter(t, r)
          PROVE  UniqueUsernames' /\ OneEach' /\ SessionSteady(t)' /\ FormSteady(t)'
      BY <1>a, <2>1, TablesKept DEF Login, Enter
    <2> QED  BY <1>1, <2>1 DEF Arrive
  <1>2. CASE LoginCount(t)
    BY <1>2, <1>a, TablesKept DEF LoginCount
  <1>3. CASE LoginCheck(t)
    BY <1>3, <1>a, TablesKept DEF LoginCheck
  <1>4. CASE Drop(t)
    <2>1. req[t].name # Gone
      BY <1>4, <1>b, SessionsAssumption DEF Drop
    <2>2. OneEach' /\ Held(req[t].name)' = {}
      BY <1>4, <1>a, <2>1, LoggoutAll DEF Drop
    <2>3. UniqueUsernames'
      BY <1>4, <1>a DEF Drop, UniqueUsernames
    <2> QED  BY <1>4, <1>a, <2>2, <2>3 DEF Drop, Held
  <1>5. CASE Restamp(t)
    BY <1>5, <1>a, TablesKept DEF Restamp
  <1>6. CASE Store(t)
    <2>1. \A c \in Jar : sessions'[c] = IF c = token[t] THEN req[t].name ELSE sessions[c]
      BY <1>6, <1>a DEF Store
    <2>2. \A c \in Jar : sessions[c] # req[t].name
      BY <1>6, <1>a DEF Store, Held
    <2>3. req[t].name # NoName
      BY <1>6, <1>b, NoNameIsNoName DEF Store
    <2>4. OneEach'
      <3>1. \A c \in Jar : sessions'[c] # NoName
        BY <1>a, <2>1, <2>3 DEF OneEach
      <3>2. ASSUME NEW c \in Jar, NEW d \in Jar,
                   sessions'[c] = sessions'[d], sessions'[c] # Gone
            PROVE  c = d
        <4>1. CASE c = token[t] \/ d = token[t]
          BY <2>1, <2>2, <3>2, <4>1
        <4>2. CASE c # token[t] /\ d # token[t]
          BY <1>a, <2>1, <3>2, <4>2 DEF OneEach
        <4> QED  BY <4>1, <4>2
      <3> QED  BY <3>1, <3>2 DEF OneEach
    <2>5. UniqueUsernames'
      BY <1>6, <1>a DEF Store, UniqueUsernames
    <2> QED  BY <1>6, <1>a, <2>4, <2>5 DEF Store
  <1> QED  BY <1>1, <1>2, <1>3, <1>4, <1>5, <1>6

-----------------------------------------------------------------------------
LEMMA SerialInit == Init => SerialInv
  <1> SUFFICES ASSUME Init PROVE SerialInv
    OBVIOUS
  <1>1. TypeInv
    BY TypeInit
  <1>2. UniqueUsernames /\ OneEach
    BY SessionsAssumption DEF Init, UniqueUsernames, OneEach
  <1>3. \A t \in Threads : SessionSteady(t) /\ FormSteady(t)
    BY DEF Init, SessionSteady, FormSteady, Entered, Changing, Resolved
  <1> QED  BY <1>1, <1>2, <1>3 DEF SerialInv

LEMMA SerialStep ==
    ASSUME OneThread, SerialInv, [Next]_vars
    PROVE  SerialInv'
  <1>1. TypeInv'
    BY TypeStep DEF SerialInv
  <1>2. CASE UNCHANGED <<users, sessions, pc, req, who, secret, status>>
    <2>1. UniqueUsernames' /\ OneEach' /\ \A n : Named(n)' = Named(n) /\ Held(n)' = Held(n)
      BY <1>2, TablesKept
    <2>2. ASSUME NEW t \in Threads PROVE SessionSteady(t)' /\ FormSteady(t)'
      <3>1. SessionSteady(t) /\ FormSteady(t)
        BY DEF SerialInv
      <3>2. Named(who[t])' = Named(who[t]) /\ Named(req[t].name)' = Named(req[t].name)
        BY <1>2 DEF Named
      <3>3. Held(req[t].name)' = Held(req[t].name)
        BY <1>2 DEF Held
      <3>4. SessionSteady(t)'
        BY <1>2, <3>1, <3>2, <3>3 DEF SessionSteady
      <3>5. FormSteady(t)'
        BY <1>2, <3>1, <3>2, <3>3 DEF FormSteady
      <3> QED  BY <3>4, <3>5
    <2> QED  BY <1>1, <2>1, <2>2 DEF SerialInv
  <1>3. ASSUME NEW t \in Threads, Acts(t) PROVE SerialInv'
    <2>1. UniqueUsernames' /\ OneEach' /\ SessionSteady(t)' /\ FormSteady(t)'
      BY <1>3, SerialAsking, SerialLeaving, SerialChanging, SerialLoggingIn DEF Acts, Work
    <2>2. \A s \in Threads : s = t
      BY DEF OneThread
    <2> QED  BY <1>1, <2>1, <2>2 DEF SerialInv
  <1> QED  BY <1>2, <1>3 DEF Next, Acts, Tick, vars

(* One request at a time: two accounts never come to have one username,    *)
(* whatever the settings forms ask for and whichever statement fails.      *)
THEOREM NamesStayUnique ==
    ASSUME OneThread
    PROVE  Spec => []UniqueUsernames
  <1>1. SerialInv => UniqueUsernames
    BY DEF SerialInv
  <1> QED  BY SerialInit, SerialStep, <1>1, PTL DEF Spec

(* One request at a time: a user has at most one session, and none is      *)
(* left without a username.                                                *)
THEOREM AtMostOneSession ==
    ASSUME OneThread
    PROVE  Spec => []OneSessionPerUser
  <1>1. SerialInv => OneSessionPerUser
    <2> SUFFICES ASSUME SerialInv PROVE OneSessionPerUser
      OBVIOUS
    <2>1. ASSUME NEW n \in Names PROVE Cardinality(Held(n)) <= 1
      <3>1. n # Gone
        BY SessionsAssumption
      <3>2. Held(n) = {} \/ \E c : Held(n) = {c}
        BY <3>1 DEF SerialInv, OneEach, Held
      <3>3. Cardinality(Held(n)) \in {0, 1}
        BY <3>2, FS_EmptySet, FS_Singleton
      <3> QED  BY <3>3
    <2>2. Held(NoName) = {}
      BY DEF SerialInv, OneEach, Held
    <2> QED  BY <2>1, <2>2 DEF OneSessionPerUser
  <1> QED  BY SerialInit, SerialStep, <1>1, PTL DEF Spec

(* One request at a time: when the reader is told that he has logged out,  *)
(* the session of his cookie is gone.                                      *)
THEOREM LogoutIsEffective ==
    ASSUME OneThread
    PROVE  Spec => []LogoutEndsSession
  <1>1. SerialInv => LogoutEndsSession
    BY DEF SerialInv, SessionSteady, LogoutEndsSession
  <1> QED  BY SerialInit, SerialStep, <1>1, PTL DEF Spec

-----------------------------------------------------------------------------
(* The cookie a login is about to store has no session yet, but for the    *)
(* empty one it has when no other could be made.                           *)
Fresh(t) ==
    pc[t] \in Admitted => \/ token[t] \in used /\ sessions[token[t]] = Gone
                          \/ SaltFails /\ token[t] = NoCookie

Issued == \A c \in Jar : sessions[c] # Gone => c \in used \cup {NoCookie}

FreshInv == Issued /\ \A t \in Threads : Fresh(t)

(* A step adds a session only where a login stores its own.                *)
LEMMA OnlyLoginsAdd ==
    ASSUME SerialInv, NEW t \in Threads, Acts(t), NEW c \in Jar, sessions'[c] # Gone
    PROVE  sessions[c] # Gone \/ (Store(t) /\ c = token[t])
  <1>a. /\ sessions \in [Jar -> Names \cup {NoName, Gone}] /\ TypeInv /\ OneEach
        /\ SessionSteady(t)
    BY DEF SerialInv, TypeInv, TypeOK
  <1>b. pc[t] \in Asking \cup {"outwho", "out", "author", "orig"} => req[t].cookie \in Jar
    BY <1>a, RequestKinds DEF TypeInv, Shape, Changing
  <1> USE DEF Move, Finish
  <1>1. CASE Who(t) \/ EvictWho(t) \/ OutWho(t) \/ Author(t) \/ Original(t)
    <2>1. UNCHANGED sessions \/ Subscript(t)
      BY <1>1 DEF Who, EvictWho, OutWho, Author, Original
    <2>2. req[t].cookie \in Jar /\ sessions[req[t].cookie] # Gone
      BY <1>1, <1>a, <1>b DEF Who, EvictWho, OutWho, Author, Original, SessionSteady, Entered,
         Asking
    <2> QED  BY <1>a, <2>1, <2>2, SubscriptFinds
  <1>2. CASE Evict(t) \/ Out(t) \/ Drop(t)
    BY <1>2, <1>a DEF Evict, Out, Drop, Loggout, Held
  <1>3. CASE Store(t)
    BY <1>3, <1>a DEF Store
  <1> QED
    BY <1>1, <1>2, <1>3
       DEF Acts, Arrive, Work, Login, Enter, Stamp, Sweep, Find, Verify, Available, OldCount,
         OldPass, Hash, UpdateUser, ChangeFails, LoginCount, LoginCheck, Restamp, Respond

LEMMA FreshInit == Init => FreshInv
  BY SessionsAssumption DEF Init, FreshInv, Issued, Fresh, Admitted

LEMMA FreshStep ==
    ASSUME OneThread, SerialInv, FreshInv, [Next]_vars
    PROVE  FreshInv'
  <1>a. /\ sessions \in [Jar -> Names \cup {NoName, Gone}]
        /\ pc \in [Threads -> Points] /\ token \in [Threads -> Jar \cup {Gone}]
    BY DEF SerialInv, TypeInv, TypeOK
  <1>1. CASE UNCHANGED vars \/ Tick
    BY <1>1 DEF vars, Tick, FreshInv, Issued, Fresh
  <1>2. ASSUME NEW t \in Threads, Acts(t) PROVE FreshInv'
    <2>1. used \subseteq used'
      BY <1>2, UsedGrows DEF Next, Acts
    <2>2. Issued'
      <3> SUFFICES ASSUME NEW c \in Jar, sessions'[c] # Gone PROVE c \in used' \cup {NoCookie}
        BY DEF Issued
      <3>1. CASE sessions[c] # Gone
        BY <2>1, <3>1 DEF FreshInv, Issued
      <3>2. CASE Store(t) /\ c = token[t]
        BY <2>1, <3>2 DEF FreshInv, Fresh, Store, Finish, Move, Admitted
      <3> QED  BY <1>2, <3>1, <3>2, OnlyLoginsAdd
    <2>3. Fresh(t)'
      <3> SUFFICES ASSUME pc'[t] \in Admitted PROVE Fresh(t)'
        BY DEF Fresh
      <3>1. CASE LoginCheck(t)
        <4>1. /\ pc[t] = "check" /\ sessions' = sessions
              /\ \/ \E c \in Cookies \ used : token' = [token EXCEPT ![t] = c]
                 \/ SaltFails /\ token' = [token EXCEPT ![t] = NoCookie]
              /\ used' = used \cup ({token'[t]} \cap Cookies)
          BY <1>a, <3>1 DEF LoginCheck, Move, Finish, Admitted
        <4>2. ASSUME NEW c \in Cookies \ used, token' = [token EXCEPT ![t] = c]
              PROVE  Fresh(t)'
          <5>1. c \in Jar /\ c # NoCookie
            BY SessionsAssumption DEF Jar
          <5>2. sessions[c] = Gone
            BY <4>2, <5>1 DEF FreshInv, Issued
          <5> QED  BY <1>a, <4>1, <4>2, <5>2 DEF Fresh
        <4>3. CASE SaltFails /\ token' = [token EXCEPT ![t] = NoCookie]
          BY <1>a, <4>3 DEF Fresh
        <4> QED  BY <4>1, <4>2, <4>3
      <3>2. CASE ~LoginCheck(t)
        <4>1. /\ pc[t] \in Admitted /\ ~Store(t) /\ token'[t] = token[t]
          BY <1>2, <1>a, <3>2 DEF Acts, Arrive, Work, Login, Enter, Stamp, Sweep, Find, Who,
             Verify, EvictWho, Evict, OutWho, Out, Author, Original, Available, OldCount,
             OldPass, Hash, UpdateUser, ChangeFails, LoginCount, Drop, Restamp, Store, Respond,
             Move, Finish, Admitted
        <4>2. sessions[token[t]] = Gone /\ token[t] \in Jar => sessions'[token[t]] = Gone
          BY <1>2, <4>1, OnlyLoginsAdd
        <4>3. token[t] \in Jar
          BY <4>1 DEF SerialInv, TypeInv, Shape
        <4> QED  BY <2>1, <4>1, <4>2, <4>3 DEF FreshInv, Fresh
      <3> QED  BY <3>1, <3>2
    <2>4. \A s \in Threads : s = t
      BY DEF OneThread
    <2> QED  BY <2>2, <2>3, <2>4 DEF FreshInv
  <1> QED  BY <1>1, <1>2 DEF Next, Acts

(* The session a step changes is the one whose request it serves, the one  *)
(* of the user who logs in, or that under the empty cookie.                *)
LEMMA EndOfSession ==
    ASSUME SerialInv, FreshInv, NEW t \in Threads, Acts(t),
           NEW c \in Jar, sessions[c] # Gone, sessions'[c] # sessions[c]
    PROVE  \/ pc[t] = "sweep"
           \/ pc[t] = "out" /\ req[t].cookie = c
           \/ pc[t] = "drop" /\ req[t].name = sessions[c]
           \/ /\ pc[t] = "evict" /\ req[t].cookie = c
              /\ Named(sessions[c]) = {} \/ DbFails
           \/ /\ SaltFails /\ pc[t] = "store"
              /\ token[t] = c /\ c = NoCookie
  <1>a. /\ sessions \in [Jar -> Names \cup {NoName, Gone}] /\ TypeInv /\ OneEach
        /\ SessionSteady(t) /\ Gone # NoName
    BY SessionsAssumption DEF SerialInv, TypeInv, TypeOK
  <1>b. pc[t] \in Asking \cup {"outwho", "out", "author", "orig"} => req[t].cookie \in Jar
    BY <1>a, RequestKinds DEF TypeInv, Shape, Changing
  <1>1. \A d \in Jar : Loggout(sessions[d]) /\ sessions[d] # Gone =>
            sessions' = [sessions EXCEPT ![d] = Gone]
    BY <1>a, LoggoutEnds
  <1> USE DEF Move, Finish
  <1>2. CASE Who(t) \/ EvictWho(t) \/ OutWho(t) \/ Author(t) \/ Original(t)
    <2>1. UNCHANGED sessions \/ Subscript(t)
      BY <1>2 DEF Who, EvictWho, OutWho, Author, Original
    <2>2. req[t].cookie \in Jar /\ sessions[req[t].cookie] # Gone
      BY <1>2, <1>a, <1>b DEF Who, EvictWho, OutWho, Author, Original, SessionSteady, Entered,
         Asking
    <2> QED  BY <1>a, <2>1, <2>2, SubscriptFinds
  <1>3. CASE Evict(t)
    <2>1. /\ pc[t] = "evict" /\ who[t] = sessions[req[t].cookie] /\ Loggout(who[t])
          /\ sessions[req[t].cookie] # Gone /\ req[t].cookie \in Jar
          /\ DbFails \/ Named(who[t]) = {}
      BY <1>3, <1>a, <1>b DEF Evict, SessionSteady, Entered, Asking
    <2>2. sessions' = [sessions EXCEPT ![req[t].cookie] = Gone]
      BY <2>1, <1>1
    <2> QED  BY <1>a, <2>1, <2>2
  <1>4. CASE Out(t)
    BY <1>4, <1>a, <1>b, <1>1 DEF Out, SessionSteady, Entered
  <1>5. CASE Drop(t)
    BY <1>5, <1>a DEF Drop, Loggout, Held
  <1>6. CASE Sweep(t)
    BY <1>6 DEF Sweep
  <1>7. CASE Store(t)
    BY <1>7, <1>a DEF Store, FreshInv, Fresh, Admitted
  <1> QED
    BY <1>2, <1>3, <1>4, <1>5, <1>6, <1>7
       DEF Acts, Arrive, Work, Login, Enter, Stamp, Find, Verify, Available, OldCount,
         OldPass, Hash, UpdateUser, ChangeFails, LoginCount, LoginCheck, Restamp, Respond

(* One request at a time: a session ends, or passes to another user, by    *)
(* the sweep, its own logout, a later login of its user, a request of its  *)
(* own whose user is not found, or, under the empty cookie only and only   *)
(* where the random source fails, another login.                           *)
THEOREM SessionsEndForCause ==
    ASSUME OneThread
    PROVE  Spec => SessionsLast
  <1> DEFINE Inv == SerialInv /\ FreshInv
  <1>1. Init => Inv
    BY SerialInit, FreshInit
  <1>2. Inv /\ [Next]_vars => Inv'
    BY SerialStep, FreshStep
  <1>3. ASSUME Inv, [Next]_vars,
               NEW c \in Jar, sessions[c] # Gone, sessions'[c] # sessions[c]
        PROVE  \E t \in Threads :
                  \/ pc[t] = "sweep"
                  \/ pc[t] = "out" /\ req[t].cookie = c
                  \/ pc[t] = "drop" /\ req[t].name = sessions[c]
                  \/ /\ pc[t] = "evict" /\ req[t].cookie = c
                     /\ Named(sessions[c]) = {} \/ DbFails
                  \/ /\ SaltFails /\ pc[t] = "store"
                     /\ token[t] = c /\ c = NoCookie
    <2>1. PICK t \in Threads : Acts(t)
      BY <1>3 DEF Next, Tick, Acts, vars
    <2> QED  BY <1>3, <2>1, EndOfSession
  <1>4. Inv /\ [Next]_vars =>
           [\A c \in Jar : sessions[c] # Gone /\ sessions'[c] # sessions[c]
              => \E t \in Threads :
                    \/ pc[t] = "sweep"
                    \/ pc[t] = "out" /\ req[t].cookie = c
                    \/ pc[t] = "drop" /\ req[t].name = sessions[c]
                    \/ /\ pc[t] = "evict" /\ req[t].cookie = c
                       /\ Named(sessions[c]) = {} \/ DbFails
                    \/ /\ SaltFails /\ pc[t] = "store"
                       /\ token[t] = c /\ c = NoCookie]_vars
    BY <1>3
  <1> HIDE DEF Inv
  <1> QED  BY <1>1, <1>2, <1>4, PTL DEF Spec, SessionsLast

(* One request at a time, as long as passwords can be hashed: a stored     *)
(* hash changes to that of the password typed, and with the field left     *)
(* empty only to the text of a failure.                                    *)
THEOREM PasswordsKept ==
    ASSUME OneThread, HashWorks
    PROVE  Spec => PasswordKept
  <1>1. ASSUME SerialInv, [Next]_vars, NEW u \in Accounts, users'[u].pass # users[u].pass
        PROVE  \E t \in Threads :
                  /\ pc[t] = "update"
                  /\ IF req[t].pass = NoPassword
                     THEN DbFails /\ users'[u].pass = Error
                     ELSE users'[u].pass = req[t].pass
    <2>1. PICK t \in Threads : UpdateUser(t)
      BY <1>1 DEF Next, Tick, Arrive, Work, Login, Enter, Stamp, Sweep, Find, Who, Verify, EvictWho,
         Evict, OutWho, Out, Author, Original, Available, OldCount, OldPass, Hash,
         ChangeFails, LoginCount, LoginCheck, Drop, Restamp, Store, Respond, vars
    <2>2. FormSteady(t) /\ pc[t] = "update"
      BY <1>1, <2>1 DEF SerialInv, UpdateUser, Finish, Move
    <2>3. u \in Named(who[t]) /\ users'[u].pass = secret[t]
      BY <1>1, <2>1 DEF UpdateUser, SerialInv, TypeInv, TypeOK
    <2> QED  BY <1>1, <2>2, <2>3 DEF FormSteady
  <1>2. SerialInv /\ [Next]_vars =>
           [\A u \in Accounts : users'[u].pass # users[u].pass
              => \E t \in Threads :
                    /\ pc[t] = "update"
                    /\ IF req[t].pass = NoPassword
                       THEN DbFails /\ users'[u].pass = Error
                       ELSE users'[u].pass = req[t].pass]_vars
    BY <1>1
  <1> QED  BY SerialInit, SerialStep, <1>2, PTL DEF Spec, PasswordKept

-----------------------------------------------------------------------------
(* A session is at least as old as the stamp, which is of its login or     *)
(* later; so it has expired when the stamp has.                            *)
AgeInv ==
    /\ life \in [Jar -> 0..Expire]
    /\ \A c \in Jar : sessions[c] # Gone => life[c] >= age
    /\ \A t \in Threads :
          /\ pc[t] = "stamp" => age = Expire
          /\ pc[t] = "sweep" => \A c \in Jar : sessions[c] # Gone => life[c] = Expire
          /\ pc[t] = "store" => life[token[t]] >= age

LEMMA AgeInit == HistoryInit => AgeInv
  BY SessionsAssumption DEF HistoryInit, Init, AgeInv

LEMMA AgeStep ==
    ASSUME OneThread, SerialInv, AgeInv, [HistoryNext]_<<vars, history>>
    PROVE  AgeInv'
  <1>a. /\ age \in 0..Expire /\ pc \in [Threads -> Points] /\ Expire \in Nat
        /\ sessions \in [Jar -> Names \cup {NoName, Gone}]
        /\ token \in [Threads -> Jar \cup {Gone}]
        /\ \A t \in Threads : pc[t] \in {"restamp", "store"} => token[t] \in Jar
    BY SessionsAssumption DEF SerialInv, TypeInv, TypeOK, Shape, Admitted
  <1>b. life \in [Jar -> 0..Expire]
    BY DEF AgeInv
  <1>1. CASE UNCHANGED <<vars, history>>
    BY <1>1 DEF AgeInv, vars, history
  <1>2. CASE Tick /\ Record
    <2>1. \A c \in Jar : life'[c] = IF life[c] < Expire THEN life[c] + 1 ELSE life[c]
      BY <1>2, <1>a DEF Tick, Record
    <2>2. life' \in [Jar -> 0..Expire]
      BY <1>2, <1>a, <1>b DEF Tick, Record
    <2>3. \A c \in Jar : life[c] >= age => life'[c] >= age'
      BY <1>2, <1>a, <1>b, <2>1 DEF Tick
    <2>4. \A c \in Jar : life[c] = Expire => life'[c] = Expire
      BY <2>1, <1>a
    <2> QED  BY <1>2, <1>a, <2>2, <2>3, <2>4 DEF Tick, AgeInv
  <1>3. ASSUME NEW t \in Threads, Acts(t), Record PROVE AgeInv'
    <2>a. \A s \in Threads : s = t
      BY DEF OneThread
    <2>1. CASE Stamp(t)
      <3>1. age' = 0 /\ UNCHANGED <<sessions, token>> /\ pc[t] = "stamp" /\ pc'[t] = "sweep"
        BY <1>a, <2>1 DEF Stamp, Move
      <3>2. life' = life
        BY <1>a, <1>b, <1>3, <2>a, <3>1 DEF Record
      <3>3. \A c \in Jar : sessions[c] # Gone => life[c] = Expire
        BY <1>a, <1>b, <3>1 DEF AgeInv
      <3> QED  BY <1>a, <1>b, <2>a, <3>1, <3>2, <3>3 DEF AgeInv
    <2>2. CASE Restamp(t)
      <3>1. age' = 0 /\ UNCHANGED <<sessions, token>> /\ pc[t] = "restamp" /\ pc'[t] = "store"
        BY <1>a, <2>2 DEF Restamp, Move
      <3>2. life' \in [Jar -> 0..Expire]
        BY <1>a, <1>b, <1>3, <3>1 DEF Record
      <3> QED  BY <1>a, <2>a, <3>1, <3>2 DEF AgeInv
    <2>3. CASE ~Stamp(t) /\ ~Restamp(t)
      <3>1. age' = age /\ (pc'[t] = "store" => pc[t] = "store" /\ token'[t] = token[t])
        BY <1>a, <1>3, <2>3 DEF Acts, Arrive, Work, Login, Enter, Sweep, Find, Who, Verify,
           EvictWho, Evict, OutWho, Out, Author, Original, Available, OldCount, OldPass, Hash,
           UpdateUser, ChangeFails, LoginCount, LoginCheck, Drop, Store, Respond, Move, Finish
      <3>2. life' = life
        BY <1>a, <1>b, <1>3, <2>a, <3>1 DEF Record
      <3>3. \A c \in Jar : sessions'[c] # Gone => life[c] >= age
        <4> SUFFICES ASSUME NEW c \in Jar, sessions'[c] # Gone PROVE life[c] >= age
          OBVIOUS
        <4>1. CASE sessions[c] # Gone
          BY <4>1 DEF AgeInv
        <4>2. CASE Store(t) /\ c = token[t]
          BY <4>2 DEF AgeInv, Store, Finish, Move
        <4> QED  BY <1>3, <4>1, <4>2, OnlyLoginsAdd
      <3>4. pc'[t] = "stamp" => age = Expire
        <4>1. ASSUME NEW r, Enter(t, r), pc'[t] = "stamp" PROVE age = Expire
          BY <1>a, <4>1 DEF Enter, Move
        <4>2. ASSUME Work(t) PROVE pc'[t] # "stamp"
          BY <1>a, <2>3, <4>2 DEF Work, Sweep, Find, Who, Verify, EvictWho, Evict, OutWho, Out,
             Author, Original, Available, OldCount, OldPass, Hash, UpdateUser, ChangeFails,
             LoginCount, LoginCheck, Drop, Store, Respond, Move, Finish
        <4>3. ASSUME NEW r, Login(t, r) PROVE pc'[t] # "stamp"
          BY <1>a, <4>3 DEF Login, Move
        <4> QED  BY <1>3, <4>1, <4>2, <4>3 DEF Acts, Arrive
      <3>5. pc'[t] # "sweep"
        BY <1>a, <1>3, <2>3 DEF Acts, Arrive, Work, Login, Enter, Sweep, Find, Who, Verify,
           EvictWho, Evict, OutWho, Out, Author, Original, Available, OldCount, OldPass, Hash,
           UpdateUser, ChangeFails, LoginCount, LoginCheck, Drop, Store, Respond, Move, Finish
      <3> QED  BY <1>a, <1>b, <2>a, <3>1, <3>2, <3>3, <3>4, <3>5 DEF AgeInv
    <2> QED  BY <2>1, <2>2, <2>3
  <1> QED  BY <1>1, <1>2, <1>3 DEF HistoryNext, Next, Acts

(* One request at a time: the sweep of is_logged_in removes no session     *)
(* younger than SESSIONEXPIRETIME.                                         *)
THEOREM SweepsOnlyExpired ==
    ASSUME OneThread
    PROVE  HistorySpec => SweptAreExpired
  <1> DEFINE Inv == SerialInv /\ AgeInv
  <1>1. HistoryInit => Inv
    BY SerialInit, AgeInit DEF HistoryInit
  <1>2. Inv /\ [HistoryNext]_<<vars, history>> => Inv'
    <2> SUFFICES ASSUME Inv, [HistoryNext]_<<vars, history>> PROVE Inv'
      OBVIOUS
    <2>1. [Next]_vars
      BY DEF HistoryNext
    <2> QED  BY <2>1, SerialStep, AgeStep
  <1>3. Inv => [\A t \in Threads : pc[t] = "sweep" /\ pc'[t] = "find"
                  => \A c \in Jar : sessions[c] # Gone => life[c] = Expire]_<<vars, history>>
    BY DEF AgeInv
  <1> HIDE DEF Inv
  <1> QED  BY <1>1, <1>2, <1>3, PTL DEF HistorySpec, SweptAreExpired
=============================================================================
