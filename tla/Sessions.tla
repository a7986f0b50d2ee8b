-------------------------------- MODULE Sessions -------------------------------
(***************************************************************************)
(* The users table and BlogSystem::sessions, the map from session cookie   *)
(* to username.                                                            *)
(*                                                                         *)
(* POST /login and POST /change run on detached threads, logging out and   *)
(* posting on the io_service threads, all over one map and one "past" that *)
(* no lock protects; each access to them and each SQL statement is a step. *)
(* A thread that is both in Io and in Workers stands for requests that     *)
(* come one at a time.                                                     *)
(*                                                                         *)
(* Abstracted: a scrypt hash is the password it was made from; nicknames   *)
(* and page contents are left out; cookies are members of Cookies, each    *)
(* given out once (a bound on the logins); time is the age of "past", in   *)
(* units of SESSIONEXPIRETIME / Expire seconds, and stops counting there.  *)
(***************************************************************************)
EXTENDS Naturals, FiniteSets

CONSTANTS Io,        \* threads of the io_service
          Workers,   \* detached threads
          Accounts,  \* rows of the users table: nothing adds or removes one
          Names,     \* usernames
          Passwords,
          Cookies,   \* what generate_salt(32) can return
          Expire,    \* SESSIONEXPIRETIME
          DbFails,   \* a statement may throw
          SaltFails, \* /dev/urandom may be unreadable when a cookie is made
          HashFails, \* hash_password may fail, for want of a salt or of memory
          NoName,    \* the empty string as a username
          NoPassword,\* the empty string as a password
          NoCookie,  \* the empty string as a cookie
          Gone,      \* no entry in the map
          Error,     \* the texts get_user_info returns instead of a hash
          Junk       \* neither a hash nor one of those texts

VARIABLES users,     \* account -> [name, pass]
          sessions,  \* cookie -> username
          age,       \* time since "past"
          used,      \* cookies generated so far
          pc, req,   \* per thread: the next step, the request in hand
          who,       \* per thread: the username the handler holds
          secret,    \* per thread: the hash change_user_details will store
          token,     \* per thread: the cookie create_session generated
          status     \* per thread: the kind of answer

vars == <<users, sessions, age, used, pc, req, who, secret, token, status>>

Threads == Io \cup Workers
Jar == Cookies \cup {NoCookie}
Hashes == Passwords \cup {NoPassword, Error, Junk}

Logins      == [op : {"login"}, name : Names, pass : Passwords]
Changes(cs) == [op : {"change"}, cookie : cs, name : Names \cup {NoName},
                pass : Passwords \cup {NoPassword}]
Visits(cs)  == [op : {"visit"}, cookie : cs]    \* handlers that only ask is_logged_in
Others(cs)  == [op : {"logout", "post"}, cookie : cs]
NoRequest == [op |-> "none"]

Points == {"idle", "stamp", "sweep", "find", "who", "verify", "evictwho", "evict",
           "outwho", "out", "author", "orig", "avail", "oldcount", "oldpass",
           "hash", "update", "count", "check", "drop", "restamp", "store", "reply"}
Statuses == {"none", "page", "wrong", "{nologin}", "{success}", "{fields_error}",
             "{username_taken_error}", "{server_error}"}

ASSUME SessionsAssumption ==
    /\ IsFiniteSet(Accounts)
    /\ Expire \in Nat \ {0} /\ {DbFails, SaltFails, HashFails} \subseteq BOOLEAN
    /\ NoName \notin Names /\ NoCookie \notin Cookies
    /\ Gone \notin Names \cup {NoName}
    /\ Gone \notin Cookies \cup {NoCookie}
    /\ Cardinality({NoPassword, Error, Junk}) = 3
    /\ {NoPassword, Error, Junk} \cap Passwords = {}

-----------------------------------------------------------------------------
Named(n)   == {u \in Accounts : users[u].name = n}
Held(n)    == {c \in Jar : sessions[c] = n}
Waiting    == {t \in Threads : req[t].op = "login" /\ token[t] = Gone}
(* Cookies a browser has: a token still in the handler is not out yet.     *)
Presented  == {c \in used : \A t \in Threads : token[t] # c} \cup {NoCookie}

Init ==
    /\ users \in [Accounts -> [name : Names, pass : Passwords]]
    /\ \A u, v \in Accounts : users[u].name = users[v].name => u = v
    /\ sessions = [c \in Jar |-> Gone]
    /\ age = Expire
    /\ used = {}
    /\ pc = [t \in Threads |-> "idle"]
    /\ req = [t \in Threads |-> NoRequest]
    /\ who = [t \in Threads |-> NoName]
    /\ secret = [t \in Threads |-> NoPassword]
    /\ token = [t \in Threads |-> Gone]
    /\ status = [t \in Threads |-> "none"]

Move(t, from, to) == pc[t] = from /\ pc' = [pc EXCEPT ![t] = to]
Finish(t, from, s) == Move(t, from, "reply") /\ status' = [status EXCEPT ![t] = s]
Know(t, n)        == who' = [who EXCEPT ![t] = n]
Keep(t, h)        == secret' = [secret EXCEPT ![t] = h]

(* sessions[cookie]: reads the entry, inserting "" when there is none.     *)
Subscript(t) ==
    LET c == req[t].cookie
        n == IF sessions[c] = Gone THEN NoName ELSE sessions[c]
    IN  sessions' = [sessions EXCEPT ![c] = n] /\ Know(t, n)

(* loggout(n): removes the first entry with this username, first in the    *)
(* order of the cookies' characters, which are random.                     *)
Loggout(n) ==
    \/ Held(n) = {} /\ UNCHANGED sessions
    \/ \E c \in Held(n) : sessions' = [sessions EXCEPT ![c] = Gone]

Tick ==
    /\ age < Expire /\ age' = age + 1
    /\ UNCHANGED <<users, sessions, used, pc, req, who, secret, token, status>>

Respond(t) ==
    /\ Move(t, "reply", "idle")
    /\ req' = [req EXCEPT ![t] = NoRequest]
    /\ Know(t, NoName) /\ Keep(t, NoPassword)
    /\ token' = [token EXCEPT ![t] = Gone]
    /\ status' = [status EXCEPT ![t] = "none"]
    /\ UNCHANGED <<users, sessions, age, used>>

-----------------------------------------------------------------------------
(* is_logged_in.                                                           *)

Enter(t, r) ==
    /\ Move(t, "idle", IF age >= Expire THEN "stamp" ELSE "find")
    /\ req' = [req EXCEPT ![t] = r]
    /\ UNCHANGED <<users, sessions, age, used, who, secret, token, status>>

Stamp(t) ==
    /\ Move(t, "stamp", "sweep")
    /\ age' = 0
    /\ UNCHANGED <<users, sessions, used, req, who, secret, token, status>>

Sweep(t) ==
    /\ Move(t, "sweep", "find")
    /\ sessions' = [c \in Jar |-> Gone]
    /\ UNCHANGED <<users, age, used, req, who, secret, token, status>>

Find(t) ==
    /\ pc[t] = "find"
    /\ \/ sessions[req[t].cookie] # Gone /\ Move(t, "find", "who") /\ UNCHANGED status
       \/ sessions[req[t].cookie] = Gone /\ Finish(t, "find", "{nologin}")
    /\ UNCHANGED <<users, sessions, age, used, req, who, secret, token>>

Who(t) ==
    /\ Move(t, "who", "verify") /\ Subscript(t)
    /\ UNCHANGED <<users, age, used, req, secret, token, status>>

(* get_user_id: a statement that throws counts as "no such user".          *)
Verify(t) ==
    /\ \/ /\ Cardinality(Named(who[t])) = 1
          /\ \/ req[t].op = "logout" /\ Move(t, "verify", "outwho") /\ UNCHANGED status
             \/ req[t].op = "change" /\ Move(t, "verify", "orig") /\ UNCHANGED status
             \/ req[t].op = "post" /\ Move(t, "verify", "author") /\ UNCHANGED status
             \/ req[t].op = "visit" /\ Finish(t, "verify", "page")
       \/ /\ Cardinality(Named(who[t])) # 1 \/ DbFails
          /\ Move(t, "verify", "evictwho") /\ UNCHANGED status
    /\ UNCHANGED <<users, sessions, age, used, req, who, secret, token>>

EvictWho(t) ==
    /\ Move(t, "evictwho", "evict") /\ Subscript(t)
    /\ UNCHANGED <<users, age, used, req, secret, token, status>>

Evict(t) ==
    /\ Finish(t, "evict", "{nologin}") /\ Loggout(who[t])
    /\ UNCHANGED <<users, age, used, req, who, secret, token>>

-----------------------------------------------------------------------------
(* Logging out, and reading the author of a post.                          *)

OutWho(t) ==
    /\ Move(t, "outwho", "out") /\ Subscript(t)
    /\ UNCHANGED <<users, age, used, req, secret, token, status>>

Out(t) ==
    /\ Finish(t, "out", "{success}") /\ Loggout(who[t])
    /\ UNCHANGED <<users, age, used, req, who, secret, token>>

(* process_edit_post reads sessions[cookie] twice; the second read leaves  *)
(* what a later first one would.                                           *)
Author(t) ==
    /\ Finish(t, "author", "page") /\ Subscript(t)
    /\ UNCHANGED <<users, age, used, req, secret, token>>

-----------------------------------------------------------------------------
(* change_user_details.                                                    *)

(* Mutant: an empty username is let through.                               *)
OriginalUnguarded(t) ==
    /\ Move(t, "orig", "avail") /\ Subscript(t)
    /\ UNCHANGED <<users, age, used, req, secret, token, status>>

Original(t) ==
    /\ pc[t] = "orig"
    /\ \/ /\ req[t].name = NoName
          /\ Finish(t, "orig", "{fields_error}") /\ UNCHANGED <<sessions, who>>
       \/ /\ req[t].name # NoName
          /\ Move(t, "orig", "avail") /\ Subscript(t) /\ UNCHANGED status
    /\ UNCHANGED <<users, age, used, req, secret, token>>

(* Mutants: no look at the other names; an empty password is hashed.       *)
AvailableUnchecked(t) ==
    /\ Move(t, "avail", IF req[t].pass = NoPassword THEN "oldcount" ELSE "hash")
    /\ UNCHANGED <<users, sessions, age, used, req, who, secret, token, status>>

AvailableHashAll(t) ==
    /\ pc[t] = "avail"
    /\ \/ /\ req[t].name = who[t] \/ Named(req[t].name) = {}
          /\ Move(t, "avail", "hash") /\ UNCHANGED status
       \/ /\ req[t].name # who[t] /\ Named(req[t].name) # {}
          /\ Finish(t, "avail", "{username_taken_error}")
    /\ UNCHANGED <<users, sessions, age, used, req, who, secret, token>>

Available(t) ==
    /\ pc[t] = "avail"
    /\ \/ /\ req[t].name = who[t] \/ Named(req[t].name) = {}
          /\ Move(t, "avail", IF req[t].pass = NoPassword THEN "oldcount" ELSE "hash")
          /\ UNCHANGED status
       \/ /\ req[t].name # who[t] /\ Named(req[t].name) # {}
          /\ Finish(t, "avail", "{username_taken_error}")
    /\ UNCHANGED <<users, sessions, age, used, req, who, secret, token>>

(* get_user_info, in two statements; a failure is returned as a text.      *)
OldCount(t) ==
    /\ \/ /\ Cardinality(Named(who[t])) = 1
          /\ Move(t, "oldcount", "oldpass") /\ UNCHANGED secret
       \/ /\ Cardinality(Named(who[t])) # 1 \/ DbFails
          /\ Move(t, "oldcount", "update") /\ Keep(t, Error)
    /\ UNCHANGED <<users, sessions, age, used, req, who, token, status>>

(* Rows that went or doubled since the count give "" or two hashes in one. *)
Stored(n) ==
    LET found == {users[u].pass : u \in Named(n)}
    IN  IF Named(n) = {} THEN NoPassword
        ELSE IF Cardinality(Named(n)) > 1 THEN Junk
        ELSE CHOOSE h \in found : TRUE

OldPass(t) ==
    /\ Move(t, "oldpass", "update")
    /\ Keep(t, Stored(who[t])) \/ (DbFails /\ Keep(t, Error))
    /\ UNCHANGED <<users, sessions, age, used, req, who, token, status>>

(* The result of hash_password is not looked at: without a salt, or when   *)
(* scrypt fails, the buffer stays uninitialised and may hold anything, the *)
(* remains of an earlier hash too.                                         *)
Hash(t) ==
    /\ Move(t, "hash", "update")
    /\ \/ Keep(t, req[t].pass)
       \/ HashFails /\ \E h \in Hashes : Keep(t, h)
    /\ UNCHANGED <<users, sessions, age, used, req, who, token, status>>

UpdateUser(t) ==
    /\ Finish(t, "update", "{success}")
    /\ users' = [u \in Accounts |->
                   IF u \in Named(who[t]) THEN [name |-> req[t].name, pass |-> secret[t]]
                   ELSE users[u]]
    /\ UNCHANGED <<sessions, age, used, req, who, secret, token>>

ChangeFails(t) ==
    /\ DbFails
    /\ Finish(t, "update", "{server_error}")
       \/ (req[t].op = "change" /\ req[t].name # who[t] /\ Finish(t, "avail", "{server_error}"))
    /\ UNCHANGED <<users, sessions, age, used, req, who, secret, token>>

-----------------------------------------------------------------------------
(* process_login, then create_session.                                     *)

Login(t, r) ==
    /\ Cardinality(Waiting) < Cardinality(Cookies \ used)   \* bound
    /\ Move(t, "idle", "count")
    /\ req' = [req EXCEPT ![t] = r]
    /\ UNCHANGED <<users, sessions, age, used, who, secret, token, status>>

LoginCount(t) ==
    /\ pc[t] = "count"
    /\ \/ /\ Cardinality(Named(req[t].name)) = 1
          /\ Move(t, "count", "check") /\ UNCHANGED status
       \/ /\ Cardinality(Named(req[t].name)) # 1 \/ DbFails
          /\ Finish(t, "count", "wrong")
    /\ UNCHANGED <<users, sessions, age, used, req, who, secret, token>>

(* Of several rows of the username the last one read decides, and no order *)
(* is asked for; where libscrypt_check fails the password is wrong.        *)
LoginCheck(t) ==
    /\ pc[t] = "check"
    /\ \/ /\ \E u \in Named(req[t].name) : users[u].pass = req[t].pass
          /\ Move(t, "check", "drop") /\ UNCHANGED status
          /\ \/ \E c \in Cookies \ used : token' = [token EXCEPT ![t] = c]
             \/ SaltFails /\ token' = [token EXCEPT ![t] = NoCookie]
       \/ /\ \/ Named(req[t].name) = {} \/ DbFails \/ HashFails
             \/ \E u \in Named(req[t].name) : users[u].pass # req[t].pass
          /\ Finish(t, "check", "wrong") /\ UNCHANGED token
    /\ used' = used \cup ({token'[t]} \cap Cookies)
    /\ UNCHANGED <<users, sessions, age, req, who, secret>>

(* Mutants: the previous session stays; everybody's sessions go.           *)
DropNothing(t) ==
    /\ Move(t, "drop", "restamp")
    /\ UNCHANGED <<users, sessions, age, used, req, who, secret, token, status>>

DropEverybody(t) ==
    /\ Move(t, "drop", "restamp")
    /\ sessions' = [c \in Jar |-> Gone]
    /\ UNCHANGED <<users, age, used, req, who, secret, token, status>>

Drop(t) ==
    /\ Move(t, "drop", "restamp") /\ Loggout(req[t].name)
    /\ UNCHANGED <<users, age, used, req, who, secret, token, status>>

(* Mutant: a login does not restart the clock.                             *)
RestampNot(t) ==
    /\ Move(t, "restamp", "store")
    /\ UNCHANGED <<users, sessions, age, used, req, who, secret, token, status>>

Restamp(t) ==
    /\ Move(t, "restamp", "store")
    /\ age' = 0
    /\ UNCHANGED <<users, sessions, used, req, who, secret, token, status>>

(* Mutant: the cookie is stored in place of the username.                  *)
StoreCookie(t) ==
    /\ Finish(t, "store", "page")
    /\ sessions' = [sessions EXCEPT ![token[t]] = token[t]]
    /\ UNCHANGED <<users, age, used, req, who, secret, token>>

Store(t) ==
    /\ Finish(t, "store", "page")
    /\ sessions' = [sessions EXCEPT ![token[t]] = req[t].name]
    /\ UNCHANGED <<users, age, used, req, who, secret, token>>

-----------------------------------------------------------------------------
Arrive(t) ==
    \/ t \in Workers /\ \E r \in Logins : Login(t, r)
    \/ t \in Workers /\ \E r \in Changes(Presented) \cup Visits(Presented) : Enter(t, r)
    \/ t \in Io /\ \E r \in Others(Presented) \cup Visits(Presented) : Enter(t, r)

Work(t) ==
    \/ Stamp(t) \/ Sweep(t) \/ Find(t) \/ Who(t) \/ Verify(t) \/ EvictWho(t) \/ Evict(t)
    \/ OutWho(t) \/ Out(t) \/ Author(t)
    \/ Original(t) \/ Available(t) \/ OldCount(t) \/ OldPass(t) \/ Hash(t)
    \/ UpdateUser(t) \/ ChangeFails(t)
    \/ LoginCount(t) \/ LoginCheck(t) \/ Drop(t) \/ Restamp(t) \/ Store(t)
    \/ Respond(t)

Next == Tick \/ \E t \in Threads : Arrive(t) \/ Work(t)

Spec == Init /\ [][Next]_vars

-----------------------------------------------------------------------------
TypeOK ==
    /\ users \in [Accounts -> [name : Names, pass : Hashes]]
    /\ sessions \in [Jar -> Names \cup {NoName, Gone}]
    /\ age \in 0..Expire
    /\ used \subseteq Cookies
    /\ pc \in [Threads -> Points]
    /\ req \in [Threads -> Logins \cup Changes(Jar) \cup Visits(Jar) \cup Others(Jar)
                              \cup {NoRequest}]
    /\ who \in [Threads -> Names \cup {NoName}]
    /\ secret \in [Threads -> Hashes]
    /\ token \in [Threads -> Jar \cup {Gone}]
    /\ status \in [Threads -> Statuses]

(* No two accounts have one username: change_user_details looks whether    *)
(* the name is available before it updates the row, and the column is not  *)
(* UNIQUE.  With a duplicate the count of either username is not 1, so     *)
(* neither can log in again.                                               *)
UniqueUsernames ==
    \A u, v \in Accounts : users[u].name = users[v].name => u = v

(* A user has one session: create_session drops the previous one.  And no  *)
(* entry with an empty username is left behind by sessions[cookie], which  *)
(* inserts one when it meets a cookie that has gone.                       *)
OneSessionPerUser ==
    /\ \A n \in Names : Cardinality(Held(n)) <= 1
    /\ Held(NoName) = {}

(* "You've logged out successfully" means that the cookie's session, and   *)
(* not another session of the same user, is gone.                          *)
LogoutEndsSession ==
    \A t \in Threads :
        pc[t] = "reply" /\ req[t].op = "logout" /\ status[t] = "{success}"
            => sessions[req[t].cookie] = Gone

(* A session ends, or passes to another user, for one of these causes: the *)
(* sweep; its own logout; a later login of its user; a request made with   *)
(* it by a user who has no account any more (after a change of username)   *)
(* or whose name could not be looked up; and, when no cookie could be made *)
(* for it, another login that is stored under the empty one.               *)
SessionsLast ==
    [][\A c \in Jar : sessions[c] # Gone /\ sessions'[c] # sessions[c]
          => \E t \in Threads :
                \/ pc[t] = "sweep"
                \/ pc[t] = "out" /\ req[t].cookie = c
                \/ pc[t] = "drop" /\ req[t].name = sessions[c]
                \/ /\ pc[t] = "evict" /\ req[t].cookie = c
                   /\ Named(sessions[c]) = {} \/ DbFails
                \/ /\ SaltFails /\ pc[t] = "store"
                   /\ token[t] = c /\ c = NoCookie]_vars

(* As long as passwords can be hashed, a stored hash is replaced only by   *)
(* the settings form: by the hash of the password typed, and with the      *)
(* field left empty by nothing but the text of a get_user_info that failed.*)
PasswordKept ==
    [][\A u \in Accounts : users'[u].pass # users[u].pass
          => \E t \in Threads :
                /\ pc[t] = "update"
                /\ IF req[t].pass = NoPassword
                   THEN DbFails /\ users'[u].pass = Error
                   ELSE users'[u].pass = req[t].pass]_vars

(* The stored hash changes only to the one of the password typed into the  *)
(* settings form; a form with the password field left empty keeps it.      *)
PasswordChangesOnRequest ==
    [][\A u \in Accounts :
          users'[u].pass # users[u].pass
              => \E t \in Threads : /\ pc[t] = "update"
                                    /\ req[t].pass \in Passwords
                                    /\ users'[u].pass = req[t].pass]_vars
=============================================================================
