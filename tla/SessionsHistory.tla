---------------------------- MODULE SessionsHistory ----------------------------
(***************************************************************************)
(* Sessions with two history variables, which no step of the program       *)
(* reads: who logged in to get a cookie, and how long ago.                 *)
(***************************************************************************)
EXTENDS Sessions

VARIABLES owner,   \* cookie -> the login that got it, [name, account], or Gone
          life     \* cookie -> time since create_session stamped "past" for it

history == <<owner, life>>

ASSUME HistoryAssumption == Gone \notin [name : Names, account : Accounts]

Identified(t) == pc[t] = "check" /\ pc'[t] = "drop"

Record ==
    /\ \/ /\ \A t \in Threads : ~Identified(t)
          /\ UNCHANGED owner
       \/ \E t \in Threads :
              /\ Identified(t)
              /\ \E u \in Named(req[t].name) :
                    /\ users[u].pass = req[t].pass
                    /\ owner' = [owner EXCEPT ![token'[t]] =
                                      [name |-> req[t].name, account |-> u]]
    /\ life' = [c \in Jar |->
                  IF \E t \in Threads : /\ pc[t] = "restamp" /\ pc'[t] = "store"
                                        /\ token[t] = c
                  THEN 0
                  ELSE IF age' > age /\ life[c] < Expire THEN life[c] + 1 ELSE life[c]]

HistoryInit == Init /\ owner = [c \in Jar |-> Gone] /\ life = [c \in Jar |-> 0]
HistoryNext == Next /\ Record
HistorySpec == HistoryInit /\ [][HistoryNext]_<<vars, history>>

-----------------------------------------------------------------------------
(* A request goes on as logged in only under the username with which its   *)
(* own cookie was obtained by a login.  The entries with an empty username *)
(* that sessions[cookie] leaves when the session went meanwhile never let  *)
(* a request through, and a request without a cookie is never let through. *)
AuthenticatedByLogin ==
    \A t \in Threads :
        /\ pc[t] \in {"outwho", "author", "orig"}
               => owner[req[t].cookie] # Gone /\ who[t] = owner[req[t].cookie].name
        /\ pc[t] \in {"out", "avail", "oldcount", "oldpass", "hash", "update"}
               => who[t] \in {NoName, owner[req[t].cookie].name}

(* The sweep of is_logged_in removes only sessions that are as old as      *)
(* SESSIONEXPIRETIME.                                                      *)
SweptAreExpired ==
    [][\A t \in Threads : pc[t] = "sweep" /\ pc'[t] = "find"
          => \A c \in Jar : sessions[c] # Gone => life[c] = Expire]_<<vars, history>>

(* A settings form changes the account that logged in to send it, "our     *)
(* original username".                                                     *)
OwnAccountOnly ==
    [][\A u \in Accounts : users'[u] # users[u]
          => \E t \in Threads : /\ pc[t] = "update" /\ pc'[t] = "reply"
                                /\ owner[req[t].cookie].account = u]_<<vars, history>>
=============================================================================
