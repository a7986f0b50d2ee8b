----------------------------- MODULE SessionsForms -----------------------------
(***************************************************************************)
(* SessionsHistory with one more history variable: the settings forms that *)
(* another form has overtaken since they were let in.                      *)
(***************************************************************************)
EXTENDS SessionsHistory

VARIABLE overtaken

Forms == {"orig", "avail", "oldcount", "oldpass", "hash", "update"}

Overtake ==
    overtaken' = {t \in Threads : pc'[t] \in Forms /\ (t \in overtaken \/ users' # users)}

FormsInit == HistoryInit /\ overtaken = {}
FormsNext == HistoryNext /\ Overtake
FormsSpec == FormsInit /\ [][FormsNext]_<<vars, history, overtaken>>

-----------------------------------------------------------------------------
(* A form whose password field is empty writes back the hash it read, in a *)
(* later statement.  It replaces a hash only when another form has changed *)
(* the table since (the lost update change_user_details allows), or when a *)
(* failure of get_user_info is stored as if it were the hash.              *)
LostByOverlapOnly ==
    [][\A u \in Accounts, t \in Threads :
          /\ users'[u].pass # users[u].pass
          /\ pc[t] = "update" /\ pc'[t] = "reply"
          /\ req[t].pass = NoPassword
          => t \in overtaken \/ (DbFails /\ users'[u].pass = Error)]_<<vars, history, overtaken>>
=============================================================================
