--------------------------------- MODULE Libraries ---------------------------------
(***************************************************************************)
(* The two libraries whose calls LightBlog makes itself and whose promises *)
(* hold for every size: the statements of sqlite_modern_cpp, and the line  *)
(* libscrypt keeps of a password.                                          *)
(***************************************************************************)
EXTENDS Integers

CONSTANTS Params, RowCounts, MaxCalls,                   \* of Statement
          Passwords, Ns, Rs, Ps, Width, Field, SafeN     \* of PasswordHash

VARIABLES
    single, phase, inx, used, vm, bound, flight, value, outcome, last, calls, runs, done, seen,
    total, passphrase, N, r, p, pc, caller, held, unmapped, hashbuf, saltbuf, line, input, verdict

statement == <<single, phase, inx, used, vm, bound, flight, value, outcome, last, calls, runs,
               done, seen, total>>
hash      == <<passphrase, N, r, p, pc, caller, held, unmapped, hashbuf, saltbuf, line, input,
               verdict>>

(* A statement of a handler, and what becomes of a password.              *)
Statement == INSTANCE Statement WITH Rows <- RowCounts, result <- outcome
Hash      == INSTANCE PasswordHash WITH salt <- saltbuf

ASSUME LibrariesAssumption ==
    Statement!StatementAssumption /\ Hash!PasswordHashAssumption

-----------------------------------------------------------------------------
(* A statement runs with all of its own parameters, to the end, exactly as *)
(* often as the handler asked, and hands over every row, or the handler is *)
(* sent an exception.                                                      *)
StatementsRun == Statement!StatementsRun

(* Who goes on after taking the value of a count has it, and is told of    *)
(* every execution that failed.                                            *)
FailuresTold == Statement!FailuresTold

(* A password passes the check against a line if the line was made of it,  *)
(* and only then, unless memory runs out; none is held after a call.       *)
OnlyOwnPassword ==
    Hash!OnlyOwnPassword /\ Hash!LineUsable /\ Hash!LineSane /\ Hash!NothingHeld
=============================================================================
