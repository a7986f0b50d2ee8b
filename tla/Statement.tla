-------------------------------- MODULE Statement --------------------------------
(***************************************************************************)
(* A prepared statement of sqlite_modern_cpp: database_binder, as the      *)
(* handlers of LightBlog use it.                                           *)
(*                                                                         *)
(* A handler opens the database, prepares a statement, binds its           *)
(* parameters in order and then extracts one value (operator >> with a     *)
(* variable), extracts rows (>> with a function), calls execute, or does   *)
(* none of these and leaves it to the destructor.  Whatever throws leaves  *)
(* the function: the binder is destroyed on the way to the catch block.    *)
(*                                                                         *)
(* A call of the binder is one step; sqlite3_step answers ROW, DONE or an  *)
(* error as the database will have it.  After DONE or an error the next    *)
(* sqlite3_step starts the statement again.                                *)
(***************************************************************************)
EXTENDS Naturals

CONSTANTS Params,    \* number of ? in the statement
          Rows,      \* how many rows an execution may return
          MaxCalls   \* bound: how often a handler executes one statement

VARIABLES single,    \* the statement is a count, which has just one row
          phase,     \* "none", "open" database, "live" binder
          inx, used, \* _inx and execution_started
          vm, bound, \* the sqlite3_stmt: where it stands, parameters it has
          flight,    \* std::uncaught_exception()
          value,     \* the variable of the last >>: "unset" or "set"
          result,    \* how the handler ended: "none", "returned", "caught"
          last,      \* history: the kind of the last execution
          calls, runs, done, \* history: executions asked for, begun, completed
          seen, total        \* history: rows handed over, rows there were

binder  == <<inx, used, bound>>
history == <<last, calls, runs, done, seen, total>>
vars    == <<single, phase, binder, vm, flight, value, result, history>>

StatementAssumption ==
    Params \in Nat /\ Rows \subseteq Nat /\ Rows # {} /\ MaxCalls \in Nat \ {0}

Init ==
    /\ single \in BOOLEAN
    /\ phase = "none" /\ inx = 0 /\ used = FALSE /\ vm = "reset" /\ bound = {}
    /\ flight = FALSE /\ value = "unset" /\ result = "none"
    /\ last = "none" /\ calls = 0 /\ runs = 0 /\ done = 0 /\ seen = 0 /\ total = 0

(* How many rows an execution finds.                                       *)
Answers == IF single THEN {1} ELSE Rows

Throw  == flight' = TRUE
Return == UNCHANGED flight

-----------------------------------------------------------------------------
(* The constructor of database; throw_sqlite_error if it cannot be opened. *)
Open ==
    /\ phase = "none" /\ ~flight /\ result = "none"
    /\ \/ phase' = "open" /\ Return
       \/ phase' = "none" /\ Throw
    /\ UNCHANGED <<binder, vm, value, result, history>>

(* _prepare: a text that does not compile, or a second statement, throws.  *)
Prepare ==
    /\ phase = "open" /\ ~flight /\ runs = 0
    /\ \/ phase' = "live" /\ Return
       \/ phase' = "open" /\ Throw
    /\ inx' = 0 /\ used' = FALSE /\ bound' = {} /\ vm' = "reset"
    /\ UNCHANGED <<value, result, history>>

(* _next_index: the first parameter after an execution resets the          *)
(* statement and clears its parameters.                                    *)
Rewind ==
    IF used /\ inx = 0 THEN [vm |-> "reset", bound |-> {}]
    ELSE [vm |-> vm, bound |-> bound]

(* operator << of a value; sqlite3_bind refuses one that is too big, and   *)
(* every one while the statement runs.                                     *)
Bind ==
    /\ phase = "live" /\ ~flight /\ inx < Params /\ calls < MaxCalls
    /\ inx' = inx + 1 /\ vm' = Rewind.vm
    /\ \/ vm' = "reset" /\ bound' = Rewind.bound \cup {inx'} /\ Return
       \/ bound' = Rewind.bound /\ Throw
    /\ UNCHANGED <<phase, used, value, result, history>>

(* used(false): the destructor will execute the statement once more.       *)
Reuse ==
    /\ phase = "live" /\ ~flight /\ used /\ inx = 0 /\ calls < MaxCalls
    /\ used' = FALSE /\ vm' = Rewind.vm /\ bound' = Rewind.bound
    /\ UNCHANGED <<phase, inx, flight, value, result, history>>

(* _start_execute, once every parameter is bound                           *)
StartExecute(kind) ==
    /\ phase = "live" /\ ~flight /\ inx = Params /\ calls < MaxCalls
    /\ inx' = 0 /\ used' = TRUE /\ bound' = Rewind.bound
    /\ calls' = calls + 1 /\ last' = kind
    /\ UNCHANGED <<phase, result>>

(* How stepping through n rows ends, at the times-th attempt: done, with   *)
(* an error, or given up.                                                  *)
EndsAfter(times, n, how) ==
    /\ vm' = how /\ runs' = runs + times /\ total' = n
    /\ done' = IF how = "done" THEN done + 1 ELSE done
Ends(n, how) == EndsAfter(1, n, how)

(* execute() *)
Execute ==
    /\ StartExecute("execute") /\ UNCHANGED <<value, seen>>
    /\ \E n \in Answers : \/ Ends(n, "done") /\ Return
                          \/ Ends(n, "error") /\ Throw

ExtractUnchecked ==
    /\ StartExecute("rows") /\ UNCHANGED value
    /\ \E n \in Answers : \/ Ends(n, "done") /\ seen' = n /\ Return
                          \/ Ends(n, "error") /\ seen' \in 0..n /\ Return
                          \/ Ends(n, "row") /\ seen' \in 1..n /\ Throw

(* _extract: the callback runs for each row, and may throw itself.         *)
Extract ==
    /\ StartExecute("rows") /\ UNCHANGED value
    /\ \E n \in Answers : \/ Ends(n, "done") /\ seen' = n /\ Return
                          \/ Ends(n, "error") /\ seen' \in 0..n /\ Throw
                          \/ Ends(n, "row") /\ seen' \in 1..n /\ Throw

(* _extract_single_value: a first step for the row, a second that must     *)
(* find no other.                                                          *)
RowRead ==
    /\ seen' = 1 /\ value' = "set"
    /\ \E n \in Answers \ {0} : \/ n = 1 /\ Ends(n, "done") /\ Return
                                \/ n > 1 /\ Ends(n, "row") /\ Throw   \* more_rows
                                \/ Ends(n, "error") /\ Throw

NoRow == 0 \in Answers /\ Ends(0, "done") /\ seen' = 0 /\ value' = "unset" /\ Throw

(* Mutant: a row that comes late is not taken for a failure.               *)
FirstStepForgotten ==
    /\ seen' = 0 /\ value' = "unset"
    /\ \E n \in Answers :
           \/ EndsAfter(2, n, IF n = 0 THEN "done" ELSE "row") /\ Return
           \/ EndsAfter(2, n, "error") /\ Throw

(* A first step that fails is followed by the second all the same, which   *)
(* starts the statement again, and only that one's answer counts: a row is *)
(* one too many, no row will do.                                           *)
FirstStepFails ==
    /\ seen' = 0 /\ value' = "unset"
    /\ \E n \in Answers : \/ n = 0 /\ EndsAfter(2, n, "done") /\ Return
                          \/ n > 0 /\ EndsAfter(2, n, "row") /\ Throw   \* more_rows
                          \/ EndsAfter(2, n, "error") /\ Throw

ExtractSingleValue == StartExecute("value") /\ (RowRead \/ NoRow \/ FirstStepFails)

-----------------------------------------------------------------------------
(* Mutant: whatever has been executed before.                              *)
DueAlways == ~flight

(* Whether the destructor is to execute the statement.                     *)
Due == ~used /\ ~flight

(* ~database_binder *)
Destroy ==
    /\ phase = "live" /\ phase' = "open"
    /\ flight \/ used \/ inx = Params
    /\ IF Due
       THEN \E n \in Answers :
              /\ \/ Ends(n, "done") /\ Return
                 \/ Ends(n, "error") /\ Throw
              /\ last' = "execute" /\ UNCHANGED <<calls, seen>>
       ELSE UNCHANGED <<vm, flight, history>>
    /\ UNCHANGED <<binder, value, result>>

(* The handler returns, or its catch block takes the exception.            *)
Leave ==
    /\ \/ phase = "open" /\ (flight \/ runs > 0)
       \/ phase = "none" /\ flight
    /\ phase' = "none" /\ flight' = FALSE
    /\ result' = IF flight THEN "caught" ELSE "returned"
    /\ UNCHANGED <<binder, vm, value, history>>

Next ==
    /\ \/ Open \/ Prepare \/ Bind \/ Reuse \/ Destroy \/ Leave
       \/ Execute \/ Extract \/ ExtractSingleValue
    /\ UNCHANGED single

Spec == Init /\ [][Next]_vars

-----------------------------------------------------------------------------
TypeOK ==
    /\ single \in BOOLEAN
    /\ phase \in {"none", "open", "live"} /\ inx \in 0..Params /\ used \in BOOLEAN
    /\ vm \in {"reset", "row", "done", "error"} /\ bound \subseteq 1..Params
    /\ flight \in BOOLEAN /\ value \in {"unset", "set"}
    /\ result \in {"none", "returned", "caught"}
    /\ last \in {"none", "execute", "rows", "value"}
    /\ calls \in 0..MaxCalls /\ runs \in Nat /\ done \in 0..runs
    /\ seen \in Nat /\ total \in Nat

(* A statement never runs with a parameter missing or left from the run    *)
(* before, and no parameter is given while the statement is running.       *)
ParametersCurrent ==
    phase = "live" /\ ~flight =>
        /\ bound = (IF used /\ inx = 0 THEN 1..Params ELSE 1..inx)
        /\ inx > 0 => vm = "reset"

(* A handler that returns has had its statement completed as often as it   *)
(* asked, and once by the destructor if it never asked or gave the         *)
(* statement back by used(false); no more and no less.  One that catches   *)
(* an exception has had nothing completed that it did not ask for.         *)
Asked == IF used THEN calls ELSE calls + 1
RunInFull ==
    /\ result = "returned" => done = Asked
    /\ result = "caught" => done <= calls

(* A handler that goes on after taking the value of a count has the value, *)
(* and one that returns has been told of every execution that failed.  (Of *)
(* a statement that may have no row this cannot be said: FirstStepFails.)  *)
FailuresTold ==
    single => /\ phase = "live" /\ ~flight /\ last = "value" => value = "set"
              /\ result = "returned" => runs = done

(* Every row is given to the callback of >> unless an exception tells.     *)
AllRowsSeen == phase = "live" /\ ~flight /\ last = "rows" => seen = total

(* A statement runs with all of its own parameters, to the end, exactly as *)
(* often as the handler asked, and hands over every row, or the handler is *)
(* sent an exception.                                                      *)
StatementsRun == TypeOK /\ ParametersCurrent /\ RunInFull /\ AllRowsSeen
=============================================================================
