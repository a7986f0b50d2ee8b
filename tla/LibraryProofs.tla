------------------------------- MODULE LibraryProofs -------------------------------
(***************************************************************************)
(* What holds of the libraries for every size: of the statements of        *)
(* sqlite_modern_cpp, however many parameters and rows they have, and of   *)
(* the line libscrypt keeps of a password, whatever its parameters.        *)
(***************************************************************************)
EXTENDS Libraries, SequenceFacts

-----------------------------------------------------------------------------
(* What the variables can be: words...                                     *)
Names ==
    /\ phase \in {"none", "open", "live"} /\ vm \in {"reset", "row", "done", "error"}
    /\ value \in {"unset", "set"} /\ outcome \in {"none", "returned", "caught"}
    /\ last \in {"none", "execute", "rows", "value"}
(* ...yes or no...                                                        *)
Flags == single \in BOOLEAN /\ used \in BOOLEAN /\ flight \in BOOLEAN
(* ...and numbers.                                                        *)
Numbers ==
    /\ inx \in 0..Params /\ bound \subseteq 1..Params /\ calls \in 0..MaxCalls
    /\ runs \in Nat /\ done \in 0..runs /\ seen \in Nat /\ total \in Nat

(* While the binder is alive and no failure is pending, each execution     *)
(* asked for was completed, a count at its first attempt.                  *)
Alive ==
    phase = "live" =>
        /\ done <= calls
        /\ ~flight => done = calls /\ (single => runs = done)
(* Once it is destroyed, the destructor's own may have been added, unless  *)
(* there is a failure to tell of.                                          *)
Afterwards ==
    phase # "live" =>
        /\ flight => done <= calls
        /\ ~flight /\ runs > 0 /\ outcome # "caught" =>
              done = Statement!Asked /\ (single => runs = done)
(* The handler ends but once, without a pending failure, and begins with   *)
(* nothing done.                                                           *)
Ended ==
    /\ outcome # "none" => phase = "none" /\ ~flight
    /\ outcome = "returned" => runs > 0
    /\ outcome = "none" /\ phase = "none" => runs = 0
(* Nothing is said of executions before the first one.                     *)
Untried == runs = 0 => calls = 0 /\ last = "none"
(* What a handler's statement keeps while it is used.                      *)
StatementInv ==
    /\ Names /\ Flags /\ Numbers /\ Statement!ParametersCurrent /\ Statement!RunInFull
    /\ Statement!AllRowsSeen /\ Alive /\ Afterwards /\ Ended /\ Untried
    /\ Statement!FailuresTold

(* It holds of a handler that has done nothing yet...                      *)
LEMMA StatementInit ==
    ASSUME Statement!StatementAssumption, Statement!Init PROVE StatementInv
  <1> USE DEF Statement!StatementAssumption, Statement!Init
  <1>1. Names
    BY DEF Names
  <1>2. Flags
    BY DEF Flags
  <1>3. Numbers
    BY DEF Numbers
  <1>4. Statement!ParametersCurrent
    BY DEF Statement!ParametersCurrent
  <1>5. Statement!RunInFull
    BY DEF Statement!RunInFull, Statement!Asked
  <1>6. Statement!AllRowsSeen
    BY DEF Statement!AllRowsSeen
  <1>7. Alive
    BY DEF Alive
  <1>8. Afterwards
    BY DEF Afterwards, Statement!Asked
  <1>9. Ended
    BY DEF Ended
  <1>10. Untried
    BY DEF Untried
  <1>11. Statement!FailuresTold
    BY DEF Statement!FailuresTold
  <1> QED
    BY <1>1, <1>2, <1>3, <1>4, <1>5, <1>6, <1>7, <1>8, <1>9, <1>10, <1>11 DEF StatementInv

(* ...and every call of the binder keeps it, and so does leaving.          *)
LEMMA StatementOpen ==
    ASSUME Statement!StatementAssumption, StatementInv, Statement!Open,
           single' = single
    PROVE  StatementInv'
  <1> USE DEF Statement!Throw, Statement!Return, Statement!binder, Statement!history
  <1>0. /\ Names /\ Flags /\ Numbers /\ Statement!ParametersCurrent
        /\ Statement!RunInFull /\ Statement!AllRowsSeen /\ Alive /\ Afterwards /\ Ended /\ Untried
        /\ Statement!FailuresTold
    BY DEF StatementInv
  <1>1. Names'
    BY <1>0 DEF Statement!Open, Names
  <1>2. Flags'
    BY <1>0 DEF Statement!Open, Flags
  <1>3. Numbers'
    <2> USE <1>0 DEF Numbers, Alive, Statement!Open, Statement!StatementAssumption
    <2>1. (inx \in 0..Params)' /\ (bound \subseteq 1..Params)'
      OBVIOUS
    <2>2. (calls \in 0..MaxCalls)'
      OBVIOUS
    <2>3. (runs \in Nat /\ done \in 0..runs /\ seen \in Nat /\ total \in Nat)'
      OBVIOUS
    <2> QED  BY <2>1, <2>2, <2>3
  <1>4. Statement!ParametersCurrent'
    BY <1>0 DEF Statement!Open, Statement!ParametersCurrent
  <1>5. Statement!RunInFull'
    BY <1>0 DEF Statement!Open, Statement!RunInFull, Statement!Asked
  <1>6. Statement!AllRowsSeen'
    BY <1>0 DEF Statement!Open, Statement!AllRowsSeen
  <1>7. Alive'
    BY <1>0 DEF Statement!Open, Alive
  <1>8. Afterwards'
    BY <1>0 DEF Statement!Open, Afterwards, Statement!Asked, Alive, Ended, Untried, Names,
        Flags, Numbers
  <1>9. Ended'
    BY <1>0 DEF Statement!Open, Ended
  <1>10. Untried'
    BY <1>0 DEF Statement!Open, Statement!StatementAssumption,
        Names, Flags, Numbers, Untried, Alive, Afterwards, Ended
  <1>11. Statement!FailuresTold'
    BY <1>0 DEF Statement!Open, Statement!StatementAssumption,
        Statement!FailuresTold, Names, Flags, Numbers, Alive,
        Afterwards, Ended, Untried
  <1> QED
    BY <1>1, <1>2, <1>3, <1>4, <1>5, <1>6, <1>7, <1>8, <1>9, <1>10, <1>11 DEF StatementInv

(* Prepare keeps it.                                                     *)
LEMMA StatementPrepare ==
    ASSUME Statement!StatementAssumption, StatementInv, Statement!Prepare,
           single' = single
    PROVE  StatementInv'
  <1> USE DEF Statement!Throw, Statement!Return, Statement!binder, Statement!history
  <1>0. /\ Names /\ Flags /\ Numbers /\ Statement!ParametersCurrent
        /\ Statement!RunInFull /\ Statement!AllRowsSeen /\ Alive /\ Afterwards /\ Ended /\ Untried
        /\ Statement!FailuresTold
    BY DEF StatementInv
  <1>1. Names'
    BY <1>0 DEF Statement!Prepare, Names
  <1>2. Flags'
    BY <1>0 DEF Statement!Prepare, Flags
  <1>3. Numbers'
    <2> USE <1>0 DEF Numbers, Alive, Statement!Prepare, Statement!StatementAssumption
    <2>1. (inx \in 0..Params)' /\ (bound \subseteq 1..Params)'
      OBVIOUS
    <2>2. (calls \in 0..MaxCalls)'
      OBVIOUS
    <2>3. (runs \in Nat /\ done \in 0..runs /\ seen \in Nat /\ total \in Nat)'
      OBVIOUS
    <2> QED  BY <2>1, <2>2, <2>3
  <1>4. Statement!ParametersCurrent'
    BY <1>0 DEF Statement!Prepare, Statement!ParametersCurrent
  <1>5. Statement!RunInFull'
    BY <1>0 DEF Statement!Prepare, Statement!RunInFull, Statement!Asked, Ended, Names
  <1>6. Statement!AllRowsSeen'
    BY <1>0 DEF Statement!Prepare, Statement!AllRowsSeen, Alive, Ended, Untried, Names, Flags
  <1>7. Alive'
    BY <1>0 DEF Statement!Prepare, Statement!StatementAssumption, Names, Flags, Numbers,
        Alive, Afterwards, Ended, Untried
  <1>8. Afterwards'
    BY <1>0 DEF Statement!Prepare, Afterwards, Statement!Asked, Untried, Numbers
  <1>9. Ended'
    BY <1>0 DEF Statement!Prepare, Ended
  <1>10. Untried'
    BY <1>0 DEF Statement!Prepare, Statement!StatementAssumption,
        Names, Flags, Numbers, Untried, Alive, Afterwards, Ended
  <1>11. Statement!FailuresTold'
    BY <1>0 DEF Statement!Prepare, Statement!StatementAssumption,
        Statement!FailuresTold, Names, Flags, Numbers, Alive,
        Afterwards, Ended, Untried
  <1> QED
    BY <1>1, <1>2, <1>3, <1>4, <1>5, <1>6, <1>7, <1>8, <1>9, <1>10, <1>11 DEF StatementInv

(* Bind keeps it.                                                        *)
LEMMA StatementBind ==
    ASSUME Statement!StatementAssumption, StatementInv, Statement!Bind,
           single' = single
    PROVE  StatementInv'
  <1> USE DEF Statement!Throw, Statement!Return, Statement!binder, Statement!history
  <1>0. /\ Names /\ Flags /\ Numbers /\ Statement!ParametersCurrent
        /\ Statement!RunInFull /\ Statement!AllRowsSeen /\ Alive /\ Afterwards /\ Ended /\ Untried
        /\ Statement!FailuresTold
    BY DEF StatementInv
  <1>1. Names'
    BY <1>0 DEF Statement!Bind, Statement!Rewind, Names
  <1>2. Flags'
    BY <1>0 DEF Statement!Bind, Statement!Rewind, Flags
  <1>3. Numbers'
    <2> USE <1>0 DEF Numbers, Alive, Statement!Bind, Statement!Rewind,
        Statement!StatementAssumption
    <2>1. (inx \in 0..Params)' /\ (bound \subseteq 1..Params)'
      OBVIOUS
    <2>2. (calls \in 0..MaxCalls)'
      OBVIOUS
    <2>3. (runs \in Nat /\ done \in 0..runs /\ seen \in Nat /\ total \in Nat)'
      OBVIOUS
    <2> QED  BY <2>1, <2>2, <2>3
  <1>4. Statement!ParametersCurrent'
    <2> USE DEF Statement!Bind, Statement!Rewind
    <2>1. CASE flight'
      BY <2>1 DEF Statement!ParametersCurrent
    <2>2. CASE ~flight'
      <3>1. /\ vm' = "reset" /\ bound' = Statement!Rewind.bound \cup {inx'}
            /\ inx' = inx + 1 /\ inx \in Nat /\ phase = "live" /\ ~flight
        BY <1>0, <2>2 DEF Numbers
      <3>2. bound' = 1..inx'
        <4>1. bound = IF used /\ inx = 0 THEN 1..Params ELSE 1..inx
          BY <1>0, <3>1 DEF Statement!ParametersCurrent
        <4>2. Statement!Rewind.bound = 1..inx
          BY <3>1, <4>1
        <4> QED  BY <3>1, <4>2
      <3> QED
        BY <3>1, <3>2 DEF Statement!ParametersCurrent
    <2> QED  BY <1>0, <2>1, <2>2 DEF Flags
  <1>5. Statement!RunInFull'
    BY <1>0 DEF Statement!Bind, Statement!Rewind, Statement!RunInFull, Statement!Asked
  <1>6. Statement!AllRowsSeen'
    BY <1>0 DEF Statement!Bind, Statement!Rewind, Statement!AllRowsSeen
  <1>7. Alive'
    BY <1>0 DEF Statement!Bind, Statement!Rewind, Alive
  <1>8. Afterwards'
    BY <1>0 DEF Statement!Bind, Statement!Rewind, Afterwards, Statement!Asked
  <1>9. Ended'
    BY <1>0 DEF Statement!Bind, Statement!Rewind, Ended
  <1>10. Untried'
    BY <1>0 DEF Statement!Bind, Statement!Rewind, Statement!StatementAssumption,
        Names, Flags, Numbers, Untried, Alive, Afterwards, Ended
  <1>11. Statement!FailuresTold'
    BY <1>0 DEF Statement!Bind, Statement!Rewind, Statement!StatementAssumption,
        Statement!FailuresTold, Names, Flags, Numbers, Alive,
        Afterwards, Ended, Untried
  <1> QED
    BY <1>1, <1>2, <1>3, <1>4, <1>5, <1>6, <1>7, <1>8, <1>9, <1>10, <1>11 DEF StatementInv

(* Reuse keeps it.                                                       *)
LEMMA StatementReuse ==
    ASSUME Statement!StatementAssumption, StatementInv, Statement!Reuse,
           single' = single
    PROVE  StatementInv'
  <1> USE DEF Statement!Throw, Statement!Return, Statement!binder, Statement!history
  <1>0. /\ Names /\ Flags /\ Numbers /\ Statement!ParametersCurrent
        /\ Statement!RunInFull /\ Statement!AllRowsSeen /\ Alive /\ Afterwards /\ Ended /\ Untried
        /\ Statement!FailuresTold
    BY DEF StatementInv
  <1>1. Names'
    BY <1>0 DEF Statement!Reuse, Statement!Rewind, Names
  <1>2. Flags'
    BY <1>0 DEF Statement!Reuse, Statement!Rewind, Flags
  <1>3. Numbers'
    <2> USE <1>0 DEF Numbers, Alive, Statement!Reuse, Statement!Rewind,
        Statement!StatementAssumption
    <2>1. (inx \in 0..Params)' /\ (bound \subseteq 1..Params)'
      OBVIOUS
    <2>2. (calls \in 0..MaxCalls)'
      OBVIOUS
    <2>3. (runs \in Nat /\ done \in 0..runs /\ seen \in Nat /\ total \in Nat)'
      OBVIOUS
    <2> QED  BY <2>1, <2>2, <2>3
  <1>4. Statement!ParametersCurrent'
    BY <1>0 DEF Statement!Reuse, Statement!Rewind, Statement!ParametersCurrent
  <1>5. Statement!RunInFull'
    BY <1>0 DEF Statement!Reuse, Statement!Rewind, Statement!RunInFull, Statement!Asked,
        Ended, Names
  <1>6. Statement!AllRowsSeen'
    BY <1>0 DEF Statement!Reuse, Statement!Rewind, Statement!AllRowsSeen
  <1>7. Alive'
    BY <1>0 DEF Statement!Reuse, Statement!Rewind, Alive
  <1>8. Afterwards'
    BY <1>0 DEF Statement!Reuse, Statement!Rewind, Afterwards, Statement!Asked
  <1>9. Ended'
    BY <1>0 DEF Statement!Reuse, Statement!Rewind, Ended
  <1>10. Untried'
    BY <1>0 DEF Statement!Reuse, Statement!Rewind, Statement!StatementAssumption,
        Names, Flags, Numbers, Untried, Alive, Afterwards, Ended
  <1>11. Statement!FailuresTold'
    BY <1>0 DEF Statement!Reuse, Statement!Rewind, Statement!StatementAssumption,
        Statement!FailuresTold, Names, Flags, Numbers, Alive,
        Afterwards, Ended, Untried
  <1> QED
    BY <1>1, <1>2, <1>3, <1>4, <1>5, <1>6, <1>7, <1>8, <1>9, <1>10, <1>11 DEF StatementInv

(* Destroy keeps it.                                                     *)
LEMMA StatementDestroy ==
    ASSUME Statement!StatementAssumption, StatementInv, Statement!Destroy,
           single' = single
    PROVE  StatementInv'
  <1> USE DEF Statement!Throw, Statement!Return, Statement!binder, Statement!history
  <1>0. /\ Names /\ Flags /\ Numbers /\ Statement!ParametersCurrent
        /\ Statement!RunInFull /\ Statement!AllRowsSeen /\ Alive /\ Afterwards /\ Ended /\ Untried
        /\ Statement!FailuresTold
    BY DEF StatementInv
  <1>1. Names'
    BY <1>0 DEF Statement!Destroy, Statement!Due, Statement!Ends, Statement!EndsAfter, Statement!Answers, Names
  <1>2. Flags'
    BY <1>0 DEF Statement!Destroy, Statement!Due, Statement!Ends, Statement!EndsAfter, Statement!Answers, Flags
  <1>3. Numbers'
    <2> USE <1>0 DEF Numbers, Alive, Statement!Destroy, Statement!Due, Statement!Ends, Statement!EndsAfter, Statement!Answers,
        Statement!StatementAssumption
    <2>1. (inx \in 0..Params)' /\ (bound \subseteq 1..Params)'
      OBVIOUS
    <2>2. (calls \in 0..MaxCalls)'
      OBVIOUS
    <2>3. runs' \in Nat /\ done' \in 0..runs'
      OBVIOUS
    <2>4. seen' \in Nat /\ total' \in Nat
      OBVIOUS
    <2> QED  BY <2>1, <2>2, <2>3, <2>4
  <1>4. Statement!ParametersCurrent'
    BY <1>0 DEF Statement!Destroy, Statement!Due, Statement!Ends, Statement!EndsAfter, Statement!Answers, Statement!ParametersCurrent
  <1>5. Statement!RunInFull'
    BY <1>0 DEF Statement!Destroy, Statement!Due, Statement!Ends, Statement!EndsAfter, Statement!Answers, Statement!RunInFull,
        Statement!Asked, Alive, Ended, Untried, Names, Flags
  <1>6. Statement!AllRowsSeen'
    BY <1>0 DEF Statement!Destroy, Statement!Due, Statement!Ends, Statement!EndsAfter, Statement!Answers, Statement!AllRowsSeen
  <1>7. Alive'
    BY <1>0 DEF Statement!Destroy, Statement!Due, Statement!Ends, Statement!EndsAfter, Statement!Answers, Alive
  <1>8. Afterwards'
    BY <1>0 DEF Statement!Destroy, Statement!Due, Statement!Ends, Statement!EndsAfter, Statement!Answers, Afterwards, Statement!Asked,
        Numbers, Statement!StatementAssumption, Alive, Names
  <1>9. Ended'
    BY <1>0 DEF Statement!Destroy, Statement!Due, Statement!Ends, Statement!EndsAfter, Statement!Answers, Ended
  <1>10. Untried'
    BY <1>0 DEF Statement!Destroy, Statement!Due, Statement!Ends, Statement!EndsAfter, Statement!Answers,
        Statement!StatementAssumption,
        Names, Flags, Numbers, Untried, Alive, Afterwards, Ended
  <1>11. Statement!FailuresTold'
    BY <1>0 DEF Statement!Destroy, Statement!Due, Statement!Ends, Statement!EndsAfter, Statement!Answers,
        Statement!StatementAssumption,
        Statement!FailuresTold, Names, Flags, Numbers, Alive,
        Afterwards, Ended, Untried
  <1> QED
    BY <1>1, <1>2, <1>3, <1>4, <1>5, <1>6, <1>7, <1>8, <1>9, <1>10, <1>11 DEF StatementInv

(* Leave keeps it.                                                       *)
LEMMA StatementLeave ==
    ASSUME Statement!StatementAssumption, StatementInv, Statement!Leave,
           single' = single
    PROVE  StatementInv'
  <1> USE DEF Statement!Throw, Statement!Return, Statement!binder, Statement!history
  <1>0. /\ Names /\ Flags /\ Numbers /\ Statement!ParametersCurrent
        /\ Statement!RunInFull /\ Statement!AllRowsSeen /\ Alive /\ Afterwards /\ Ended /\ Untried
        /\ Statement!FailuresTold
    BY DEF StatementInv
  <1>1. Names'
    BY <1>0 DEF Statement!Leave, Names
  <1>2. Flags'
    BY <1>0 DEF Statement!Leave, Flags
  <1>3. Numbers'
    <2> USE <1>0 DEF Numbers, Alive, Statement!Leave, Statement!StatementAssumption
    <2>1. (inx \in 0..Params)' /\ (bound \subseteq 1..Params)'
      OBVIOUS
    <2>2. (calls \in 0..MaxCalls)'
      OBVIOUS
    <2>3. (runs \in Nat /\ done \in 0..runs /\ seen \in Nat /\ total \in Nat)'
      OBVIOUS
    <2> QED  BY <2>1, <2>2, <2>3
  <1>4. Statement!ParametersCurrent'
    BY <1>0 DEF Statement!Leave, Statement!ParametersCurrent
  <1>5. Statement!RunInFull'
    BY <1>0 DEF Statement!Leave, Statement!StatementAssumption, Names, Flags, Numbers,
        Statement!RunInFull, Statement!Asked, Alive, Afterwards, Ended, Untried
  <1>6. Statement!AllRowsSeen'
    BY <1>0 DEF Statement!Leave, Statement!AllRowsSeen
  <1>7. Alive'
    BY <1>0 DEF Statement!Leave, Alive
  <1>8. Afterwards'
    BY <1>0 DEF Statement!Leave, Afterwards, Statement!Asked, Ended, Names, Flags
  <1>9. Ended'
    BY <1>0 DEF Statement!Leave, Ended
  <1>10. Untried'
    BY <1>0 DEF Statement!Leave, Statement!StatementAssumption,
        Names, Flags, Numbers, Untried, Alive, Afterwards, Ended
  <1>11. Statement!FailuresTold'
    BY <1>0 DEF Statement!Leave, Statement!StatementAssumption,
        Statement!FailuresTold, Names, Flags, Numbers, Alive,
        Afterwards, Ended, Untried
  <1> QED
    BY <1>1, <1>2, <1>3, <1>4, <1>5, <1>6, <1>7, <1>8, <1>9, <1>10, <1>11 DEF StatementInv

(* Execute keeps it.                                                     *)
LEMMA StatementExecute ==
    ASSUME Statement!StatementAssumption, StatementInv, Statement!Execute,
           single' = single
    PROVE  StatementInv'
  <1> USE DEF Statement!Throw, Statement!Return, Statement!binder, Statement!history
  <1>0. /\ Names /\ Flags /\ Numbers /\ Statement!ParametersCurrent
        /\ Statement!RunInFull /\ Statement!AllRowsSeen /\ Alive /\ Afterwards /\ Ended /\ Untried
        /\ Statement!FailuresTold
    BY DEF StatementInv
  <1>1. Names'
    BY <1>0 DEF Statement!Execute, Statement!StartExecute, Statement!Rewind, Statement!Ends, Statement!EndsAfter, Statement!Answers,
        Names
  <1>2. Flags'
    BY <1>0 DEF Statement!Execute, Statement!StartExecute, Statement!Rewind, Statement!Ends, Statement!EndsAfter, Statement!Answers,
        Flags
  <1>3. Numbers'
    <2> USE <1>0 DEF Numbers, Alive, Statement!Execute, Statement!StartExecute,
        Statement!Rewind, Statement!Ends, Statement!EndsAfter, Statement!Answers, Statement!StatementAssumption
    <2>1. (inx \in 0..Params)' /\ (bound \subseteq 1..Params)'
      OBVIOUS
    <2>2. (calls \in 0..MaxCalls)'
      OBVIOUS
    <2>3. runs' \in Nat /\ done' \in 0..runs'
      OBVIOUS
    <2>4. seen' \in Nat /\ total' \in Nat
      OBVIOUS
    <2> QED  BY <2>1, <2>2, <2>3, <2>4
  <1>4. Statement!ParametersCurrent'
    BY <1>0 DEF Statement!Execute, Statement!StartExecute, Statement!Rewind, Statement!Ends, Statement!EndsAfter, Statement!Answers,
        Statement!ParametersCurrent
  <1>5. Statement!RunInFull'
    BY <1>0 DEF Statement!Execute, Statement!StartExecute, Statement!Rewind, Statement!Ends, Statement!EndsAfter, Statement!Answers,
        Statement!RunInFull, Statement!Asked, Alive, Ended, Untried, Names, Flags
  <1>6. Statement!AllRowsSeen'
    BY <1>0 DEF Statement!Execute, Statement!StartExecute, Statement!Rewind, Statement!Ends, Statement!EndsAfter, Statement!Answers,
        Statement!AllRowsSeen
  <1>7. Alive'
    BY <1>0 DEF Statement!Execute, Statement!StartExecute, Statement!Rewind, Statement!Ends, Statement!EndsAfter, Statement!Answers,
        Alive, Numbers, Statement!StatementAssumption, Flags
  <1>8. Afterwards'
    BY <1>0 DEF Statement!Execute, Statement!StartExecute, Statement!Rewind, Statement!Ends, Statement!EndsAfter, Statement!Answers,
        Afterwards, Statement!Asked
  <1>9. Ended'
    BY <1>0 DEF Statement!Execute, Statement!StartExecute, Statement!Rewind, Statement!Ends, Statement!EndsAfter, Statement!Answers,
        Ended
  <1>10. Untried'
    BY <1>0 DEF Statement!Execute, Statement!StartExecute, Statement!Rewind, Statement!Ends, Statement!EndsAfter, Statement!Answers,
        Statement!StatementAssumption,
        Names, Flags, Numbers, Untried, Alive, Afterwards, Ended
  <1>11. Statement!FailuresTold'
    BY <1>0 DEF Statement!Execute, Statement!StartExecute, Statement!Rewind, Statement!Ends, Statement!EndsAfter, Statement!Answers,
        Statement!StatementAssumption,
        Statement!FailuresTold, Names, Flags, Numbers, Alive,
        Afterwards, Ended, Untried
  <1> QED
    BY <1>1, <1>2, <1>3, <1>4, <1>5, <1>6, <1>7, <1>8, <1>9, <1>10, <1>11 DEF StatementInv

(* Extract keeps it.                                                     *)
LEMMA StatementExtract ==
    ASSUME Statement!StatementAssumption, StatementInv, Statement!Extract,
           single' = single
    PROVE  StatementInv'
  <1> USE DEF Statement!Throw, Statement!Return, Statement!binder, Statement!history
  <1>0. /\ Names /\ Flags /\ Numbers /\ Statement!ParametersCurrent
        /\ Statement!RunInFull /\ Statement!AllRowsSeen /\ Alive /\ Afterwards /\ Ended /\ Untried
        /\ Statement!FailuresTold
    BY DEF StatementInv
  <1>1. Names'
    BY <1>0 DEF Statement!Extract, Statement!StartExecute, Statement!Rewind, Statement!Ends, Statement!EndsAfter, Statement!Answers,
        Names
  <1>2. Flags'
    BY <1>0 DEF Statement!Extract, Statement!StartExecute, Statement!Rewind, Statement!Ends, Statement!EndsAfter, Statement!Answers,
        Flags
  <1>3. Numbers'
    <2> USE <1>0 DEF Numbers, Alive, Statement!Extract, Statement!StartExecute,
        Statement!Rewind, Statement!Ends, Statement!EndsAfter, Statement!Answers, Statement!StatementAssumption
    <2>1. (inx \in 0..Params)' /\ (bound \subseteq 1..Params)'
      OBVIOUS
    <2>2. (calls \in 0..MaxCalls)'
      OBVIOUS
    <2>3. runs' \in Nat /\ done' \in 0..runs'
      OBVIOUS
    <2>4. seen' \in Nat /\ total' \in Nat
      OBVIOUS
    <2> QED  BY <2>1, <2>2, <2>3, <2>4
  <1>4. Statement!ParametersCurrent'
    BY <1>0 DEF Statement!Extract, Statement!StartExecute, Statement!Rewind, Statement!Ends, Statement!EndsAfter, Statement!Answers,
        Statement!ParametersCurrent
  <1>5. Statement!RunInFull'
    BY <1>0 DEF Statement!Extract, Statement!StartExecute, Statement!Rewind, Statement!Ends, Statement!EndsAfter, Statement!Answers,
        Statement!RunInFull, Statement!Asked, Alive, Ended, Untried, Names, Flags
  <1>6. Statement!AllRowsSeen'
    BY <1>0 DEF Statement!Extract, Statement!StartExecute, Statement!Rewind, Statement!Ends, Statement!EndsAfter, Statement!Answers,
        Statement!AllRowsSeen
  <1>7. Alive'
    BY <1>0 DEF Statement!Extract, Statement!StartExecute, Statement!Rewind, Statement!Ends, Statement!EndsAfter, Statement!Answers,
        Alive, Numbers, Statement!StatementAssumption, Flags
  <1>8. Afterwards'
    BY <1>0 DEF Statement!Extract, Statement!StartExecute, Statement!Rewind, Statement!Ends, Statement!EndsAfter, Statement!Answers,
        Afterwards, Statement!Asked
  <1>9. Ended'
    BY <1>0 DEF Statement!Extract, Statement!StartExecute, Statement!Rewind, Statement!Ends, Statement!EndsAfter, Statement!Answers,
        Ended
  <1>10. Untried'
    BY <1>0 DEF Statement!Extract, Statement!StartExecute, Statement!Rewind, Statement!Ends, Statement!EndsAfter, Statement!Answers,
        Statement!StatementAssumption,
        Names, Flags, Numbers, Untried, Alive, Afterwards, Ended
  <1>11. Statement!FailuresTold'
    BY <1>0 DEF Statement!Extract, Statement!StartExecute, Statement!Rewind, Statement!Ends, Statement!EndsAfter, Statement!Answers,
        Statement!StatementAssumption,
        Statement!FailuresTold, Names, Flags, Numbers, Alive,
        Afterwards, Ended, Untried
  <1> QED
    BY <1>1, <1>2, <1>3, <1>4, <1>5, <1>6, <1>7, <1>8, <1>9, <1>10, <1>11 DEF StatementInv

(* ExtractSingleValue keeps it.                                          *)
LEMMA StatementExtractSingleValue ==
    ASSUME Statement!StatementAssumption, StatementInv, Statement!ExtractSingleValue,
           single' = single
    PROVE  StatementInv'
  <1> USE DEF Statement!Throw, Statement!Return, Statement!binder, Statement!history
  <1>0. /\ Names /\ Flags /\ Numbers /\ Statement!ParametersCurrent
        /\ Statement!RunInFull /\ Statement!AllRowsSeen /\ Alive /\ Afterwards /\ Ended /\ Untried
        /\ Statement!FailuresTold
    BY DEF StatementInv
  <1>1. Names'
    BY <1>0 DEF Statement!ExtractSingleValue, Statement!StartExecute, Statement!Rewind,
        Statement!RowRead, Statement!NoRow, Statement!FirstStepFails, Statement!Ends, Statement!EndsAfter, Statement!Answers, Names
  <1>2. Flags'
    BY <1>0 DEF Statement!ExtractSingleValue, Statement!StartExecute, Statement!Rewind,
        Statement!RowRead, Statement!NoRow, Statement!FirstStepFails, Statement!Ends, Statement!EndsAfter, Statement!Answers, Flags
  <1>3. Numbers'
    <2> USE <1>0 DEF Numbers, Alive, Statement!ExtractSingleValue, Statement!StartExecute,
        Statement!Rewind, Statement!RowRead, Statement!NoRow, Statement!FirstStepFails,
        Statement!Ends, Statement!EndsAfter, Statement!Answers, Statement!StatementAssumption
    <2>1. (inx \in 0..Params)' /\ (bound \subseteq 1..Params)'
      OBVIOUS
    <2>2. (calls \in 0..MaxCalls)'
      OBVIOUS
    <2>3. runs' \in Nat /\ done' \in 0..runs'
      OBVIOUS
    <2>4. seen' \in Nat /\ total' \in Nat
      OBVIOUS
    <2> QED  BY <2>1, <2>2, <2>3, <2>4
  <1>4. Statement!ParametersCurrent'
    BY <1>0 DEF Statement!ExtractSingleValue, Statement!StartExecute, Statement!Rewind,
        Statement!RowRead, Statement!NoRow, Statement!FirstStepFails, Statement!Ends, Statement!EndsAfter, Statement!Answers,
        Statement!ParametersCurrent
  <1>5. Statement!RunInFull'
    BY <1>0 DEF Statement!ExtractSingleValue, Statement!StartExecute, Statement!Rewind,
        Statement!RowRead, Statement!NoRow, Statement!FirstStepFails, Statement!Ends, Statement!EndsAfter, Statement!Answers,
        Statement!RunInFull, Statement!Asked, Alive, Ended, Untried, Names, Flags
  <1>6. Statement!AllRowsSeen'
    BY <1>0 DEF Statement!ExtractSingleValue, Statement!StartExecute, Statement!Rewind,
        Statement!RowRead, Statement!NoRow, Statement!FirstStepFails, Statement!Ends, Statement!EndsAfter, Statement!Answers,
        Statement!AllRowsSeen
  <1>7. Alive'
    BY <1>0 DEF Statement!ExtractSingleValue, Statement!StartExecute, Statement!Rewind,
        Statement!RowRead, Statement!NoRow, Statement!FirstStepFails, Statement!Ends, Statement!EndsAfter, Statement!Answers, Alive,
        Numbers, Statement!StatementAssumption, Flags
  <1>8. Afterwards'
    BY <1>0 DEF Statement!ExtractSingleValue, Statement!StartExecute, Statement!Rewind,
        Statement!RowRead, Statement!NoRow, Statement!FirstStepFails, Statement!Ends, Statement!EndsAfter, Statement!Answers,
        Afterwards, Statement!Asked
  <1>9. Ended'
    BY <1>0 DEF Statement!ExtractSingleValue, Statement!StartExecute, Statement!Rewind,
        Statement!RowRead, Statement!NoRow, Statement!FirstStepFails, Statement!Ends, Statement!EndsAfter, Statement!Answers, Ended
  <1>10. Untried'
    BY <1>0 DEF Statement!ExtractSingleValue, Statement!StartExecute, Statement!Rewind,
        Statement!RowRead, Statement!NoRow, Statement!FirstStepFails, Statement!Ends, Statement!EndsAfter, Statement!Answers,
        Statement!StatementAssumption,
        Names, Flags, Numbers, Untried, Alive, Afterwards, Ended
  <1>11. Statement!FailuresTold'
    BY <1>0 DEF Statement!ExtractSingleValue, Statement!StartExecute, Statement!Rewind,
        Statement!RowRead, Statement!NoRow, Statement!FirstStepFails, Statement!Ends, Statement!EndsAfter, Statement!Answers,
        Statement!StatementAssumption,
        Statement!FailuresTold, Names, Flags, Numbers, Alive,
        Afterwards, Ended, Untried
  <1> QED
    BY <1>1, <1>2, <1>3, <1>4, <1>5, <1>6, <1>7, <1>8, <1>9, <1>10, <1>11 DEF StatementInv

(* So every step keeps it.                                                *)
LEMMA StatementStep ==
    ASSUME Statement!StatementAssumption, StatementInv, [Statement!Next]_(Statement!vars)
    PROVE  StatementInv'
  <1>1. CASE UNCHANGED Statement!vars
    BY <1>1 DEF Statement!vars, Statement!binder, Statement!history, StatementInv,
        Names, Flags, Numbers, Statement!ParametersCurrent,
        Statement!RunInFull, Statement!Asked, Statement!AllRowsSeen, Alive, Afterwards,
        Ended, Untried, Statement!FailuresTold
  <1> QED
    BY <1>1, StatementOpen, StatementPrepare, StatementBind, StatementReuse,
        StatementDestroy, StatementLeave, StatementExecute, StatementExtract,
        StatementExtractSingleValue DEF Statement!Next

(* A statement runs with its own parameters, to the end, exactly as often  *)
(* as asked, and hands over every row, or the handler is sent an           *)
(* exception; and who takes the value of a count has it and is told of     *)
(* every failure (database_binder, sqlite_modern_cpp.h); whatever the      *)
(* database answers, for any numbers of parameters, rows and executions.   *)
THEOREM StatementsAlwaysRun == Statement!Spec => [](StatementsRun /\ FailuresTold)
  <1>1. StatementInv => StatementsRun /\ FailuresTold
    BY DEF StatementInv, Names, Flags, Numbers, Statement!StatementsRun, Statement!TypeOK,
        StatementsRun, FailuresTold
  <1>2. Statement!StatementAssumption
    BY LibrariesAssumption
  <1> QED
    BY <1>1, <1>2, StatementInit, StatementStep, PTL DEF Statement!Spec

-----------------------------------------------------------------------------
(* Powers of two: the library counts subsets with them.                    *)
LEMMA PowerCounts ==
    ASSUME NEW n \in Nat
    PROVE  IsFiniteSet(SUBSET (1..n)) /\ Cardinality(SUBSET (1..n)) = 2^n
  <1>1. IsFiniteSet(1..n) /\ Cardinality(1..n) = n
    BY FS_Interval
  <1> QED  BY <1>1, FS_SUBSET

(* They are numbers.                                                      *)
LEMMA PowerType == ASSUME NEW n \in Nat PROVE 2^n \in Nat
  BY PowerCounts, FS_CardinalityType

(* The subsets of 1..(n + 1) are those of 1..n, without n + 1 and with it.*)
LEMMA PowerStep ==
    ASSUME NEW n \in Nat
    PROVE  2^(n + 1) = 2^n + 2^n
  <1> DEFINE A == SUBSET (1..n)
             B == {X \cup {n + 1} : X \in A}
             f == [X \in A |-> X \cup {n + 1}]
  <1>1. A \cup B = SUBSET (1..(n + 1))
    <2>1. ASSUME NEW X \in SUBSET (1..(n + 1)), X \notin A PROVE X \in B
      <3>1. n + 1 \in X /\ X \ {n + 1} \in A
        BY <2>1
      <3>2. X = (X \ {n + 1}) \cup {n + 1}
        BY <3>1
      <3> QED  BY <3>1, <3>2
    <2>2. ASSUME NEW X \in A
          PROVE  X \in SUBSET (1..(n + 1)) /\ X \cup {n + 1} \in SUBSET (1..(n + 1))
      <3>1. \A i \in X : i \in 1..(n + 1)
        OBVIOUS
      <3>2. n + 1 \in 1..(n + 1)
        OBVIOUS
      <3> QED  BY <3>1, <3>2
    <2>3. ASSUME NEW X \in A \cup B PROVE X \in SUBSET (1..(n + 1))
      <3>1. CASE X \in A
        BY <2>2, <3>1
      <3>2. CASE X \in B
        <4>1. PICK Y \in A : X = Y \cup {n + 1}
          BY <3>2
        <4> QED  BY <4>1, <2>2
      <3> QED  BY <3>1, <3>2
    <2>4. SUBSET (1..(n + 1)) \subseteq A \cup B
      BY <2>1
    <2> HIDE DEF A, B
    <2> QED  BY <2>3, <2>4
  <1>2. A \cap B = {}
    OBVIOUS
  <1>3. f \in Bijection(A, B)
    <2>1. \A X \in A : n + 1 \notin X
      OBVIOUS
    <2>2. ASSUME NEW X \in A, NEW Y \in A, f[X] = f[Y] PROVE X = Y
      <3>1. X = f[X] \ {n + 1} /\ Y = f[Y] \ {n + 1}
        BY <2>1
      <3> QED  BY <3>1, <2>2
    <2>3. f \in [A -> B] /\ \A Y \in B : \E X \in A : f[X] = Y
      OBVIOUS
    <2> HIDE DEF A, B, f
    <2> QED  BY <2>2, <2>3 DEF Bijection, Injection, Surjection, IsInjective
  <1>4. IsFiniteSet(A) /\ Cardinality(A) = 2^n
    BY PowerCounts
  <1>5. Cardinality(A \cup B) = 2^(n + 1)
    BY <1>1, PowerCounts, n + 1 \in Nat
  <1> HIDE DEF A, B, f
  <1>6. IsFiniteSet(B) /\ Cardinality(B) = Cardinality(A)
    BY <1>3, <1>4, FS_Bijection DEF ExistsBijection
  <1>7. Cardinality(A \cup B) = Cardinality(A) + Cardinality(B) - Cardinality(A \cap B)
    BY <1>4, <1>6, FS_Union
  <1>8. Cardinality(A \cap B) = 0
    BY <1>2, FS_EmptySet
  <1> QED  BY <1>4, <1>5, <1>6, <1>7, <1>8, PowerType

(* None is zero.                                                          *)
LEMMA PowerPositive == ASSUME NEW n \in Nat PROVE 2^n \in Nat /\ 2^n >= 1
  <1> DEFINE D == {k \in Nat : 2^k >= 1}
  <1>1. 0 \in D
    OBVIOUS
  <1>2. ASSUME NEW k \in Nat, k \in D PROVE k + 1 \in D
    BY <1>2, PowerStep, PowerType
  <1> HIDE DEF D
  <1>3. Nat \subseteq D
    BY <1>1, <1>2, SetInduction
  <1> QED  BY <1>3, PowerType DEF D

(* The powers of a sum are products.                                      *)
LEMMA PowerSum ==
    ASSUME NEW a \in Nat, NEW b \in Nat
    PROVE  2^(a + b) = 2^a * 2^b
  <1> DEFINE D == {k \in Nat : 2^(a + k) = 2^a * 2^k}
  <1>1. 0 \in D
    <2>1. 2^0 = 1 /\ a + 0 = a
      OBVIOUS
    <2> QED  BY <2>1, PowerType
  <1>2. ASSUME NEW k \in Nat, k \in D PROVE k + 1 \in D
    <2>1. a + (k + 1) = (a + k) + 1
      OBVIOUS
    <2>2. 2^(a + (k + 1)) = 2^(a + k) + 2^(a + k)
      BY <2>1, PowerStep
    <2>3. 2^(k + 1) = 2^k + 2^k
      BY PowerStep
    <2>4. \A x \in Nat, y \in Nat : x * (y + y) = x * y + x * y
      OBVIOUS
    <2>5. 2^a * 2^(k + 1) = 2^a * 2^k + 2^a * 2^k
      BY <2>3, <2>4, PowerType
    <2>6. 2^(a + k) = 2^a * 2^k
      BY <1>2
    <2>7. 2^(a + (k + 1)) = 2^a * 2^(k + 1)
      BY <2>2, <2>5, <2>6
    <2> QED  BY <2>7
  <1> HIDE DEF D
  <1>3. Nat \subseteq D
    BY <1>1, <1>2, SetInduction
  <1> QED  BY <1>3 DEF D

(* A greater exponent gives a greater power.                              *)
LEMMA PowerGrows ==
    ASSUME NEW a \in Nat, NEW b \in Nat, a < b
    PROVE  2^a < 2^b
  <1> DEFINE D == {k \in Nat : 2^a < 2^(a + k + 1)}
  <1>1. 0 \in D
    <2>1. 2^(a + 1) = 2^a + 2^a /\ a + 0 + 1 = a + 1
      BY PowerStep
    <2> QED  BY <2>1, PowerPositive
  <1>2. ASSUME NEW k \in Nat, k \in D PROVE k + 1 \in D
    <2>1. a + (k + 1) + 1 = (a + k + 1) + 1 /\ a + k + 1 \in Nat
      OBVIOUS
    <2>2. 2^(a + (k + 1) + 1) = 2^(a + k + 1) + 2^(a + k + 1)
      BY <2>1, PowerStep
    <2> QED  BY <1>2, <2>1, <2>2, PowerPositive
  <1> HIDE DEF D
  <1>3. b - a - 1 \in Nat /\ b = a + (b - a - 1) + 1
    OBVIOUS
  <1>4. Nat \subseteq D
    BY <1>1, <1>2, SetInduction
  <1> QED  BY <1>3, <1>4 DEF D

-----------------------------------------------------------------------------
(* Different exponents give different powers.                              *)
LEMMA PowersDiffer ==
    ASSUME NEW a \in Nat, NEW b \in Nat, 2^a = 2^b
    PROVE  a = b
  <1>1. CASE a < b
    BY <1>1, PowerGrows, PowerType
  <1>2. CASE b < a
    BY <1>2, PowerGrows, PowerType
  <1> QED  BY <1>1, <1>2

(* scrypt_ilog2 finds the exponent of what libscrypt_scrypt accepts.      *)
LEMMA Logarithm ==
    ASSUME Hash!PasswordHashAssumption, N \in Ns, Hash!Sane
    PROVE  \E t \in 1..SafeN : Hash!ilog2(N) = t /\ N = 2^t
  <1> USE DEF Hash!PasswordHashAssumption
  <1>1. PICK t \in 0..(Width - 1) : N = 2^t
    BY DEF Hash!Sane, Hash!PowerOfTwo
  <1>2. t # 0
    <2>1. N >= 2 /\ 2^0 = 1
      BY DEF Hash!Sane
    <2>2. t = 0 => 2^t = 2^0
      BY Zenon
    <2> QED  BY <1>1, <2>1, <2>2
  <1>3. t <= SafeN
    <2>1. SUFFICES ASSUME SafeN < t PROVE FALSE
      OBVIOUS
    <2>2. 2^t >= 2^(SafeN + 1)
      <3>1. CASE t = SafeN + 1
        BY <3>1, PowerType
      <3>2. CASE SafeN + 1 < t
        BY <3>2, PowerGrows, PowerType
      <3> QED  BY <2>1, <3>1, <3>2
    <2>3. N < 2^(SafeN + 1)
      BY PowerType
    <2> QED  BY <1>1, <2>2, <2>3, PowerType
  <1> DEFINE Least(k) == 2^k >= N /\ \A m \in 1..(k - 1) : 2^m < N
  <1>4. t \in 1..Width /\ Least(t)
    <2>1. \A m \in 1..(t - 1) : 2^m < 2^t
      BY PowerGrows
    <2> QED  BY <1>1, <1>2, <2>1, PowerType
  <1>5. ASSUME NEW k \in 1..Width, Least(k) PROVE k = t
    <2>1. CASE k < t
      BY <1>1, <1>5, <2>1, PowerGrows, PowerType
    <2>2. CASE t < k
      <3>1. t \in 1..(k - 1)
        BY <1>2, <2>2
      <3>2. 2^t < N
        BY <1>5, <3>1
      <3> QED  BY <1>1, <3>2, PowerType
    <2> QED  BY <2>1, <2>2
  <1>6. (CHOOSE k \in 1..Width : Least(k)) = t
    <2> HIDE DEF Least
    <2> QED  BY <1>4, <1>5
  <1>7. Hash!ilog2(N) = t
    <2>1. ~(N < 2) /\ Hash!PowerOfTwo(N)
      BY PowerType DEF Hash!Sane
    <2>2. ~(t - 1 > SafeN)
      BY <1>3
    <2> QED  BY <1>6, <2>1, <2>2 DEF Hash!ilog2
  <1> QED  BY <1>1, <1>2, <1>3, <1>7

(* A number packed from three, the last two of them below F, unpacked.     *)
Unpacks(F, t, a, b, n) ==
    F \in Nat /\ F # 0 /\ t \in Nat /\ a \in 0..(F - 1) /\ b \in 0..(F - 1)
    /\ n = t * (F * F) + a * F + b
    => /\ n \in Nat /\ n \div (F * F) = t
       /\ (n \div F) % F = a /\ n % F = b
(* By the rules of division, as the last two do not reach a whole F.      *)
LEMMA Unpacked ==
    ASSUME NEW F, NEW t, NEW a, NEW b, NEW n
    PROVE  Unpacks(F, t, a, b, n)
  <1> SUFFICES ASSUME F \in Nat, F # 0, t \in Nat, a \in 0..(F - 1), b \in 0..(F - 1),
                      n = t * (F * F) + a * F + b
               PROVE  /\ n \in Nat /\ n \div (F * F) = t
                      /\ (n \div F) % F = a /\ n % F = b
    BY DEF Unpacks
  <1>1. F * F \in Nat /\ t * F \in Nat /\ (t * F) * F \in Nat /\ a * F \in Nat
    OBVIOUS
  <1>2. t * (F * F) = (t * F) * F
    OBVIOUS
  <1>3. a * F + b < F * F
    <2>1. a <= F - 1
      OBVIOUS
    <2>2. a * F <= (F - 1) * F
      BY <2>1
    <2>3. (F - 1) * F = F * F - F
      OBVIOUS
    <2> QED  BY <1>1, <2>2, <2>3
  <1>4. \A x \in Nat, y \in Nat,
  d \in Nat : y < d => (x * d + y) \div d = x /\ (x * d + y) % d = y
    OBVIOUS
  <1>5. n = t * (F * F) + (a * F + b)
    BY <1>1
  <1>6. n = (t * F + a) * F + b
    <2>1. (t * F + a) * F = (t * F) * F + a * F
      OBVIOUS
    <2> QED  BY <1>1, <1>2, <2>1
  <1>7. n \div (F * F) = t
    BY <1>1, <1>3, <1>4, <1>5
  <1>8. n \div F = t * F + a /\ n % F = b
    BY <1>1, <1>4, <1>6
  <1>9. (n \div F) % F = a
    <2>1. (t * F + a) % F = a
      BY <1>4
    <2> QED  BY <1>8, <2>1
  <1> QED  BY <1>1, <1>5, <1>7, <1>8, <1>9

(* What libscrypt_mcf packs, libscrypt_check unpacks.                      *)
LEMMA LineUnpacked ==
    ASSUME Hash!PasswordHashAssumption, N \in Ns, r \in Rs, p \in Ps, Hash!Sane,
           NEW n, n = Hash!Pack(Hash!ilog2(N), r, p)
    PROVE  /\ n # 0 /\ n \div 2^(2 * Field) \in 1..SafeN
           /\ 2^(n \div 2^(2 * Field)) = N
           /\ (n \div 2^Field) % 2^Field = r /\ n % 2^Field = p
  <1> USE DEF Hash!PasswordHashAssumption
  <1> DEFINE F == 2^Field
             W == 2^Width
             D == 2^(2 * Field)
  <1>1. PICK t \in 1..SafeN : Hash!ilog2(N) = t /\ N = 2^t
    BY Logarithm
  <1>2. F \in Nat \ {0} /\ W \in Nat \ {0}
    BY PowerPositive
  <1>3. D = F * F
    <2>1. 2 * Field = Field + Field
      OBVIOUS
    <2> QED  BY <2>1, PowerSum
  <1>4. r \in 0..(F - 1) /\ p \in 0..(F - 1)
    OBVIOUS
  <1>5. (SafeN + 1) * D <= W
    OBVIOUS
  <1>6. n = (t * D + r * F + p) % W
    BY <1>1 DEF Hash!Pack
  <1> DEFINE m == t * D + r * F + p
  <1> HIDE DEF F, W, D
  <1>7. m \in Nat /\ m < W
    <2>1. F * F \in Nat /\ D \in Nat
      BY <1>2, <1>3
    <2>2. r * F + p < F * F
      <3>1. r * F <= (F - 1) * F
        BY <1>2, <1>4
      <3>2. (F - 1) * F = F * F - F
        BY <1>2
      <3>3. r * F \in Nat
        BY <1>2, <1>4
      <3> QED  BY <1>2, <1>4, <2>1, <3>1, <3>2, <3>3
    <2>3. t * D \in Nat /\ (t + 1) * D = t * D + D
      BY <2>1
    <2>4. (t + 1) * D <= (SafeN + 1) * D
      BY <2>1
    <2>5. r * F \in Nat
      BY <1>2, <1>4
    <2>6. (SafeN + 1) * D \in Nat
      BY <2>1
    <2> QED  BY <1>2, <1>3, <1>4, <1>5, <2>1, <2>2, <2>3, <2>4, <2>5, <2>6
  <1>8. n = m
    BY <1>2, <1>6, <1>7
  <1> HIDE DEF m
  <1>9. m = t * (F * F) + r * F + p
    BY <1>3 DEF m
  <1> HIDE DEF Hash!PasswordHashAssumption
  <1>10. /\ n \in Nat /\ n \div (F * F) = t
         /\ (n \div F) % F = r /\ n % F = p
    <2>1. n = t * (F * F) + r * F + p /\ t \in Nat
      BY <1>8, <1>9
    <2>2. F \in Nat /\ F # 0
      BY <1>2
    <2>3. Unpacks(F, t, r, p, n)
      BY Unpacked
    <2> QED  BY <1>4, <2>1, <2>2, <2>3 DEF Unpacks
  <1>11. n # 0
    <2>1. 0 \div (F * F) = 0
      BY <1>2
    <2> QED  BY <1>10, <2>1
  <1>12. n \div D = t
    BY <1>3, <1>10
  <1> QED
    BY <1>1, <1>10, <1>11, <1>12 DEF F, D

-----------------------------------------------------------------------------
(* Who has called libscrypt_scrypt, with parameters it does not refuse...  *)
HashCalls ==
    /\ caller \in {"hash", "check"}
    /\ pc \in {"salt", "mcf", "kept"} => caller = "hash"
    /\ pc \in {"compare", "checked"} => caller = "check"
    /\ pc # "salt" => N \in Ns /\ r \in Rs /\ p \in Ps
(* ...which it has accepted...                                            *)
HashSane == pc \in {"allocate", "mix", "free", "mcf", "kept"} \/ caller = "check" => Hash!Sane
(* ...of what the hash is...                                               *)
HashMade ==
    pc \in {"free", "mcf", "compare"} =>
        hashbuf = <<IF caller = "hash" THEN passphrase ELSE input, saltbuf, N, r, p>>
(* ...and what the line keeps of it: these parameters and no others.       *)
HashKept ==
    pc = "kept" \/ caller = "check" =>
        /\ line.params = Hash!Pack(Hash!ilog2(N), r, p) /\ line.salt = saltbuf
        /\ line.hash = <<passphrase, saltbuf, N, r, p>>
(* Memory is held between allocation and the end only.                     *)
HashFrees == pc \notin {"allocate", "mix", "free"} /\ unmapped => held = {}
(* What hash_password and libscrypt_check keep.                           *)
HashInv == HashCalls /\ HashSane /\ HashMade /\ HashKept /\ HashFrees /\ Hash!OnlyOwnPassword

(* At the call of hash_password...                                         *)
LEMMA HashInit == Hash!Init => HashInv
  BY DEF Hash!Init, HashInv, HashCalls, HashSane, HashMade, HashKept, HashFrees,
      Hash!OnlyOwnPassword

(* GenerateSalt keeps it.                                                *)
LEMMA HashGenerateSalt ==
    ASSUME Hash!PasswordHashAssumption, HashInv, Hash!GenerateSalt
    PROVE  HashInv'
  <1> USE DEF Hash!GenerateSalt, Hash!arguments
  <1>0. HashCalls /\ HashSane /\ HashMade
        /\ HashKept /\ HashFrees /\ Hash!OnlyOwnPassword
    BY DEF HashInv
  <1>1. HashCalls'
    BY <1>0 DEF HashCalls
  <1>2. HashSane'
    BY <1>0 DEF HashSane, Hash!Sane, Hash!PowerOfTwo, HashCalls
  <1>3. HashMade'
    BY <1>0 DEF HashMade
  <1>4. HashKept'
    BY <1>0 DEF HashKept, Hash!Pack, Hash!ilog2, Hash!PowerOfTwo, HashCalls, HashSane
  <1>5. HashFrees'
    BY <1>0 DEF HashFrees
  <1>6. Hash!OnlyOwnPassword'
    BY <1>0 DEF Hash!OnlyOwnPassword
  <1> QED
    BY <1>1, <1>2, <1>3, <1>4, <1>5, <1>6 DEF HashInv

(* Begin keeps it.                                                       *)
LEMMA HashBegin ==
    ASSUME Hash!PasswordHashAssumption, HashInv, Hash!Begin
    PROVE  HashInv'
  <1> USE DEF Hash!Begin, Hash!Fail, Hash!arguments
  <1>0. HashCalls /\ HashSane /\ HashMade
        /\ HashKept /\ HashFrees /\ Hash!OnlyOwnPassword
    BY DEF HashInv
  <1>1. HashCalls'
    BY <1>0 DEF HashCalls
  <1>2. HashSane'
    BY <1>0 DEF HashSane, Hash!Sane, Hash!PowerOfTwo
  <1>3. HashMade'
    BY <1>0 DEF HashMade
  <1>4. HashKept'
    BY <1>0 DEF HashKept, Hash!Pack, Hash!ilog2, Hash!PowerOfTwo
  <1>5. HashFrees'
    BY <1>0 DEF HashFrees
  <1>6. Hash!OnlyOwnPassword'
    BY <1>0 DEF Hash!OnlyOwnPassword
  <1> QED
    BY <1>1, <1>2, <1>3, <1>4, <1>5, <1>6 DEF HashInv

(* Allocate keeps it.                                                    *)
LEMMA HashAllocate ==
    ASSUME Hash!PasswordHashAssumption, HashInv, NEW block \in {"B", "XY", "V"},
    Hash!Allocate(block)
    PROVE  HashInv'
  <1> USE DEF Hash!Allocate, Hash!Fail, Hash!arguments
  <1>0. HashCalls /\ HashSane /\ HashMade
        /\ HashKept /\ HashFrees /\ Hash!OnlyOwnPassword
    BY DEF HashInv
  <1>1. HashCalls'
    BY <1>0 DEF HashCalls
  <1>2. HashSane'
    BY <1>0 DEF HashSane, Hash!Sane, Hash!PowerOfTwo
  <1>3. HashMade'
    BY <1>0 DEF HashMade
  <1>4. HashKept'
    BY <1>0 DEF HashKept, Hash!Pack, Hash!ilog2, Hash!PowerOfTwo
  <1>5. HashFrees'
    BY <1>0 DEF HashFrees
  <1>6. Hash!OnlyOwnPassword'
    BY <1>0 DEF Hash!OnlyOwnPassword
  <1> QED
    BY <1>1, <1>2, <1>3, <1>4, <1>5, <1>6 DEF HashInv

(* Compute keeps it.                                                     *)
LEMMA HashCompute ==
    ASSUME Hash!PasswordHashAssumption, HashInv, Hash!Compute
    PROVE  HashInv'
  <1> USE DEF Hash!Compute, Hash!arguments
  <1>0. HashCalls /\ HashSane /\ HashMade
        /\ HashKept /\ HashFrees /\ Hash!OnlyOwnPassword
    BY DEF HashInv
  <1>1. HashCalls'
    BY <1>0 DEF HashCalls
  <1>2. HashSane'
    BY <1>0 DEF HashSane, Hash!Sane, Hash!PowerOfTwo
  <1>3. HashMade'
    BY <1>0 DEF HashMade
  <1>4. HashKept'
    BY <1>0 DEF HashKept, Hash!Pack, Hash!ilog2, Hash!PowerOfTwo
  <1>5. HashFrees'
    BY <1>0 DEF HashFrees
  <1>6. Hash!OnlyOwnPassword'
    BY <1>0 DEF Hash!OnlyOwnPassword
  <1> QED
    BY <1>1, <1>2, <1>3, <1>4, <1>5, <1>6 DEF HashInv

(* Free keeps it.                                                        *)
LEMMA HashFree ==
    ASSUME Hash!PasswordHashAssumption, HashInv, Hash!Free
    PROVE  HashInv'
  <1> USE DEF Hash!Free, Hash!Fail, Hash!arguments
  <1>0. HashCalls /\ HashSane /\ HashMade
        /\ HashKept /\ HashFrees /\ Hash!OnlyOwnPassword
    BY DEF HashInv
  <1>1. HashCalls'
    BY <1>0 DEF HashCalls
  <1>2. HashSane'
    BY <1>0 DEF HashSane, Hash!Sane, Hash!PowerOfTwo
  <1>3. HashMade'
    BY <1>0 DEF HashMade
  <1>4. HashKept'
    BY <1>0 DEF HashKept, Hash!Pack, Hash!ilog2, Hash!PowerOfTwo
  <1>5. HashFrees'
    BY <1>0 DEF HashFrees
  <1>6. Hash!OnlyOwnPassword'
    BY <1>0 DEF Hash!OnlyOwnPassword
  <1> QED
    BY <1>1, <1>2, <1>3, <1>4, <1>5, <1>6 DEF HashInv

(* Mcf keeps it.                                                         *)
LEMMA HashMcf ==
    ASSUME Hash!PasswordHashAssumption, HashInv, Hash!Mcf
    PROVE  HashInv'
  <1> USE DEF Hash!Mcf, Hash!arguments
  <1>0. HashCalls /\ HashSane /\ HashMade
        /\ HashKept /\ HashFrees /\ Hash!OnlyOwnPassword
    BY DEF HashInv
  <1>1. HashCalls'
    BY <1>0 DEF HashCalls
  <1>2. HashSane'
    BY <1>0 DEF HashSane, Hash!Sane, Hash!PowerOfTwo
  <1>3. HashMade'
    BY <1>0 DEF HashMade
  <1>4. HashKept'
    <2>1. CASE pc' = "kept"
      <3>1. /\ line' = [params |-> Hash!Pack(Hash!ilog2(N), r, p), salt |-> saltbuf,
                        hash |-> hashbuf]
            /\ hashbuf = <<passphrase, saltbuf, N, r, p>>
        BY <1>0, <2>1 DEF HashCalls, HashMade
      <3>2. N' = N /\ r' = r /\ p' = p /\ saltbuf' = saltbuf /\ passphrase' = passphrase
        OBVIOUS
      <3>3. Hash!Pack(Hash!ilog2(N), r, p)' = Hash!Pack(Hash!ilog2(N), r, p)
        BY <3>2 DEF Hash!Pack, Hash!ilog2, Hash!PowerOfTwo
      <3> QED  BY <3>1, <3>2, <3>3 DEF HashKept
    <2>2. CASE pc' # "kept"
      BY <1>0, <2>2 DEF HashCalls, HashKept
    <2> QED  BY <2>1, <2>2
  <1>5. HashFrees'
    BY <1>0 DEF HashFrees
  <1>6. Hash!OnlyOwnPassword'
    BY <1>0 DEF Hash!OnlyOwnPassword
  <1> QED
    BY <1>1, <1>2, <1>3, <1>4, <1>5, <1>6 DEF HashInv

(* Check keeps it.                                                       *)
LEMMA HashCheck ==
    ASSUME Hash!PasswordHashAssumption, HashInv, Hash!Check
    PROVE  HashInv'
  <1> USE DEF Hash!Check, Hash!arguments
  <1>0. HashCalls /\ HashSane /\ HashMade
        /\ HashKept /\ HashFrees /\ Hash!OnlyOwnPassword
    BY DEF HashInv
  <1>7. /\ N' = N /\ r' = r /\ p' = p /\ saltbuf' = saltbuf /\ line' = line
        /\ passphrase' = passphrase /\ pc' = "scrypt"
    <2>1. /\ line.params # 0 /\ line.params \div 2^(2 * Field) \in 1..SafeN
          /\ 2^(line.params \div 2^(2 * Field)) = N
          /\ (line.params \div 2^Field) % 2^Field = r /\ line.params % 2^Field = p
      BY <1>0, LineUnpacked DEF HashCalls, HashSane, HashKept
    <2>2. SafeN \in Nat
      BY DEF Hash!PasswordHashAssumption
    <2> QED  BY <1>0, <2>1, <2>2 DEF HashKept
  <1>1. HashCalls'
    BY <1>0, <1>7 DEF HashCalls
  <1>2. HashSane'
    BY <1>0, <1>7 DEF HashSane, Hash!Sane, Hash!PowerOfTwo
  <1>3. HashMade'
    BY <1>0 DEF HashMade
  <1>4. HashKept'
    BY <1>0, <1>7 DEF HashKept, Hash!Pack, Hash!ilog2, Hash!PowerOfTwo
  <1>5. HashFrees'
    BY <1>0 DEF HashFrees
  <1>6. Hash!OnlyOwnPassword'
    BY <1>0, <1>7 DEF Hash!OnlyOwnPassword
  <1> QED
    BY <1>1, <1>2, <1>3, <1>4, <1>5, <1>6 DEF HashInv

(* Compare keeps it.                                                     *)
LEMMA HashCompare ==
    ASSUME Hash!PasswordHashAssumption, HashInv, Hash!Compare
    PROVE  HashInv'
  <1> USE DEF Hash!Compare, Hash!arguments
  <1>0. HashCalls /\ HashSane /\ HashMade
        /\ HashKept /\ HashFrees /\ Hash!OnlyOwnPassword
    BY DEF HashInv
  <1>1. HashCalls'
    BY <1>0 DEF HashCalls
  <1>2. HashSane'
    BY <1>0 DEF HashSane, Hash!Sane, Hash!PowerOfTwo
  <1>3. HashMade'
    BY <1>0 DEF HashMade
  <1>4. HashKept'
    BY <1>0 DEF HashKept, Hash!Pack, Hash!ilog2, Hash!PowerOfTwo
  <1>5. HashFrees'
    BY <1>0 DEF HashFrees
  <1>6. Hash!OnlyOwnPassword'
    <2>1. hashbuf = <<input, saltbuf, N, r, p>> /\ line.hash = <<passphrase, saltbuf, N, r, p>>
      BY <1>0 DEF HashCalls, HashMade, HashKept
    <2>2. line.hash = hashbuf <=> input = passphrase
      BY <2>1
    <2> QED  BY <2>2 DEF Hash!OnlyOwnPassword
  <1> QED
    BY <1>1, <1>2, <1>3, <1>4, <1>5, <1>6 DEF HashInv

(* So every step keeps it.                                                *)
LEMMA HashStep ==
    ASSUME Hash!PasswordHashAssumption, HashInv, [Hash!Next]_(Hash!vars)
    PROVE  HashInv'
  <1>1. CASE UNCHANGED Hash!vars
    BY <1>1 DEF Hash!vars, HashInv, HashCalls, HashSane, Hash!Sane, Hash!PowerOfTwo, HashMade,
        HashKept, Hash!Pack, Hash!ilog2, HashFrees, Hash!OnlyOwnPassword
  <1> QED
    BY <1>1, HashGenerateSalt, HashBegin, HashAllocate, HashCompute, HashFree, HashMcf,
        HashCheck, HashCompare DEF Hash!Next

(* It has what is promised in it: the line is unpacked to what it was made*)
(* of.                                                                    *)
LEMMA HashHolds ==
    ASSUME Hash!PasswordHashAssumption, HashInv
    PROVE  Hash!OnlyOwnPassword /\ Hash!LineUsable /\ Hash!LineSane /\ Hash!NothingHeld
  <1>0. HashCalls /\ HashSane /\ HashKept /\ HashFrees /\ Hash!OnlyOwnPassword
    BY DEF HashInv
  <1>1. Hash!LineUsable
    <2>1. SUFFICES ASSUME pc = "kept"
          PROVE  line.params # 0 /\ line.params \div 2^(2 * Field) <= SafeN
      BY DEF Hash!LineUsable
    <2>2. line.params # 0 /\ line.params \div 2^(2 * Field) \in 1..SafeN
      BY <1>0, <2>1, LineUnpacked DEF HashCalls, HashSane, HashKept
    <2> QED  BY <2>2 DEF Hash!PasswordHashAssumption
  <1>2. Hash!LineSane
    BY <1>0 DEF HashSane, Hash!LineSane
  <1>3. Hash!NothingHeld
    BY <1>0 DEF HashFrees, Hash!NothingHeld
  <1> QED  BY <1>0, <1>1, <1>2, <1>3

(* A password passes the check against a line made of it and no other,     *)
(* every line that is made can be used, and no memory is kept.             *)
THEOREM PasswordsTold == Hash!Spec => []OnlyOwnPassword
  <1>1. Hash!PasswordHashAssumption
    BY LibrariesAssumption
  <1>2. HashInv => OnlyOwnPassword
    BY <1>1, HashHolds DEF OnlyOwnPassword
  <1> QED
    BY <1>1, <1>2, HashInit, HashStep, PTL DEF Hash!Spec
=============================================================================
