------------------------------- MODULE PasswordHash --------------------------------
(***************************************************************************)
(* From a password to the line kept in the database and back:              *)
(* BlogSystem::hash_password, libscrypt_scrypt with its memory,            *)
(* libscrypt_mcf, which packs the parameters, and libscrypt_check, which   *)
(* unpacks them and hashes again.  The hash is its arguments: two are      *)
(* equal only if these are.  Base64 gives back what it encodes (Base64).   *)
(***************************************************************************)
EXTENDS Integers

CONSTANTS Passwords,
          Ns, Rs, Ps,      \* parameters hash_password is called with
          Width,           \* bits of uint32_t
          Field,           \* bits of uint8_t, and of r and p in the line
          SafeN            \* SCRYPT_SAFE_N

PasswordHashAssumption ==
    /\ Width \in Nat /\ Field \in Nat /\ SafeN \in Nat /\ SafeN < Width
    /\ (SafeN + 1) * 2^(2 * Field) <= 2^Width
    /\ Ns \subseteq 0..(2^(SafeN + 1) - 1)
    /\ Rs \subseteq 0..(2^Field - 1) /\ Ps \subseteq 0..(2^Field - 1)

VARIABLES passphrase, N, r, p,    \* arguments of hash_password
          pc,
          caller,    \* of libscrypt_scrypt: "hash" or "check"
          held,      \* memory allocated
          unmapped,  \* munmap did not fail
          hashbuf, salt,
          line,      \* dst, written or not
          input,     \* the password checked
          verdict    \* what libscrypt_check returned

vars == <<passphrase, N, r, p, pc, caller, held, unmapped, hashbuf, salt, line, input, verdict>>
arguments == <<passphrase, N, r, p>>
NoLine == [params |-> 0]

Init ==
    /\ passphrase = "none" /\ N = 0 /\ r = 0 /\ p = 0
    /\ pc = "salt" /\ caller = "hash" /\ held = {} /\ unmapped = TRUE
    /\ hashbuf = <<>> /\ salt = "none" /\ line = NoLine /\ input = "none" /\ verdict = "none"

-----------------------------------------------------------------------------
GenerateSalt ==
    /\ pc = "salt"
    /\ passphrase' \in Passwords /\ N' \in Ns /\ r' \in Rs /\ p' \in Ps
    /\ \/ salt' = "salt" /\ pc' = "scrypt"
       \/ pc' = "failed" /\ UNCHANGED salt
    /\ UNCHANGED <<caller, held, unmapped, hashbuf, line, input, verdict>>

(* libscrypt_scrypt.                                                       *)
PowerOfTwo(n) == \E k \in 0..(Width - 1) : n = 2^k
Sane == r # 0 /\ p # 0 /\ PowerOfTwo(N) /\ N >= 2
Fail == IF caller = "hash" THEN pc' = "failed" /\ UNCHANGED verdict
                           ELSE pc' = "checked" /\ verdict' = "error"

Begin ==
    /\ pc = "scrypt"
    /\ IF Sane THEN pc' = "allocate" /\ UNCHANGED verdict ELSE Fail
    /\ UNCHANGED <<arguments, caller, held, unmapped, hashbuf, salt, line, input>>

Allocate(block) ==
    /\ pc = "allocate" /\ block \notin held
    /\ block = CASE held = {} -> "B" [] held = {"B"} -> "XY" [] OTHER -> "V"
    /\ \/ /\ held' = held \cup {block}
          /\ pc' = IF block = "V" THEN "mix" ELSE "allocate"
          /\ UNCHANGED verdict
       \/ held' = {} /\ Fail
    /\ UNCHANGED <<arguments, caller, unmapped, hashbuf, salt, line, input>>

Compute ==
    /\ pc = "mix" /\ pc' = "free"
    /\ hashbuf' = <<IF caller = "hash" THEN passphrase ELSE input, salt, N, r, p>>
    /\ UNCHANGED <<arguments, caller, held, unmapped, salt, line, input, verdict>>

Free ==
    /\ pc = "free" /\ unmapped' \in BOOLEAN
    /\ held' = IF unmapped' THEN {} ELSE {"V"}
    /\ IF unmapped'
       THEN pc' = (IF caller = "hash" THEN "mcf" ELSE "compare") /\ UNCHANGED verdict
       ELSE Fail
    /\ UNCHANGED <<arguments, caller, hashbuf, salt, line, input>>

-----------------------------------------------------------------------------
(* scrypt_ilog2, and the line: t, r and p in one number.                   *)
None == 2^Width - 1                 \* (uint32_t) -1
ilog2(n) ==
    LET t == CHOOSE k \in 1..Width : 2^k >= n /\ \A m \in 1..(k - 1) : 2^m < n
    IN IF n < 2 \/ ~PowerOfTwo(n) \/ t - 1 > SafeN THEN None ELSE t

PackOverlapping(t, a, b) == (t * 2^Field + a * 2^Field + b) % 2^Width
Pack(t, a, b) == (t * 2^(2 * Field) + a * 2^Field + b) % 2^Width

Mcf ==
    /\ pc = "mcf"
    /\ IF ilog2(N) < 1 THEN pc' = "failed" /\ UNCHANGED line
       ELSE /\ line' = [params |-> Pack(ilog2(N), r, p), salt |-> salt, hash |-> hashbuf]
            /\ pc' = "kept"
    /\ UNCHANGED <<arguments, caller, held, unmapped, hashbuf, salt, input, verdict>>

(* libscrypt_check, up to its call of libscrypt_scrypt.  A line with       *)
(* params 0 is refused.                                                    *)
Check ==
    /\ pc = "kept" /\ input' \in Passwords /\ caller' = "check" /\ salt' = line.salt
    /\ LET t == line.params \div 2^(2 * Field)
       IN IF line.params = 0 \/ t > SafeN
          THEN pc' = "checked" /\ verdict' = "error" /\ UNCHANGED <<N, r, p>>
          ELSE /\ N' = 2^t /\ r' = (line.params \div 2^Field) % 2^Field
               /\ p' = line.params % 2^Field
               /\ pc' = "scrypt" /\ UNCHANGED verdict
    /\ hashbuf' = <<>> /\ UNCHANGED <<passphrase, held, unmapped, line>>

Compare ==
    /\ pc = "compare" /\ pc' = "checked"
    /\ verdict' = IF line.hash = hashbuf THEN "right" ELSE "wrong"
    /\ UNCHANGED <<arguments, caller, held, unmapped, hashbuf, salt, line, input>>

Next == GenerateSalt \/ Begin \/ (\E b \in {"B", "XY", "V"} : Allocate(b)) \/ Compute \/ Free
        \/ Mcf \/ Check \/ Compare

Spec == Init /\ [][Next]_vars

-----------------------------------------------------------------------------
(* A password is accepted if it is the one the line was made of, and only  *)
(* then.                                                                   *)
OnlyOwnPassword ==
    pc = "checked" /\ verdict # "error" => (verdict = "right") = (input = passphrase)

(* libscrypt_check can read every line libscrypt_mcf made: it does not     *)
(* refuse the parameters it finds there...                                 *)
LineUsable ==
    pc = "kept" => line.params # 0 /\ line.params \div 2^(2 * Field) <= SafeN

(* ...and neither does libscrypt_scrypt, so that only a want of memory can *)
(* keep a password from being checked.                                     *)
LineSane == pc = "scrypt" /\ caller = "check" => Sane

(* Whichever step fails, the memory is given back, unless munmap fails.    *)
NothingHeld == pc \in {"failed", "mcf", "kept", "compare", "checked"} /\ unmapped => held = {}
=============================================================================
