---------------------------------- MODULE Pbkdf2 -----------------------------------
(***************************************************************************)
(* libscrypt_PBKDF2_SHA256 and the HMAC it is made of.  The hash is not    *)
(* computed: its bytes are named by what was hashed, and a byte is the set *)
(* of the names whose exclusive or it is.  An SHA-256 context is what has  *)
(* been fed to it (Sha256Stream shows that it is no more than that).       *)
(***************************************************************************)
EXTENDS Integers, Sequences, SequencesExt

CONSTANTS BlockLen,      \* 64
          HashLen,       \* 32
          KeyLengths, SaltLengths, Counts, Lengths    \* arguments to call it with

Pbkdf2Assumption ==
    /\ HashLen \in Nat \ {0} /\ BlockLen \in Nat /\ HashLen <= BlockLen
    /\ KeyLengths \subseteq Nat /\ SaltLengths \subseteq Nat /\ Lengths \subseteq Nat
    /\ Counts \subseteq Nat \ {0}

VARIABLES passwd, salt, c, dkLen,    \* arguments
          PShctx, hctx, U, T,        \* locals
          i, j, buf,
          pc

vars == <<passwd, salt, c, dkLen, PShctx, hctx, U, T, i, j, buf, pc>>
arguments == <<passwd, salt, c, dkLen>>

(* Bytes.                                                                  *)
Named(of, at) == {[of |-> of, at |-> at]}
Xor(a, b)     == (a \cup b) \ (a \cap b)
Hash(m)       == [k \in 1..HashLen |-> Named(m, k)]
Input(n, from) == [k \in 1..n |-> Named(<<>>, from + k)]
ivec(n)       == <<Named(<<>>, -n)>>      \* be32enc(ivec, n)
InnerPad      == Named(<<>>, 36)
OuterPad      == Named(<<>>, 92)

NoContext == [ictx |-> <<>>, octx |-> <<>>]

Init ==
    /\ passwd = <<>> /\ salt = <<>> /\ c = 1 /\ dkLen = 0
    /\ PShctx = NoContext /\ hctx = NoContext /\ U = <<>> /\ T = <<>>
    /\ i = 0 /\ j = 0 /\ buf = <<>> /\ pc = "begin"

-----------------------------------------------------------------------------
KeyOf(K) == IF Len(K) > BlockLen THEN Hash(K) ELSE K
Masked(K, pad) == [k \in 1..BlockLen |-> IF k <= Len(K) THEN Xor(pad, K[k]) ELSE pad]

HmacInit(K)      == [ictx |-> Masked(KeyOf(K), InnerPad), octx |-> Masked(KeyOf(K), OuterPad)]
HmacUpdate(h, m) == [h EXCEPT !.ictx = @ \o m]
HmacFinal(h)     == Hash(h.octx \o Hash(h.ictx))

Begin ==
    /\ pc = "begin" /\ pc' = "block"
    /\ \E n \in KeyLengths : passwd' = Input(n, 100)
    /\ \E n \in SaltLengths : salt' = Input(n, 200)
    /\ c' \in Counts /\ dkLen' \in Lengths
    /\ PShctx' = HmacUpdate(HmacInit(passwd'), salt')
    /\ UNCHANGED <<hctx, U, T, i, j, buf>>

(* U_1, from a copy of the context that has seen password and salt.        *)
FirstRoundShared ==
    /\ pc = "block" /\ i * HashLen < dkLen /\ pc' = "rounds"
    /\ PShctx' = HmacUpdate(PShctx, ivec(i + 1)) /\ hctx' = PShctx'
    /\ U' = HmacFinal(hctx') /\ T' = U' /\ j' = 2
    /\ UNCHANGED <<arguments, i, buf>>
FirstRound ==
    /\ pc = "block" /\ i * HashLen < dkLen /\ pc' = "rounds"
    /\ hctx' = HmacUpdate(PShctx, ivec(i + 1))
    /\ U' = HmacFinal(hctx') /\ T' = U' /\ j' = 2
    /\ UNCHANGED <<arguments, PShctx, i, buf>>

NextRound ==
    /\ pc = "rounds" /\ j <= c
    /\ hctx' = HmacUpdate(HmacInit(passwd), U)
    /\ U' = HmacFinal(hctx') /\ T' = [k \in 1..HashLen |-> Xor(T[k], U'[k])]
    /\ j' = j + 1
    /\ UNCHANGED <<arguments, PShctx, i, buf, pc>>

StoreBlock ==
    LET left == dkLen - i * HashLen
        clen == IF left > HashLen THEN HashLen ELSE left
    IN /\ pc = "rounds" /\ j > c
       /\ buf' = buf \o SubSeq(T, 1, clen)
       /\ i' = i + 1 /\ pc' = "block"
       /\ UNCHANGED <<arguments, PShctx, hctx, U, T, j>>

Done ==
    /\ pc = "block" /\ i * HashLen >= dkLen
    /\ PShctx' = NoContext /\ pc' = "done"
    /\ UNCHANGED <<arguments, hctx, U, T, i, j, buf>>

Next == Begin \/ FirstRound \/ NextRound \/ StoreBlock \/ Done

-----------------------------------------------------------------------------
(* RFC 2104 and RFC 2898.                                                  *)
HMAC(K, m) ==
    LET key == IF Len(K) > BlockLen THEN Hash(K) ELSE K
        padded == key \o [k \in 1..(BlockLen - Len(key)) |-> {}]
        masked(pad) == [k \in 1..BlockLen |-> Xor(padded[k], pad)]
    IN Hash(masked(OuterPad) \o Hash(masked(InnerPad) \o m))
RoundOf(n)    == LET u[k \in Nat] == IF k = 1 THEN HMAC(passwd, salt \o ivec(n))
                                     ELSE HMAC(passwd, u[k - 1])
                 IN [k \in 1..c |-> u[k]]
BlockOf(n)    == FoldLeft(LAMBDA t, u : [k \in 1..HashLen |-> Xor(t[k], u[k])],
                          [k \in 1..HashLen |-> {}], RoundOf(n))
DerivedKey    == SubSeq(FlattenSeq([n \in 1..dkLen |-> BlockOf(n)]), 1, dkLen)

(* The key is that of the standard, for passwords shorter and longer than  *)
(* a block of the hash and keys that end within one of its blocks.         *)
KeyIsStandard == pc = "done" => buf = DerivedKey

(* While it is computed the buffer is never written beyond its end.        *)
WithinBuffer == Len(buf) <= dkLen
=============================================================================
