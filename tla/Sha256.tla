---------------------------------- MODULE Sha256 -----------------------------------
(***************************************************************************)
(* The compression function of SHA-256: SHA256_Transform, one round a      *)
(* step, over the blocks of padded messages.  How messages are cut into    *)
(* blocks is the matter of Sha256Stream.                                   *)
(***************************************************************************)
EXTENDS Integers, Sequences, Words

CONSTANTS Messages,      \* padded messages, sequences of bytes
          Digest(_)      \* what the standard says the digest of one is, as words

MessagesAssumption ==
    \A m \in Messages : m \in Seq(Byte) /\ m # <<>> /\ Len(m) % 64 = 0

VARIABLES message,       \* bytes not yet begun
          asked,         \* all of the message
          state,         \* ctx->state
          W, S,          \* message schedule and working variables
          i              \* round, 64 between two blocks

vars == <<message, asked, state, W, S, i>>

Initial == << Word(\h6A09, \hE667), Word(\hBB67, \hAE85), Word(\h3C6E, \hF372),
              Word(\hA54F, \hF53A), Word(\h510E, \h527F), Word(\h9B05, \h688C),
              Word(\h1F83, \hD9AB), Word(\h5BE0, \hCD19) >>

K == << Word(\h428a, \h2f98), Word(\h7137, \h4491), Word(\hb5c0, \hfbcf), Word(\he9b5, \hdba5),
       Word(\h3956, \hc25b), Word(\h59f1, \h11f1), Word(\h923f, \h82a4), Word(\hab1c, \h5ed5),
       Word(\hd807, \haa98), Word(\h1283, \h5b01), Word(\h2431, \h85be), Word(\h550c, \h7dc3),
       Word(\h72be, \h5d74), Word(\h80de, \hb1fe), Word(\h9bdc, \h06a7), Word(\hc19b, \hf174),
       Word(\he49b, \h69c1), Word(\hefbe, \h4786), Word(\h0fc1, \h9dc6), Word(\h240c, \ha1cc),
       Word(\h2de9, \h2c6f), Word(\h4a74, \h84aa), Word(\h5cb0, \ha9dc), Word(\h76f9, \h88da),
       Word(\h983e, \h5152), Word(\ha831, \hc66d), Word(\hb003, \h27c8), Word(\hbf59, \h7fc7),
       Word(\hc6e0, \h0bf3), Word(\hd5a7, \h9147), Word(\h06ca, \h6351), Word(\h1429, \h2967),
       Word(\h27b7, \h0a85), Word(\h2e1b, \h2138), Word(\h4d2c, \h6dfc), Word(\h5338, \h0d13),
       Word(\h650a, \h7354), Word(\h766a, \h0abb), Word(\h81c2, \hc92e), Word(\h9272, \h2c85),
       Word(\ha2bf, \he8a1), Word(\ha81a, \h664b), Word(\hc24b, \h8b70), Word(\hc76c, \h51a3),
       Word(\hd192, \he819), Word(\hd699, \h0624), Word(\hf40e, \h3585), Word(\h106a, \ha070),
       Word(\h19a4, \hc116), Word(\h1e37, \h6c08), Word(\h2748, \h774c), Word(\h34b0, \hbcb5),
       Word(\h391c, \h0cb3), Word(\h4ed8, \haa4a), Word(\h5b9c, \hca4f), Word(\h682e, \h6ff3),
       Word(\h748f, \h82ee), Word(\h78a5, \h636f), Word(\h84c8, \h7814), Word(\h8cc7, \h0208),
       Word(\h90be, \hfffa), Word(\ha450, \h6ceb), Word(\hbef9, \ha3f7), Word(\hc671, \h78f2) >>

Init ==
    /\ asked = <<>> /\ message = <<>> /\ state = Initial
    /\ W = <<>> /\ S = <<>> /\ i = 64

-----------------------------------------------------------------------------
Ch(x, y, z)  == (x \cap y) \cup (z \ x)
Maj(x, y, z) == (x \cap (y \cup z)) \cup (y \cap z)
Xor3(u, v, w) == Xor(u, Xor(v, w))
S0(x) == Xor3(ROTR(x, 2), ROTR(x, 13), ROTR(x, 22))
S1(x) == Xor3(ROTR(x, 6), ROTR(x, 11), ROTR(x, 25))
s0(x) == Xor3(ROTR(x, 7), ROTR(x, 18), SHR(x, 3))
s1(x) == Xor3(ROTR(x, 17), ROTR(x, 19), SHR(x, 10))

(* RND on the working variables, which stay where they are while their     *)
(* roles go round: RNDr.                                                   *)
Role(k, n) == ((64 + k - n) % 8) + 1
RNDr(s, n) ==
    LET v(k) == s[Role(k, n)]
        t0   == Plus(Plus(v(7), S1(v(4))), Plus(Ch(v(4), v(5), v(6)), Plus(W[n + 1], K[n + 1])))
        t1   == Plus(S0(v(0)), Maj(v(0), v(1), v(2)))
    IN [s EXCEPT ![Role(3, n)] = Plus(@, t0), ![Role(7, n)] = Plus(t0, t1)]

Call ==
    /\ asked = <<>> /\ asked' \in Messages /\ message' = asked'
    /\ UNCHANGED <<state, W, S, i>>

Begin ==
    /\ i = 64 /\ S = <<>> /\ message # <<>>
    /\ W' = be32dec_vect(SubSeq(message, 1, 64)) /\ S' = state /\ i' = 0
    /\ message' = SubSeq(message, 65, Len(message))
    /\ UNCHANGED <<asked, state>>

(* The message schedule, a word a step.                                    *)
Schedule ==
    /\ Len(W) \in 16..63
    /\ LET w(n) == W[Len(W) + 1 - n]
       IN W' = Append(W, Plus(Plus(s1(w(2)), w(7)), Plus(s0(w(15)), w(16))))
    /\ UNCHANGED <<message, asked, state, S, i>>

Round ==
    /\ Len(W) = 64 /\ i < 64
    /\ i' = i + 1 /\ S' = RNDr(S, i)
    /\ UNCHANGED <<message, asked, state, W>>

Mix ==
    /\ i = 64 /\ S # <<>>
    /\ state' = [k \in 1..8 |-> Plus(state[k], S[k])] /\ W' = <<>> /\ S' = <<>>
    /\ UNCHANGED <<message, asked, i>>

Next == Call \/ Begin \/ Schedule \/ Round \/ Mix

-----------------------------------------------------------------------------
(* SHA256_Transform computes the digests the standard gives for its        *)
(* examples.                                                               *)
DigestIsStandard == asked # <<>> /\ message = <<>> /\ S = <<>> => state = Digest(asked)
=============================================================================
