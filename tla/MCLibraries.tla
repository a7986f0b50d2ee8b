-------------------------------- MODULE MCLibraries --------------------------------
(***************************************************************************)
(* The libraries LightBlog calls, for TLC: sqlite_modern_cpp's statements  *)
(* and the parts of libscrypt.  A behaviour is one call of one of them;    *)
(* the others stay at their beginning.                                     *)
(*                                                                         *)
(* SHA-256 and smix run on real words with the examples of the standards,  *)
(* and on symbolic bytes and blocks, scaled down, for every way to be      *)
(* called.                                                                 *)
(***************************************************************************)
EXTENDS Libraries, Sequences, SequencesExt

VARIABLES called,   \* the part that is under way
    message, asked, sha, W, S, round,
    ctx, fed, digest,
    passwd, salt, c, dkLen, PShctx, hctx, U, T, i, j, buf, pcKey,
    arg, X, Y, V, k, order, pcMix,
    src, targsize, state, target, tarindex, padding, result

rounds    == <<message, asked, sha, W, S, round>>
stream    == <<ctx, fed, digest>>
key       == <<passwd, salt, c, dkLen, PShctx, hctx, U, T, i, j, buf, pcKey>>
mixing    == <<arg, X, Y, V, k, order, pcMix>>
base64    == <<src, targsize, state, target, tarindex, padding, result>>
vars      == <<called, statement, rounds, stream, key, mixing, base64, hash>>

(* Statements with two parameters, up to two rows, executed up to twice.   *)
MCParams   == 2
MCRows     == 0..2
MCMaxCalls == 2

(* Words of eight bits instead of 32, fields of two instead of eight.  The *)
(* greatest N, which libscrypt_mcf should refuse and does not, is left out.*)
MCPasswords == {"one", "other"}
MCNs        == 0..127
MCSizes     == 0..3
MCWidth     == 8
MCField     == 2
MCSafeN     == 6

Examples == INSTANCE Vectors

Rounds == INSTANCE Sha256 WITH
    Messages <- Examples!Messages, Digest <- Examples!Digest, state <- sha, i <- round

(* Blocks of four bytes, words of 64: the length of eight bytes carries    *)
(* into the other word.  The state is the sequence of blocks.              *)
AppendBlock(s, block) == Append(s, block)
Stream == INSTANCE Sha256Stream WITH
    BlockLen <- 4, WordSize <- 64, Transform <- AppendBlock, InitialState <- <<>>,
    Pieces <- 0..9, MaxLength <- 40

(* Blocks of three bytes and hashes of two.                                *)
Key == INSTANCE Pbkdf2 WITH
    BlockLen <- 3, HashLen <- 2, KeyLengths <- 0..4, SaltLengths <- 0..1, Counts <- 1..3,
    Lengths <- 0..5, pc <- pcKey

(* Blocks are sets of the names whose exclusive or they are, and a hash is *)
(* named by what was hashed; as a number it may be anything.               *)
NamedHash(b)  == {[of |-> b, at |-> 0]}
SymXor(a, b)  == (a \cup b) \ (a \cap b)
AnyOf4(b)     == 0..3
Symbols(n)    == [at \in 1..(2 * n) |-> {[of |-> {}, at |-> at]}]
Symbolic      == {[B |-> Symbols(1), N |-> 2], [B |-> Symbols(1), N |-> 4],
                  [B |-> Symbols(2), N |-> 2], [B |-> Symbols(3), N |-> 2]}
Mixing == INSTANCE Scrypt WITH
    Inputs <- Symbolic, salsa20_8 <- NamedHash, Xor64 <- SymXor, Integerify <- AnyOf4,
    i <- k, pc <- pcMix

Salsa == INSTANCE Salsa20
WordsXor(a, b) == [n \in 1..16 |-> Examples!Xor(a[n], b[n])]
MixingWords == INSTANCE Scrypt WITH
    Inputs <- Examples!SmixInputs, salsa20_8 <- Salsa!Salsa20_8, Xor64 <- WordsXor,
    Integerify <- Salsa!Integer16, i <- k, pc <- pcMix

(* Digits with bits in the byte they complete, in the next, in both.       *)
Text == INSTANCE Base64 WITH
    Chars <- {0, 5, 16, 63, 66}, MaxChars <- 6, TargetSizes <- 1..4

ASSUME /\ Rounds!MessagesAssumption /\ Stream!StreamAssumption /\ Key!Pbkdf2Assumption
       /\ Mixing!InputsAssumption /\ MixingWords!InputsAssumption /\ Text!Base64Assumption

-----------------------------------------------------------------------------
Init ==
    /\ called = "none"
    /\ Statement!Init /\ Rounds!Init /\ Stream!Init /\ Key!Init /\ Mixing!Init
    /\ Text!Init /\ Hash!Init

Within(part) == called \in {"none", part} /\ called' = part

RunStatement ==
    /\ Within("statement") /\ Statement!Next
    /\ UNCHANGED <<rounds, stream, key, mixing, base64, hash>>
RunRounds ==
    /\ Within("rounds") /\ Rounds!Next
    /\ UNCHANGED <<statement, stream, key, mixing, base64, hash>>
RunStream ==
    /\ Within("stream") /\ Stream!Next
    /\ UNCHANGED <<statement, rounds, key, mixing, base64, hash>>
RunKey ==
    /\ Within("key") /\ Key!Next
    /\ UNCHANGED <<statement, rounds, stream, mixing, base64, hash>>
RunMixing ==
    /\ Within("mixing") /\ Mixing!Next
    /\ UNCHANGED <<statement, rounds, stream, key, base64, hash>>
RunMixingWords ==
    /\ Within("words") /\ MixingWords!Next
    /\ UNCHANGED <<statement, rounds, stream, key, base64, hash>>
RunBase64 ==
    /\ Within("base64") /\ Text!Next
    /\ UNCHANGED <<statement, rounds, stream, key, mixing, hash>>
RunHash ==
    /\ Within("hash") /\ Hash!Next
    /\ UNCHANGED <<statement, rounds, stream, key, mixing, base64>>

Next == \/ RunStatement \/ RunRounds \/ RunStream \/ RunKey \/ RunMixing \/ RunMixingWords
        \/ RunBase64 \/ RunHash
Spec == Init /\ [][Next]_vars

-----------------------------------------------------------------------------
(* SHA-256, PBKDF2 and smix are those of FIPS 180, RFC 2898 and RFC 7914,  *)
(* however their input is cut into pieces, whatever its length and in      *)
(* whatever order the table of smix is read.                               *)
DigestIsStandard == Rounds!DigestIsStandard /\ Stream!NothingLost /\ Stream!DigestOfAll
KeyIsStandard    == Key!KeyIsStandard /\ Key!WithinBuffer
MixIsStandard ==
    /\ called = "mixing" => Mixing!TableFilled /\ Mixing!MixesAsStandard
    /\ called = "words" /\ pcMix = "done" => X = Examples!SmixOutput(arg)

(* The decoder accepts the encodings of bytes that fit and nothing else,   *)
(* and returns the bytes.                                                  *)
Base64Exact == Text!TypeOK /\ Text!Canonical /\ Text!EveryEncodingDecoded
=============================================================================
