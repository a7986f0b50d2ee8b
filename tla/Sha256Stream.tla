------------------------------- MODULE Sha256Stream --------------------------------
(***************************************************************************)
(* How SHA-256 is fed: libscrypt_SHA256_Init, Update with pieces of any    *)
(* length, and Final, which pads.  The context keeps the bits so far in    *)
(* two words and the bytes of the block not complete yet; the compression  *)
(* function is a parameter.  The sizes are parameters too: 64 bytes to a   *)
(* block, of which the length takes 8 as two words, and 2^32 to a word.    *)
(***************************************************************************)
EXTENDS Integers, Sequences, SequencesExt

CONSTANTS BlockLen,           \* bytes of a block
          WordSize,           \* numbers a word of count can be
          Transform(_, _),    \* SHA256_Transform: state after a block
          InitialState,
          Pieces,             \* lengths Update is called with
          MaxLength           \* bound: bytes fed

(* The length takes two elements, one for each word of count.              *)
LengthLen == 2

StreamAssumption ==
    /\ BlockLen \in Nat /\ BlockLen > LengthLen
    /\ WordSize \in Nat \ {0} /\ WordSize % (8 * BlockLen) = 0
    /\ Pieces \subseteq Nat /\ MaxLength \in Nat

VARIABLES ctx,       \* the context
          fed,       \* the bytes of all updates
          digest     \* what Final returned, <<>> before

vars == <<ctx, fed, digest>>

Init ==
    /\ ctx = [state |-> InitialState, count |-> <<0, 0>>, buf |-> [k \in 1..BlockLen |-> 0]]
    /\ fed = <<>> /\ digest = <<>>

-----------------------------------------------------------------------------
(* The bytes in the buffer: count[1] >> 3, modulo the length of a block.   *)
Held(c) == (c.count[2] \div 8) % BlockLen

Counted(count, n) ==
    LET low  == (count[2] + 8 * n) % WordSize
        bits == (8 * n) % WordSize
    IN << count[1] + (IF low < bits THEN 1 ELSE 0) + (8 * n) \div WordSize, low >>

Over(buf, r, src) ==
    [k \in 1..BlockLen |-> IF k \in (r + 1)..(r + Len(src)) THEN src[k - r] ELSE buf[k]]

(* Whole blocks of src, transformed where they are.                        *)
Blocks(src)     == [k \in 1..(Len(src) \div BlockLen) |->
                        SubSeq(src, BlockLen * (k - 1) + 1, BlockLen * k)]
Compressed(s, src) == FoldLeft(Transform, s, Blocks(src))
LeftOver(src)   == SubSeq(src, BlockLen * (Len(src) \div BlockLen) + 1, Len(src))

UpdateKeepingFull(c, src) ==
    LET r     == Held(c)
        room  == BlockLen - r
        first == SubSeq(src, 1, room)
        rest  == SubSeq(src, room + 1, Len(src))
    IN [count |-> Counted(c.count, Len(src)),
        state |-> IF Len(src) <= room THEN c.state
                  ELSE Compressed(Transform(c.state, Over(c.buf, r, first)), rest),
        buf   |-> IF Len(src) <= room THEN Over(c.buf, r, src)
                  ELSE Over(Over(c.buf, r, first), 0, LeftOver(rest))]
Update(c, src) ==
    LET r     == Held(c)
        room  == BlockLen - r
        first == SubSeq(src, 1, room)
        rest  == SubSeq(src, room + 1, Len(src))
    IN [count |-> Counted(c.count, Len(src)),
        state |-> IF Len(src) < room THEN c.state
                  ELSE Compressed(Transform(c.state, Over(c.buf, r, first)), rest),
        buf   |-> IF Len(src) < room THEN Over(c.buf, r, src)
                  ELSE Over(Over(c.buf, r, first), 0, LeftOver(rest))]

(* SHA256_Pad.                                                             *)
PAD == [k \in 1..BlockLen |-> IF k = 1 THEN 128 ELSE 0]
Pad(c) ==
    LET r    == Held(c)
        plen == IF r < BlockLen - LengthLen THEN BlockLen - LengthLen - r
                ELSE 2 * BlockLen - LengthLen - r
    IN Update(Update(c, SubSeq(PAD, 1, plen)), c.count)
(* The bytes are numbered in the order they come in.                       *)
Feed(n) ==
    LET piece == [k \in 1..n |-> Len(fed) + k]
    IN /\ digest = <<>> /\ Len(fed) + n <= MaxLength
       /\ ctx' = Update(ctx, piece) /\ fed' = fed \o piece
       /\ UNCHANGED digest

(* Final clears the context, which is initialised before it is used again. *)
Final ==
    /\ digest = <<>> /\ digest' = <<Pad(ctx).state>>
    /\ ctx' = [state |-> InitialState, count |-> <<0, 0>>, buf |-> [k \in 1..BlockLen |-> 0]]
    /\ UNCHANGED fed

Next == Final \/ \E n \in Pieces : Feed(n)

-----------------------------------------------------------------------------
TypeOK ==
    /\ ctx.count[1] \in Nat /\ ctx.count[2] \in 0..(WordSize - 1)
    /\ DOMAIN ctx.buf = 1..BlockLen /\ Len(fed) <= MaxLength

(* However the message is cut into pieces, the state is that of its whole  *)
(* blocks and the buffer begins with the rest.                             *)
NothingLost ==
    digest = <<>> =>
        /\ ctx.state = Compressed(InitialState, fed)
        /\ SubSeq(ctx.buf, 1, Held(ctx)) = LeftOver(fed)

(* The digest is that of the message followed by one bit, as few zeros as  *)
(* fill whole blocks, and the length of the message in bits.               *)
Padded(m) ==
    LET zeros == CHOOSE n \in 0..BlockLen : (Len(m) + 1 + n + LengthLen) % BlockLen = 0
        bits  == 8 * Len(m)
    IN m \o <<128>> \o [k \in 1..zeros |-> 0] \o <<bits \div WordSize, bits % WordSize>>
DigestOfAll == digest # <<>> => digest = <<Compressed(InitialState, Padded(fed))>>
=============================================================================
