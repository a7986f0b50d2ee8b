----------------------------------- MODULE Words -----------------------------------
(***************************************************************************)
(* The 32-bit words of SHA-256 and Salsa20, as sets of the bits that are   *)
(* set, and their representation in bytes (sysendian.h).                   *)
(***************************************************************************)
LOCAL INSTANCE Integers
LOCAL INSTANCE Sequences
LOCAL INSTANCE FiniteSetsExt

Bits == 0..31
Byte == 0..255

(* The halves of a word as numbers: TLC has no greater integers.           *)
Half(w, low)  == MapThenSumSet(LAMBDA i : 2^(i - low), w \cap low..(low + 15))
Word(hi, lo)  == {i \in Bits : ((IF i < 16 THEN lo ELSE hi) \div 2^(i % 16)) % 2 = 1}
Plus(v, w)    == LET lo == Half(v, 0) + Half(w, 0)
                     hi == Half(v, 16) + Half(w, 16) + lo \div 65536
                 IN Word(hi % 65536, lo % 65536)
Xor(v, w)     == (v \cup w) \ (v \cap w)
ROTR(w, n)    == {(i - n) % 32 : i \in w}
SHR(w, n)     == {i - n : i \in w \cap n..31}
R(w, n)       == {(i + n) % 32 : i \in w}          \* rotation to the left

ByteOf(w, k)  == MapThenSumSet(LAMBDA i : 2^(i - 8 * k), w \cap (8 * k)..(8 * k + 7))
be32dec(p)    == {i \in Bits : (p[4 - i \div 8] \div 2^(i % 8)) % 2 = 1}
le32dec(p)    == {i \in Bits : (p[1 + i \div 8] \div 2^(i % 8)) % 2 = 1}
be32enc(w)    == [k \in 1..4 |-> ByteOf(w, 4 - k)]
le32enc(w)    == [k \in 1..4 |-> ByteOf(w, k - 1)]

be32dec_vect(src) == [k \in 1..(Len(src) \div 4) |-> be32dec(SubSeq(src, 4 * k - 3, 4 * k))]
le32dec_vect(src) == [k \in 1..(Len(src) \div 4) |-> le32dec(SubSeq(src, 4 * k - 3, 4 * k))]
=============================================================================
