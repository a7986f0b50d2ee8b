---------------------------------- MODULE Salsa20 ----------------------------------
(***************************************************************************)
(* salsa20_8, the hash of 64 bytes inside scrypt, on blocks of 16 words.   *)
(***************************************************************************)
EXTENDS Integers, Sequences, SequencesExt, Words

(* One line of the source: x[to] ^= R(x[u] + x[v], n).                     *)
Stir(x, to, u, v, n) == [x EXCEPT ![to + 1] = Xor(@, R(Plus(x[u + 1], x[v + 1]), n))]

(* The four lines of a column or a row, of the words q.                    *)
Quarter(x, q) ==
    LET x1 == Stir(x,  q[2], q[1], q[4], 7)
        x2 == Stir(x1, q[3], q[2], q[1], 9)
        x3 == Stir(x2, q[4], q[3], q[2], 13)
    IN Stir(x3, q[1], q[4], q[3], 18)

Columns == << <<0, 4, 8, 12>>, <<5, 9, 13, 1>>, <<10, 14, 2, 6>>, <<15, 3, 7, 11>> >>
Rows    == << <<0, 1, 2, 3>>, <<5, 6, 7, 4>>, <<10, 11, 8, 9>>, <<15, 12, 13, 14>> >>

DoubleRound(x) == FoldLeft(Quarter, x, Columns \o Rows)

(* Blocks are handed on in sets of one: TLC evaluates the members of a set *)
(* before it goes on.                                                      *)
Again(blocks) == {DoubleRound(x) : x \in blocks}
Salsa20_8(B) ==
    LET x == CHOOSE y \in Again(Again(Again(Again({B})))) : TRUE
    IN [k \in 1..16 |-> Plus(B[k], x[k])]

(* integerify: a block as a little-endian number, of which the lowest 16   *)
(* bits decide when N is at most 2^16.                                     *)
Integer16(B) == {Half(B[1], 0)}
=============================================================================
