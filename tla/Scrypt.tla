---------------------------------- MODULE Scrypt -----------------------------------
(***************************************************************************)
(* smix, the memory-hard function of scrypt: fill the table V from the     *)
(* blocks B, then read it in an order that depends on the data.  Both      *)
(* loops do two rounds at a time, from X to Y and back.  A block of 64     *)
(* bytes, the exclusive or of two, salsa20_8 and integerify are            *)
(* parameters: MCLibraries has them symbolic and computed.                 *)
(***************************************************************************)
EXTENDS Integers, Sequences, SequencesExt

CONSTANTS Inputs,            \* of smix: [B |-> 2r blocks, N |-> a power of 2]
          salsa20_8(_),
          Xor64(_, _),
          Integerify(_)      \* what a block may be as a number, a set

InputsAssumption ==
    \A in \in Inputs : Len(in.B) > 0 /\ Len(in.B) % 2 = 0 /\ in.N \in Nat /\ in.N >= 2

VARIABLES arg,       \* B and N
          X, Y, V,
          i,         \* of the loop under way
          order,     \* every j so far
          pc

vars == <<arg, X, Y, V, i, order, pc>>

NoInput == [B |-> <<>>, N |-> 0]

Init ==
    /\ arg = NoInput /\ X = <<>> /\ Y = <<>> /\ V = <<>>
    /\ i = 0 /\ order = <<>> /\ pc = "call"

-----------------------------------------------------------------------------
blkxor(D, S) == [k \in DOMAIN D |-> Xor64(D[k], S[k])]

(* blockmix_salsa8: even blocks go to the first half, odd ones to the      *)
(* second.                                                                 *)
InOrder(k, r) == k
Place(k, r)   == IF k % 2 = 0 THEN k \div 2 ELSE k \div 2 + r
blockmix_salsa8(Bin) ==
    LET r == Len(Bin) \div 2
        step(m, k) == LET x == salsa20_8(Xor64(m.X, Bin[k + 1]))
                      IN [X |-> x, out |-> [m.out EXCEPT ![Place(k, r) + 1] = x]]
    IN FoldLeft(step, [X |-> Last(Bin), out |-> Bin], [k \in 1..(2 * r) |-> k - 1]).out

Index(m) == m % arg.N     \* & (N - 1)

Call ==
    /\ pc = "call" /\ pc' = "fill"
    /\ arg' \in Inputs /\ X' = arg'.B
    /\ UNCHANGED <<Y, V, i, order>>

Fill ==
    /\ pc = "fill" /\ i < arg.N
    /\ Y' = blockmix_salsa8(X)
    /\ X' = blockmix_salsa8(Y')
    /\ V' = V \o <<X, Y'>>
    /\ i' = i + 2
    /\ UNCHANGED <<arg, order, pc>>

StartMixing ==
    /\ pc = "fill" /\ i >= arg.N
    /\ pc' = "mix" /\ i' = 0
    /\ UNCHANGED <<arg, X, Y, V, order>>

Mix ==
    /\ pc = "mix" /\ i < arg.N
    /\ \E m \in Integerify(Last(X)) :
         LET Y1 == blockmix_salsa8(blkxor(X, V[Index(m) + 1])) IN
         \E n \in Integerify(Last(Y1)) :
            /\ Y' = blkxor(Y1, V[Index(n) + 1])
            /\ X' = blockmix_salsa8(Y')
            /\ order' = order \o <<Index(m), Index(n)>>
    /\ i' = i + 2
    /\ UNCHANGED <<arg, V, pc>>

Finish ==
    /\ pc = "mix" /\ i >= arg.N
    /\ pc' = "done"
    /\ UNCHANGED <<arg, X, Y, V, i, order>>

Next == Call \/ Fill \/ StartMixing \/ Mix \/ Finish

-----------------------------------------------------------------------------
(* RFC 7914: BlockMix, and ROMix for the indices that were read.           *)
BlockMix(B) ==
    LET y[k \in 0..Len(B)] == IF k = 0 THEN Last(B) ELSE salsa20_8(Xor64(y[k - 1], B[k]))
        half == Len(B) \div 2
    IN [k \in 1..half |-> y[2 * k - 1]] \o [k \in 1..half |-> y[2 * k]]
Filled[n \in Nat] == IF n = 0 THEN arg.B ELSE BlockMix(Filled[n - 1])
ROMix(indices) == FoldLeft(LAMBDA x, j : BlockMix(blkxor(x, Filled[j])), Filled[arg.N], indices)

(* The table holds the first N values of the sequence.                     *)
TableFilled == \A k \in DOMAIN V : V[k] = Filled[k - 1]

(* What smix leaves in X is ROMix of B, read in the order it was read in.  *)
MixesAsStandard == pc = "mix" => Len(order) = i /\ X = ROMix(order)
=============================================================================
