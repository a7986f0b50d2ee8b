---------------------------------- MODULE Base64 -----------------------------------
(***************************************************************************)
(* libscrypt_b64_encode and libscrypt_b64_decode.  The decoder is a state  *)
(* machine that takes one character a step; a character of the alphabet is *)
(* its index, 0 to 63.                                                     *)
(***************************************************************************)
EXTENDS Integers, Sequences, SequencesExt

CONSTANTS Chars,         \* characters of the texts that are decoded
          MaxChars,      \* bound: characters of a text
          TargetSizes    \* targsize

Pad64   == 64            \* '='
Space   == 65
Other   == 66            \* not of the alphabet
Garbage == -1            \* target before it is written

Base64Assumption ==
    Chars \subseteq 0..66 /\ MaxChars \in Nat /\ TargetSizes \subseteq Nat

VARIABLES src,           \* the characters taken so far
          targsize,
          state,         \* characters of the group of four that are in
          target, tarindex,
          padding,       \* "none", after a '=': "second" or "rest", "end" at the end
          result         \* what was returned: bytes or -1; negative before

vars == <<src, targsize, state, target, tarindex, padding, result>>

Uncalled == -3
Running == -2
Error   == -1

Init ==
    /\ src = <<>> /\ targsize = 0 /\ state = 0 /\ target = <<>> /\ tarindex = 0
    /\ padding = "none" /\ result = Uncalled

Call ==
    /\ result = Uncalled /\ result' = Running
    /\ targsize' \in TargetSizes /\ target' = [k \in 0..(targsize' - 1) |-> Garbage]
    /\ UNCHANGED <<src, state, tarindex, padding>>

-----------------------------------------------------------------------------
(* Three bytes as four numbers below 64.                                   *)
Group(a, b, c) == << a \div 4, (a % 4) * 16 + b \div 16, (b % 16) * 4 + c \div 64, c % 64 >>
EncodedRest(rest) ==
    CASE Len(rest) = 0 -> <<>>
      [] Len(rest) = 1 -> SubSeq(Group(rest[1], 0, 0), 1, 2) \o <<Pad64, Pad64>>
      [] Len(rest) = 2 -> SubSeq(Group(rest[1], rest[2], 0), 1, 3) \o <<Pad64>>
Encoded(bytes) ==
    LET whole == Len(bytes) \div 3
    IN FlattenSeq([k \in 1..whole |-> Group(bytes[3 * k - 2], bytes[3 * k - 1], bytes[3 * k])])
       \o EncodedRest(SubSeq(bytes, 3 * whole + 1, Len(bytes)))

-----------------------------------------------------------------------------
Take(ch) == result = Running /\ Len(src) < MaxChars /\ src' = Append(src, ch)

SkipSpace ==
    /\ Take(Space)
    /\ UNCHANGED <<targsize, state, target, tarindex, padding, result>>

(* The bits of a character that complete a byte, and those that begin the  *)
(* next one; a byte beyond the target must not have any.                   *)
High(ch) == CASE state = 1 -> ch \div 16
              [] state = 2 -> ch \div 4
              [] state = 3 -> ch
Next8(ch) == CASE state = 0 -> ch * 4
               [] state = 1 -> (ch % 16) * 16
               [] state = 2 -> (ch % 4) * 64
               [] state = 3 -> 0

Room(n)  == n < targsize
Completed(ch) == IF state = 0 THEN target ELSE [target EXCEPT ![tarindex] = @ + High(ch)]
Begun(t, n, ch) == IF Room(n) /\ state # 3 THEN [t EXCEPT ![n] = Next8(ch)] ELSE t

Refused == result' = Error /\ UNCHANGED <<targsize, state, target, tarindex, padding>>

OverflowAlways(ch) == ~Room(tarindex) \/ (state \in {1, 2} /\ ~Room(tarindex + 1))
Overflow(ch) ==
    \/ ~Room(tarindex)
    \/ state \in {1, 2} /\ ~Room(tarindex + 1) /\ Next8(ch) # 0

Digit(ch) ==
    /\ padding = "none" /\ ch \in 0..63 /\ Take(ch)
    /\ IF Overflow(ch) THEN Refused
       ELSE LET next == IF state = 0 THEN tarindex ELSE tarindex + 1
            IN /\ target' = Begun(Completed(ch), next, ch)
               /\ tarindex' = next
               /\ state' = (state + 1) % 4
               /\ UNCHANGED <<targsize, padding, result>>

Pad ==
    /\ Take(Pad64)
    /\ CASE padding = "none" /\ state = 2 ->
              padding' = "second" /\ UNCHANGED <<targsize, state, target, tarindex, result>>
         [] padding = "second" \/ (padding = "none" /\ state = 3) ->
              padding' = "rest" /\ UNCHANGED <<targsize, state, target, tarindex, result>>
         [] OTHER -> Refused

Wrong(ch) ==
    /\ ch = Other \/ (ch \in 0..63 /\ padding # "none")
    /\ Take(ch) /\ Refused

(* The end of the text.  Of a last group that is not whole, the bits that  *)
(* are no byte must be zero.                                               *)
SpareBits == Room(tarindex) /\ target[tarindex] # 0
End ==
    /\ result = Running /\ padding' = "end"
    /\ result' = IF padding = "rest" THEN IF SpareBits THEN Error ELSE tarindex
                 ELSE IF state # 0 THEN Error ELSE tarindex
    /\ UNCHANGED <<src, targsize, state, target, tarindex>>

Next == Call \/ SkipSpace \/ Pad \/ End \/ \E ch \in Chars : Digit(ch) \/ Wrong(ch)

-----------------------------------------------------------------------------
TypeOK ==
    /\ tarindex \in 0..targsize /\ state \in 0..3
    /\ \A k \in DOMAIN target : target[k] \in -1..255
    /\ result \in -3..targsize

Text    == SelectSeq(src, LAMBDA ch : ch # Space)
Bytes   == [k \in 1..result |-> target[k - 1]]

(* A text that is accepted is the encoding of the bytes returned and no    *)
(* other text of them is, apart from blanks.                               *)
Canonical == result >= 0 => Text = Encoded(Bytes)

(* A text is refused only if no encoding of what the target holds begins   *)
(* with it; when it is complete, only if it is none.                       *)
IsEncoding(t) ==
    LET n    == Len(t)
        pads == Len(SelectSeq(t, LAMBDA ch : ch = Pad64))
    IN /\ n % 4 = 0 /\ pads <= 2 /\ \A k \in 1..(n - pads) : t[k] \in 0..63
       /\ pads = 1 => t[n - 1] % 4 = 0
       /\ pads = 2 => t[n - 2] % 16 = 0
       /\ (3 * n) \div 4 - pads <= targsize
Shortest == UNION {[1..n -> {0, Pad64}] : n \in 0..3}
EveryEncodingDecoded ==
    result = Error => \A rest \in Shortest :
                          IsEncoding(Text \o rest) => padding = "end" /\ rest # <<>>
=============================================================================
