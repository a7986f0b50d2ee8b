---------------------------------- MODULE Vectors ----------------------------------
(***************************************************************************)
(* Examples of the standards: messages and digests of FIPS 180, the input  *)
(* and output of smix in RFC 7914, section 10, and two more inputs whose   *)
(* outputs come from another implementation, which gives the RFC's too.    *)
(***************************************************************************)
EXTENDS Integers, Sequences, Words

(* "", "abc" and the message of 448 bits, padded.                          *)
Zeros(n)  == [k \in 1..n |-> 0]
Empty     == <<128>> \o Zeros(63)
ABC       == <<97, 98, 99, 128>> \o Zeros(59) \o <<24>>
(* abcdbcdecdef...nopq: 14 runs of four letters                            *)
Long      == [k \in 1..56 |-> 97 + ((k - 1) \div 4) + ((k - 1) % 4)]
             \o <<128>> \o Zeros(69) \o <<1, 192>>

Messages == {Empty, ABC, Long}
Digest(m) ==
    CASE m = Empty ->
        << Word(\he3b0, \hc442), Word(\h98fc, \h1c14), Word(\h9afb, \hf4c8),
           Word(\h996f, \hb924), Word(\h27ae, \h41e4), Word(\h649b, \h934c),
           Word(\ha495, \h991b), Word(\h7852, \hb855) >>
      [] m = ABC ->
        << Word(\hba78, \h16bf), Word(\h8f01, \hcfea), Word(\h4141, \h40de),
           Word(\h5dae, \h2223), Word(\hb003, \h61a3), Word(\h9617, \h7a9c),
           Word(\hb410, \hff61), Word(\hf200, \h15ad) >>
      [] m = Long ->
        << Word(\h248d, \h6a61), Word(\hd206, \h38b8), Word(\he5c0, \h2693),
           Word(\h0c3e, \h6039), Word(\ha33c, \he459), Word(\h64ff, \h2167),
           Word(\hf6ec, \hedd4), Word(\h19db, \h06c1) >>

Blocks(bytes) ==
    [k \in 1..(Len(bytes) \div 64) |-> le32dec_vect(SubSeq(bytes, 64 * k - 63, 64 * k))]
Counting(n) == Blocks([k \in 1..n |-> k - 1])

RFC7914 == Blocks(<<
        247, 206, 11, 101, 61, 45, 114, 164, 16, 140, 245, 171, 233, 18, 255, 221,
        119, 118, 22, 219, 187, 39, 167, 14, 130, 4, 243, 174, 45, 15, 111, 173,
        137, 246, 143, 72, 17, 209, 232, 123, 204, 59, 215, 64, 10, 159, 253, 41,
        9, 79, 1, 132, 99, 149, 116, 243, 154, 229, 161, 49, 82, 23, 188, 215, 137,
        73, 145, 68, 114, 19, 187, 34, 108, 37, 181, 77, 168, 99, 112, 251, 205,
        152, 67, 128, 55, 70, 102, 187, 143, 252, 181, 191, 64, 194, 84, 176, 103,
        210, 124, 81, 206, 74, 213, 254, 216, 41, 201, 11, 80, 90, 87, 27, 127, 77,
        28, 173, 106, 82, 60, 218, 119, 14, 103, 188, 234, 175, 126, 137 >>)
RFC7914Output == Blocks(<<
        121, 204, 193, 147, 98, 157, 235, 202, 4, 127, 11, 112, 96, 75, 246, 182,
        44, 227, 221, 74, 150, 38, 227, 85, 250, 252, 97, 152, 230, 234, 43, 70,
        213, 132, 19, 103, 59, 153, 176, 41, 214, 101, 195, 87, 96, 31, 180, 38,
        160, 178, 244, 187, 162, 0, 238, 159, 10, 67, 209, 155, 87, 26, 156, 113,
        239, 17, 66, 230, 93, 90, 38, 111, 221, 202, 131, 44, 229, 159, 170, 124,
        172, 11, 156, 241, 190, 43, 255, 202, 48, 13, 1, 238, 56, 118, 25, 196,
        174, 18, 253, 68, 56, 242, 3, 160, 228, 225, 196, 126, 195, 20, 134, 31,
        78, 144, 135, 203, 51, 57, 106, 104, 115, 232, 249, 210, 83, 154, 75, 142 >>)
Narrow == [B |-> Counting(128), N |-> 128]
NarrowOutput == Blocks(<<
        207, 209, 232, 92, 162, 144, 160, 141, 114, 108, 179, 120, 65, 237, 1, 218,
        1, 148, 85, 145, 119, 205, 87, 121, 178, 117, 98, 184, 154, 16, 178, 224,
        1, 72, 188, 65, 50, 169, 91, 150, 244, 28, 13, 226, 230, 70, 210, 212, 213,
        55, 178, 153, 112, 250, 212, 252, 142, 44, 126, 210, 177, 214, 169, 126,
        157, 131, 124, 188, 195, 20, 127, 113, 58, 151, 114, 169, 240, 44, 47, 101,
        87, 138, 255, 213, 9, 32, 233, 166, 239, 15, 249, 138, 212, 98, 12, 95, 95,
        23, 137, 184, 114, 19, 21, 254, 213, 198, 139, 116, 75, 242, 41, 152, 152,
        140, 194, 119, 76, 40, 40, 194, 226, 11, 175, 62, 7, 130, 208, 174 >>)
Wide == [B |-> Counting(256), N |-> 16]
WideOutput == Blocks(<<
        146, 48, 133, 59, 152, 201, 51, 19, 63, 110, 251, 250, 11, 191, 53, 135,
        202, 177, 4, 94, 140, 69, 184, 79, 201, 91, 130, 81, 209, 52, 37, 100, 253,
        184, 227, 50, 221, 27, 249, 118, 150, 211, 59, 247, 253, 144, 122, 185, 19,
        36, 117, 61, 145, 80, 95, 2, 117, 106, 165, 68, 127, 15, 29, 69, 33, 250,
        177, 95, 2, 37, 92, 185, 160, 235, 162, 198, 161, 188, 217, 85, 250, 119,
        159, 9, 47, 73, 111, 196, 17, 150, 186, 64, 41, 186, 79, 30, 0, 187, 142,
        157, 176, 171, 107, 238, 144, 79, 88, 55, 143, 123, 3, 49, 147, 7, 33, 205,
        25, 134, 138, 86, 119, 130, 192, 230, 195, 143, 173, 38, 223, 166, 250,
        216, 187, 226, 33, 249, 217, 247, 77, 150, 232, 188, 133, 244, 94, 102,
        123, 242, 112, 126, 151, 38, 194, 119, 242, 15, 17, 6, 224, 253, 109, 149,
        70, 179, 121, 95, 19, 58, 137, 124, 62, 178, 114, 232, 63, 124, 96, 163,
        206, 131, 225, 237, 202, 99, 240, 143, 110, 235, 162, 15, 149, 76, 180, 37,
        225, 104, 87, 67, 56, 125, 155, 24, 121, 62, 193, 63, 74, 244, 42, 46, 233,
        57, 57, 55, 162, 193, 50, 104, 56, 162, 37, 134, 253, 97, 165, 226, 225,
        226, 178, 118, 235, 134, 101, 208, 22, 68, 62, 44, 155, 140, 87, 254, 56,
        208, 169, 21, 191, 60, 197, 13, 214, 7, 193, 0, 76, 105 >>)

SmixInputs == {[B |-> RFC7914, N |-> 16], Narrow, Wide}
SmixOutput(in) == CASE in.B = RFC7914 -> RFC7914Output
                    [] in = Narrow    -> NarrowOutput
                    [] in = Wide      -> WideOutput
=============================================================================
