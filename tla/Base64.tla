------------------------------- MODULE Base64 -------------------------------
(***************************************************************************)
(* base64Encode of src/src/utils/encode.hpp, which CustomClient uses once  *)
(* for the Authorization header of every RPC.  A character is its place in *)
(* base64_chars, and Pad stands for "=".                                   *)
(*                                                                         *)
(* Decode is the reference: it inverts Encode for every text.              *)
(***************************************************************************)
EXTENDS Integers, Sequences

Byte == 0..255
Char == 0..63
Pad  == 64

(* The four characters of three bytes: the masks and shifts of the loop.   *)
Sextets(a, b, c) ==
    << a \div 4,
       (a % 4) * 16 + b \div 16,
       (b % 16) * 4 + c \div 64,
       c % 64 >>

(* What the loop is at for the k-th character: the group of three bytes    *)
(* and the character's place in it, both from 0.                           *)
Group(k) == (k - 1) \div 4
Place(k) == (k - 1) % 4

(* A byte of a group, 0 behind the end of the text.                        *)
ByteAt(data, i) == IF i <= Len(data) THEN data[i] ELSE 0

(* The last group has one character more than bytes, then "=".  The code   *)
(* keeps the length in an int: texts are shorter than 2^31 bytes.          *)
Encode(data) ==
    [k \in 1..(4 * ((Len(data) + 2) \div 3)) |->
        LET g == 3 * Group(k)
        IN  IF Place(k) > Len(data) - g
              THEN Pad
              ELSE Sextets(ByteAt(data, g + 1), ByteAt(data, g + 2),
                           ByteAt(data, g + 3))[Place(k) + 1]]

-----------------------------------------------------------------------------
(* The reference: four characters are three bytes, less one for each "=".  *)
Bytes(w, x, y, z) ==
    << w * 4 + x \div 16,
       (x % 16) * 16 + y \div 4,
       (y % 4) * 64 + z >>

Bits(code, k) == IF code[k] = Pad THEN 0 ELSE code[k]

Padding(code) ==
    CASE Len(code) = 0             -> 0
      [] Len(code) > 0 /\ code[Len(code) - 1] = Pad -> 2
      [] Len(code) > 0 /\ code[Len(code) - 1] # Pad ->
            IF code[Len(code)] = Pad THEN 1 ELSE 0

Decode(code) ==
    [i \in 1..(3 * (Len(code) \div 4) - Padding(code)) |->
        LET g == 4 * ((i - 1) \div 3)
        IN  Bytes(Bits(code, g + 1), Bits(code, g + 2),
                  Bits(code, g + 3), Bits(code, g + 4))[((i - 1) % 3) + 1]]
=============================================================================
