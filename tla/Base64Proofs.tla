---------------------------- MODULE Base64Proofs ----------------------------
(* The encoding of every text is padded to whole groups and decodes to it. *)
EXTENDS Base64, TLAPS

(* The masks and shifts lose no bit of three bytes.                        *)
LEMMA GroupInverts ==
    ASSUME NEW a \in Byte, NEW b \in Byte, NEW c \in Byte
    PROVE  /\ \A q \in 1..4 : Sextets(a, b, c)[q] \in Char
           /\ LET s == Sextets(a, b, c)
              IN  Bytes(s[1], s[2], s[3], s[4]) = <<a, b, c>>
<1>1. /\ a \div 4 \in Char
      /\ (a % 4) * 16 + b \div 16 \in Char
      /\ (b % 16) * 4 + c \div 64 \in Char
      /\ c % 64 \in Char
  BY DEF Byte, Char
<1>2. (a \div 4) * 4 + ((a % 4) * 16 + b \div 16) \div 16 = a
  BY DEF Byte
<1>3. (((a % 4) * 16 + b \div 16) % 16) * 16
        + ((b % 16) * 4 + c \div 64) \div 4 = b
  BY DEF Byte
<1>4. (((b % 16) * 4 + c \div 64) % 4) * 64 + (c % 64) = c
  BY DEF Byte
<1> DEFINE s == Sextets(a, b, c)
<1>5. /\ s[1] = a \div 4
      /\ s[2] = (a % 4) * 16 + b \div 16
      /\ s[3] = (b % 16) * 4 + c \div 64
      /\ s[4] = c % 64
  BY DEF Sextets
<1>6. \A q \in 1..4 : s[q] \in Char
  <2>1. \A q \in 1..4 : q = 1 \/ q = 2 \/ q = 3 \/ q = 4
    OBVIOUS
  <2> HIDE DEF s
  <2> QED  BY <1>1, <1>5, <2>1
<1>7. Bytes(s[1], s[2], s[3], s[4]) = <<a, b, c>>
  <2> HIDE DEF s
  <2> QED  BY <1>2, <1>3, <1>4, <1>5 DEF Bytes
<1> QED  BY <1>6, <1>7

-----------------------------------------------------------------------------
LEMMA PadIsNoChar == \A x \in Char : x # Pad
BY DEF Char, Pad

(* Every character of the encoding, by its group and its place in it.      *)
LEMMA EncodedChar ==
    ASSUME NEW data \in Seq(Byte), NEW G \in Nat, NEW q \in 1..4,
           3 * G < Len(data)
    PROVE  /\ 4 * G + q \in DOMAIN Encode(data)
           /\ Encode(data)[4 * G + q] =
                 IF q - 1 > Len(data) - 3 * G
                   THEN Pad
                   ELSE Sextets(ByteAt(data, 3 * G + 1), ByteAt(data, 3 * G + 2),
                                ByteAt(data, 3 * G + 3))[q]
<1> DEFINE n == Len(data)
           k == 4 * G + q
<1>1. n \in Nat /\ 3 * G < n
  OBVIOUS
<1>2. k \in 1..(4 * ((n + 2) \div 3))
  <2> HIDE DEF n
  <2> QED  BY <1>1
<1>3. Group(k) = G /\ Place(k) = q - 1
  BY DEF Group, Place
<1>4. Place(k) + 1 = q
  BY <1>3
<1> QED  BY <1>2, <1>3, <1>4 DEF Encode

LEMMA ByteAtType ==
    ASSUME NEW data \in Seq(Byte), NEW i \in Nat \ {0}
    PROVE  ByteAt(data, i) \in Byte
<1>1. CASE i <= Len(data)
  BY <1>1 DEF ByteAt
<1>2. CASE ~(i <= Len(data))
  BY <1>2 DEF ByteAt, Byte
<1> QED  BY <1>1, <1>2

(* What Decode reads in a group is what the three bytes became, because    *)
(* the bytes behind the end of the text are 0.                             *)
LEMMA DecodedBits ==
    ASSUME NEW data \in Seq(Byte), NEW G \in Nat, NEW q \in 1..4,
           3 * G < Len(data)
    PROVE  Bits(Encode(data), 4 * G + q) =
              Sextets(ByteAt(data, 3 * G + 1), ByteAt(data, 3 * G + 2),
                      ByteAt(data, 3 * G + 3))[q]
<1> DEFINE a == ByteAt(data, 3 * G + 1)
           b == ByteAt(data, 3 * G + 2)
           c == ByteAt(data, 3 * G + 3)
<1>1. a \in Byte /\ b \in Byte /\ c \in Byte
  BY ByteAtType
<1>2. Sextets(a, b, c)[q] # Pad
  BY <1>1, GroupInverts, PadIsNoChar
<1>3. CASE q - 1 <= Len(data) - 3 * G
  <2>1. ~(q - 1 > Len(data) - 3 * G)
    BY <1>3
  <2>2. Encode(data)[4 * G + q] = Sextets(a, b, c)[q]
    BY <2>1, EncodedChar
  <2> QED  BY <1>2, <2>2 DEF Bits
<1>4. CASE q - 1 > Len(data) - 3 * G
  <2>1. Bits(Encode(data), 4 * G + q) = 0
    BY <1>4, EncodedChar DEF Bits
  <2>2. c = 0 /\ (q = 3 => b = 0) /\ q \in {3, 4}
    BY <1>4 DEF ByteAt
  <2>3. Sextets(a, b, c)[q] = 0
    <3>1. CASE q = 3
      BY <2>2, <3>1 DEF Sextets
    <3>2. CASE q = 4
      BY <2>2, <3>2 DEF Sextets
    <3> QED  BY <2>2, <3>1, <3>2
  <2> QED  BY <2>1, <2>3
<1> QED  BY <1>3, <1>4

(* The encoding is as long as whole groups of four characters, and its     *)
(* padding says how many bytes the last group lacks.                       *)
LEMMA EncodedLength ==
    ASSUME NEW data \in Seq(Byte)
    PROVE  /\ Len(Encode(data)) = 4 * ((Len(data) + 2) \div 3)
           /\ 3 * (Len(Encode(data)) \div 4) - Padding(Encode(data)) = Len(data)
<1> DEFINE n == Len(data)
           L == 4 * ((n + 2) \div 3)
           G == (n - 1) \div 3
<1>1. n \in Nat /\ L \in Nat
  OBVIOUS
<1>2. Len(Encode(data)) = L
  <2>1. DOMAIN Encode(data) = 1..L
    BY DEF Encode
  <2>2. Encode(data) \in Seq(Char \cup {Pad})
    <3>1. \A k \in 1..L : Encode(data)[k] \in Char \cup {Pad}
      <4> TAKE k \in 1..L
      <4> DEFINE g == 3 * Group(k)
      <4>1. Group(k) \in Nat /\ Place(k) + 1 \in 1..4
        BY DEF Group, Place
      <4>2. /\ ByteAt(data, g + 1) \in Byte
            /\ ByteAt(data, g + 2) \in Byte
            /\ ByteAt(data, g + 3) \in Byte
        BY <4>1, ByteAtType
      <4>3. Sextets(ByteAt(data, g + 1), ByteAt(data, g + 2),
                    ByteAt(data, g + 3))[Place(k) + 1] \in Char
        BY <4>1, <4>2, GroupInverts
      <4> QED  BY <4>3 DEF Encode
    <3>2. Encode(data) = [k \in 1..L |-> Encode(data)[k]]
      BY DEF Encode
    <3> QED  BY <1>1, <3>1, <3>2
  <2> QED  BY <1>1, <2>1, <2>2
<1>3. CASE n = 0
  BY <1>2, <1>3 DEF Padding
<1>4. CASE n > 0
  <2>1. /\ G \in Nat
        /\ 3 * G < n
        /\ n <= 3 * G + 3
        /\ L = 4 * G + 4
        /\ L - 1 = 4 * G + 3
    <3> HIDE DEF n
    <3> QED  BY <1>1, <1>4
  <2>2. /\ ByteAt(data, 3 * G + 1) \in Byte
        /\ ByteAt(data, 3 * G + 2) \in Byte
        /\ ByteAt(data, 3 * G + 3) \in Byte
    BY <2>1, ByteAtType
  <2>3. \A q \in 1..4 :
          Encode(data)[4 * G + q] = Pad <=> q - 1 > n - 3 * G
    <3> TAKE q \in 1..4
    <3> DEFINE char == Sextets(ByteAt(data, 3 * G + 1),
                               ByteAt(data, 3 * G + 2),
                               ByteAt(data, 3 * G + 3))[q]
    <3>1. char \in Char
      BY <2>2, GroupInverts
    <3>2. char # Pad
      BY <3>1, PadIsNoChar
    <3>3. Encode(data)[4 * G + q] = IF q - 1 > n - 3 * G THEN Pad ELSE char
      BY <2>1, EncodedChar
    <3> HIDE DEF char
    <3> QED  BY <3>2, <3>3
  <2>4. /\ Encode(data)[L - 1] = Pad <=> n - 3 * G < 2
        /\ Encode(data)[L] = Pad <=> n - 3 * G < 3
    <3> HIDE DEF G, n, L
    <3> QED  BY <1>1, <2>1, <2>3
  <2>5. Padding(Encode(data)) = 3 - (n - 3 * G)
    <3> HIDE DEF G, n, L
    <3>1. n - 3 * G \in 1..3
      BY <1>1, <2>1
    <3> QED  BY <1>1, <1>2, <2>1, <2>4, <3>1 DEF Padding
  <2>6. 3 * (L \div 4) - (3 - (n - 3 * G)) = n
    <3> HIDE DEF G, n, L
    <3> QED  BY <1>1, <2>1
  <2> QED  BY <1>2, <2>5, <2>6
<1> QED  BY <1>1, <1>3, <1>4

(* "Basic " and the encoding of the credentials: whatever bytes they have, *)
(* and however many, the server decodes what was encoded.                  *)
THEOREM DecodeInvertsEncode ==
    ASSUME NEW data \in Seq(Byte)
    PROVE  Decode(Encode(data)) = data
<1> DEFINE n == Len(data)
           code == Encode(data)
           decoded == Decode(code)
<1>1. decoded = [i \in 1..n |-> decoded[i]]
  BY EncodedLength DEF Decode
<1>2. ASSUME NEW i \in 1..n
      PROVE  decoded[i] = data[i]
  <2> DEFINE G == (i - 1) \div 3
             a == ByteAt(data, 3 * G + 1)
             b == ByteAt(data, 3 * G + 2)
             c == ByteAt(data, 3 * G + 3)
             s == Sextets(a, b, c)
  <2>1. G \in Nat /\ 3 * G < n /\ i = 3 * G + ((i - 1) % 3) + 1
    OBVIOUS
  <2>2. a \in Byte /\ b \in Byte /\ c \in Byte
    BY <2>1, ByteAtType
  <2>3. \A q \in 1..4 : Bits(code, 4 * G + q) = s[q]
    BY <2>1, DecodedBits
  <2>4. decoded[i] =
          Bytes(s[1], s[2], s[3], s[4])[((i - 1) % 3) + 1]
    BY <2>3, EncodedLength DEF Decode
  <2>5. decoded[i] = <<a, b, c>>[((i - 1) % 3) + 1]
    BY <2>2, <2>4, GroupInverts
  <2>6. (i - 1) % 3 \in 0..2
    OBVIOUS
  <2>7. <<a, b, c>>[((i - 1) % 3) + 1] = ByteAt(data, i)
    <3>1. CASE (i - 1) % 3 = 0
      BY <2>1, <3>1
    <3>2. CASE (i - 1) % 3 = 1
      BY <2>1, <3>2
    <3>3. CASE (i - 1) % 3 = 2
      BY <2>1, <3>3
    <3> QED  BY <2>6, <3>1, <3>2, <3>3
  <2> QED  BY <2>5, <2>7 DEF ByteAt
<1>3. data = [i \in 1..n |-> data[i]]
  OBVIOUS
<1>4. \A i \in 1..n : decoded[i] = data[i]
  BY <1>2
<1>5. decoded = data
  <2> HIDE DEF decoded, n
  <2> QED  BY <1>1, <1>3, <1>4
<1> QED  BY <1>5
=============================================================================
