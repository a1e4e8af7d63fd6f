-------------------------- MODULE VerificationProofs --------------------------
(***************************************************************************)
(* Proofs about the Broker's verifier and the encodings it relies on, for  *)
(* texts of every length, any keys, ids and encodings of public keys, and  *)
(* whatever is presented.                                                  *)
(***************************************************************************)
EXTENDS Verification, BrokerProofs, WellFoundedInduction, SequenceTheorems

-----------------------------------------------------------------------------
(* base64 and base64url, digit by digit and for texts of every length.      *)

Bytes == 0 .. 255
Digits == 0 .. 63

\* Digits that some bytes need, and the bytes they stand for.
LEMMA Lengths64 ==
  ASSUME NEW m \in Nat, NEW n \in Nat
  PROVE  /\ n = (8 * m + 5) \div 6 => n % 4 # 1 /\ m = (n * 6) \div 8
         /\ n % 4 # 1 /\ m = (n * 6) \div 8 => n = (8 * m + 5) \div 6
OBVIOUS

\* Where byte i and digit i lie in their groups of three and four.
LEMMA BytePlace ==
  ASSUME NEW i \in Nat \ {0}
  PROVE  \E g \in Nat : i \in {3 * g + 1, 3 * g + 2, 3 * g + 3}
<1> WITNESS (i - 1) \div 3 \in Nat
<1> QED  OBVIOUS

LEMMA DigitPlace ==
  ASSUME NEW i \in Nat \ {0}
  PROVE  \E g \in Nat : i \in {4 * g + 1, 4 * g + 2, 4 * g + 3, 4 * g + 4}
<1> WITNESS (i - 1) \div 4 \in Nat
<1> QED  OBVIOUS

\* The shifts of the three bytes of a group.
LEMMA DecodedByteIs ==
  ASSUME NEW text, NEW g \in Nat
  PROVE  /\ DecodedByte(text, 3 * g + 1) =
              (text[4 * g + 1] * 4 + (text[4 * g + 2] \div 16)) % 256
         /\ DecodedByte(text, 3 * g + 2) =
              (text[4 * g + 2] * 16 + (text[4 * g + 3] \div 4)) % 256
         /\ DecodedByte(text, 3 * g + 3) =
              (text[4 * g + 3] * 64 + (text[4 * g + 4] \div 1)) % 256
<1>1. /\ 8 * ((3 * g + 1) - 1) = 24 * g /\ 8 * ((3 * g + 2) - 1) = 24 * g + 8
      /\ 8 * ((3 * g + 3) - 1) = 24 * g + 16
  OBVIOUS
<1>2. /\ (24 * g) \div 6 + 1 = 4 * g + 1 /\ (24 * g + 8) \div 6 + 1 = 4 * g + 2
      /\ (24 * g + 16) \div 6 + 1 = 4 * g + 3
      /\ (24 * g) % 6 = 0 /\ (24 * g + 8) % 6 = 2 /\ (24 * g + 16) % 6 = 4
  OBVIOUS
<1>3. /\ Power2(0 + 2) = 4 /\ Power2(2 + 2) = 16 /\ Power2(4 + 2) = 64
      /\ Power2(4 - 0) = 16 /\ Power2(4 - 2) = 4 /\ Power2(4 - 4) = 1
  BY DEF Power2
<1>4. /\ (4 * g + 1) + 1 = 4 * g + 2 /\ (4 * g + 2) + 1 = 4 * g + 3
      /\ (4 * g + 3) + 1 = 4 * g + 4
  OBVIOUS
<1>5. QED  BY ONLY <1>1, <1>2, <1>3, <1>4 DEF DecodedByte

\* Byte i, or the zero behind the last one.
ByteAt(bytes, i) == IF i \in DOMAIN bytes THEN bytes[i] ELSE 0

LEMMA EncodedDigitIs ==
  ASSUME NEW bytes, NEW g \in Nat,
         NEW one, one = ByteAt(bytes, 3 * g + 1),
         NEW two, two = ByteAt(bytes, 3 * g + 2),
         NEW three, three = ByteAt(bytes, 3 * g + 3),
         NEW four, four = ByteAt(bytes, 3 * g + 4)
  PROVE  /\ EncodedDigit(bytes, 4 * g + 1) = ((one * 256 + two) \div 1024) % 64
         /\ EncodedDigit(bytes, 4 * g + 2) = ((one * 256 + two) \div 16) % 64
         /\ EncodedDigit(bytes, 4 * g + 3) = ((two * 256 + three) \div 64) % 64
         /\ EncodedDigit(bytes, 4 * g + 4) = ((three * 256 + four) \div 256) % 64
<1>1. /\ 6 * ((4 * g + 1) - 1) = 24 * g /\ 6 * ((4 * g + 2) - 1) = 24 * g + 6
      /\ 6 * ((4 * g + 3) - 1) = 24 * g + 12 /\ 6 * ((4 * g + 4) - 1) = 24 * g + 18
  OBVIOUS
<1>2. /\ (24 * g) \div 8 + 1 = 3 * g + 1 /\ (24 * g + 6) \div 8 + 1 = 3 * g + 1
      /\ (24 * g + 12) \div 8 + 1 = 3 * g + 2 /\ (24 * g + 18) \div 8 + 1 = 3 * g + 3
      /\ (24 * g) % 8 = 0 /\ (24 * g + 6) % 8 = 6
      /\ (24 * g + 12) % 8 = 4 /\ (24 * g + 18) % 8 = 2
  OBVIOUS
<1>3. /\ Power2(10 - 0) = 1024 /\ Power2(10 - 6) = 16 /\ Power2(10 - 4) = 64
      /\ Power2(10 - 2) = 256
  BY DEF Power2
<1>4. /\ (3 * g + 1) + 1 = 3 * g + 2 /\ (3 * g + 2) + 1 = 3 * g + 3
      /\ (3 * g + 3) + 1 = 3 * g + 4
  OBVIOUS
<1>5. QED  BY ONLY <1>1, <1>2, <1>3, <1>4, one = ByteAt(bytes, 3 * g + 1),
                   two = ByteAt(bytes, 3 * g + 2), three = ByteAt(bytes, 3 * g + 3),
                   four = ByteAt(bytes, 3 * g + 4)
           DEF EncodedDigit, ByteAt

\* Three bytes come back from their four digits; the digit behind the last byte
\* of a text has zero bits behind it.
LEMMA GroupDecodes ==
  ASSUME NEW one \in Bytes, NEW two \in Bytes, NEW three \in Bytes, NEW four \in Bytes,
         NEW d1, d1 = ((one * 256 + two) \div 1024) % 64,
         NEW d2, d2 = ((one * 256 + two) \div 16) % 64,
         NEW d3, d3 = ((two * 256 + three) \div 64) % 64,
         NEW d4, d4 = ((three * 256 + four) \div 256) % 64
  PROVE  /\ d1 \in Digits /\ d2 \in Digits /\ d3 \in Digits /\ d4 \in Digits
         /\ one = (d1 * 4 + (d2 \div 16)) % 256
         /\ two = (d2 * 16 + (d3 \div 4)) % 256
         /\ three = (d3 * 64 + (d4 \div 1)) % 256
         /\ two = 0 => d2 % 16 = 0
         /\ three = 0 => d3 % 4 = 0
<1> USE DEF Bytes, Digits
<1>1. d1 = one \div 4 /\ d2 = (one % 4) * 16 + (two \div 16)
  OBVIOUS
<1>2. d3 = (two % 16) * 4 + (three \div 64) /\ d4 = three % 64
  OBVIOUS
<1>3. d1 \in Digits /\ d2 \in Digits /\ d3 \in Digits /\ d4 \in Digits
  BY <1>1, <1>2
<1>4. d2 \div 16 = one % 4 /\ d2 % 16 = two \div 16 /\ d3 \div 4 = two % 16
        /\ d3 % 4 = three \div 64 /\ d4 \div 1 = d4
  BY <1>1, <1>2
<1>5. one = (d1 * 4 + (d2 \div 16)) % 256
  BY <1>1, <1>4
<1>6. two = (d2 * 16 + (d3 \div 4)) % 256
  BY <1>1, <1>4
<1>7. three = (d3 * 64 + (d4 \div 1)) % 256
  BY <1>2, <1>4
<1>8. 0 \div 16 = 0 /\ 0 \div 64 = 0
  OBVIOUS
<1>9. (two = 0 => d2 % 16 = 0) /\ (three = 0 => d3 % 4 = 0)
  BY <1>4, <1>8
<1>10. QED  BY <1>3, <1>5, <1>6, <1>7, <1>9

\* Four digits come back from their three bytes, the last of a text if the bits
\* behind it are zero.
LEMMA GroupEncodes ==
  ASSUME NEW d1 \in Digits, NEW d2 \in Digits, NEW d3 \in Digits, NEW d4 \in Digits,
         NEW one, one = (d1 * 4 + (d2 \div 16)) % 256,
         NEW two, two = (d2 * 16 + (d3 \div 4)) % 256,
         NEW three, three = (d3 * 64 + (d4 \div 1)) % 256
  PROVE  /\ one \in Bytes /\ two \in Bytes /\ three \in Bytes
         /\ \A next \in Bytes : d1 = ((one * 256 + next) \div 1024) % 64
         /\ d2 = ((one * 256 + two) \div 16) % 64
         /\ d3 = ((two * 256 + three) \div 64) % 64
         /\ \A next \in Bytes : d4 = ((three * 256 + next) \div 256) % 64
         /\ d2 % 16 = 0 => d2 = ((one * 256 + 0) \div 16) % 64
         /\ d3 % 4 = 0 => d3 = ((two * 256 + 0) \div 64) % 64
<1> USE DEF Bytes, Digits
<1>1. /\ one = d1 * 4 + (d2 \div 16) /\ one \in Bytes
      /\ two = (d2 % 16) * 16 + (d3 \div 4) /\ two \in Bytes
      /\ three = (d3 % 4) * 64 + d4 /\ three \in Bytes
  OBVIOUS
<1>2. PICK q2 \in 0 .. 3, r2 \in 0 .. 15 :
        d2 = 16 * q2 + r2 /\ d2 \div 16 = q2 /\ d2 % 16 = r2
  <2> WITNESS d2 \div 16 \in 0 .. 3, d2 % 16 \in 0 .. 15
  <2> QED  OBVIOUS
<1>3. PICK q3 \in 0 .. 15, r3 \in 0 .. 3 :
        d3 = 4 * q3 + r3 /\ d3 \div 4 = q3 /\ d3 % 4 = r3
  <2> WITNESS d3 \div 4 \in 0 .. 15, d3 % 4 \in 0 .. 3
  <2> QED  OBVIOUS
<1>4. one = 4 * d1 + q2 /\ two = 16 * r2 + q3 /\ three = 64 * r3 + d4
  BY <1>1, <1>2, <1>3
<1>5. ASSUME NEW next \in Bytes PROVE d1 = ((one * 256 + next) \div 1024) % 64
  <2>1. one * 256 + next = 1024 * d1 + (256 * q2 + next) /\ 256 * q2 + next \in 0 .. 1023
    BY <1>4
  <2>2. QED  BY <2>1
<1>6. d2 = ((one * 256 + two) \div 16) % 64
  <2>1. one * 256 + two = 1024 * d1 + 16 * d2 + q3
    BY <1>2, <1>4
  <2>2. one * 256 + two = 16 * (64 * d1 + d2) + q3
    BY <2>1
  <2>3. (one * 256 + two) \div 16 = 64 * d1 + d2
    BY <2>2
  <2>4. QED  BY <2>3
<1>7. d3 = ((two * 256 + three) \div 64) % 64
  <2>1. two * 256 + three = 4096 * r2 + 64 * d3 + d4
    BY <1>3, <1>4
  <2>2. QED  BY <2>1
<1>8. ASSUME NEW next \in Bytes PROVE d4 = ((three * 256 + next) \div 256) % 64
  <2>1. three * 256 + next = 256 * (64 * r3 + d4) + next
    BY <1>4
  <2>2. QED  BY <2>1
<1>9. d2 % 16 = 0 => d2 = ((one * 256 + 0) \div 16) % 64
  <2>1. r2 = 0 => one * 256 + 0 = 1024 * d1 + 16 * d2
    BY <1>2, <1>4
  <2>2. QED  BY <2>1, <1>2
<1>10. d3 % 4 = 0 => d3 = ((two * 256 + 0) \div 64) % 64
  <2>1. r3 = 0 => two * 256 + 0 = 4096 * r2 + 64 * d3
    BY <1>3, <1>4
  <2>2. QED  BY <2>1, <1>3
<1>11. QED  BY <1>1, <1>5, <1>6, <1>7, <1>8, <1>9, <1>10

LEMMA SomeByte ==
  ASSUME NEW bytes \in Seq(Bytes), NEW i
  PROVE  ByteAt(bytes, i) \in Bytes
<1>1. 0 \in Bytes /\ DOMAIN bytes = 1 .. Len(bytes)
  BY DEF Bytes
<1>2. \A j \in 1 .. Len(bytes) : bytes[j] \in Bytes
  OBVIOUS
<1>3. QED  BY <1>1, <1>2 DEF ByteAt

\* What Padding counts.
LEMMA PaddingIs ==
  ASSUME NEW text \in Seq(0 .. Bad), NEW n \in 0 .. Len(text),
         \A i \in n + 1 .. Len(text) : text[i] = Pad,
         n = 0 \/ text[n] # Pad
  PROVE  Padding(text) = Len(text) - n
<1> DEFINE P(m) == /\ \A i \in m + 1 .. Len(text) : text[i] = Pad
                   /\ m = 0 \/ text[m] # Pad
<1>1. P(n)
  OBVIOUS
<1>2. ASSUME NEW m \in 0 .. Len(text), P(m) PROVE m = n
  <2>1. CASE m < n
    <3>1. n \in m + 1 .. Len(text)
      BY <2>1
    <3>2. QED  BY <3>1, <1>2, <2>1
  <2>2. CASE n < m
    <3>1. m \in n + 1 .. Len(text)
      BY <2>2
    <3>2. QED  BY <3>1, <1>2, <2>2
  <2>3. QED  BY <2>1, <2>2
<1>3. (CHOOSE m \in 0 .. Len(text) : P(m)) = n
  <2> HIDE DEF P
  <2>1. QED  BY <1>1, <1>2
<1>4. QED  BY <1>3 DEF Padding, P

\* What the encoder makes of some bytes.
LEMMA EncodedIs ==
  ASSUME NEW bytes \in Seq(Bytes), NEW padded \in BOOLEAN,
         NEW text, text = Base64Encode(bytes, padded),
         NEW n, n = (8 * Len(bytes) + 5) \div 6
  PROVE  /\ n \in 0 .. Len(text) /\ text \in Seq(0 .. Bad)
         /\ Len(text) = IF padded THEN 4 * ((Len(bytes) + 2) \div 3) ELSE n
         /\ \A i \in 1 .. n : text[i] = EncodedDigit(bytes, i) /\ text[i] \in Digits
         /\ \A i \in n + 1 .. Len(text) : text[i] = Pad
<1> DEFINE m == Len(bytes)
           groups == 4 * ((m + 2) \div 3)
           length == IF padded THEN groups ELSE n
           e(i) == IF i <= n THEN EncodedDigit(bytes, i) ELSE Pad
<1>1. m \in Nat /\ n \in Nat /\ groups \in Nat /\ n <= groups /\ length \in Nat /\ n <= length
  OBVIOUS
<1>2. ASSUME NEW i \in Nat \ {0} PROVE EncodedDigit(bytes, i) \in Digits
  <2>1. PICK g \in Nat : i \in {4 * g + 1, 4 * g + 2, 4 * g + 3, 4 * g + 4}
    BY DigitPlace
  <2> DEFINE at(j) == ByteAt(bytes, 3 * g + j)
  <2>2. at(1) \in Bytes /\ at(2) \in Bytes /\ at(3) \in Bytes /\ at(4) \in Bytes
    BY SomeByte
  <2>3. /\ EncodedDigit(bytes, 4 * g + 1) = ((at(1) * 256 + at(2)) \div 1024) % 64
        /\ EncodedDigit(bytes, 4 * g + 2) = ((at(1) * 256 + at(2)) \div 16) % 64
        /\ EncodedDigit(bytes, 4 * g + 3) = ((at(2) * 256 + at(3)) \div 64) % 64
        /\ EncodedDigit(bytes, 4 * g + 4) = ((at(3) * 256 + at(4)) \div 256) % 64
    BY EncodedDigitIs
  <2> HIDE DEF at
  <2>4. QED  BY <2>1, <2>2, <2>3, GroupDecodes
<1>3. text = [i \in 1 .. length |-> e(i)]
  BY DEF Base64Encode
<1>4. \A i \in 1 .. length : e(i) \in 0 .. Bad
  BY <1>1, <1>2 DEF Digits, Bad, Pad
<1> HIDE DEF length, e
<1>5. text \in Seq(0 .. Bad) /\ Len(text) = length
  BY <1>1, <1>3, <1>4
<1>6. \A i \in 1 .. n : text[i] = EncodedDigit(bytes, i) /\ text[i] \in Digits
  BY <1>1, <1>2, <1>3 DEF e
<1>7. \A i \in n + 1 .. Len(text) : text[i] = Pad
  BY <1>1, <1>3, <1>5 DEF e
<1>8. QED  BY <1>1, <1>5, <1>6, <1>7 DEF length

\* What the decoder makes of digits with padding behind them.
LEMMA DecodedIs ==
  ASSUME NEW text \in Seq(0 .. Bad), NEW n \in 0 .. Len(text),
         \A i \in 1 .. n : text[i] \in Digits,
         \A i \in n + 1 .. Len(text) : text[i] = Pad
  PROVE  DecodeBase64Strict(text) =
           IF /\ Len(text) - n <= 2 /\ n % 4 # 1
              /\ Len(text) # n => Len(text) % 4 = 0 /\ Len(text) - n = (4 - (n % 4)) % 4
              /\ TrailingBitsAreZero(text, n)
             THEN [i \in 1 .. (n * 6) \div 8 |-> DecodedByte(text, i)]
             ELSE <<>>
<1>1. n = 0 \/ text[n] # Pad
  <2>1. n # 0 => n \in 1 .. n
    OBVIOUS
  <2>2. Pad \notin Digits
    BY DEF Digits, Pad
  <2>3. QED  BY <2>1, <2>2
<1>2. Padding(text) = Len(text) - n
  BY <1>1, PaddingIs
<1>3. Len(text) - (Len(text) - n) = n /\ (Len(text) - n # 0 <=> Len(text) # n)
  OBVIOUS
<1>4. \A i \in 1 .. n : Base64Value(text[i]) >= 0
  <2>1. \A char \in Digits : Base64Value(char) >= 0
    BY DEF Digits, Base64Value
  <2>2. QED  BY <2>1
<1>5. QED  BY <1>2, <1>3, <1>4 DEF DecodeBase64Strict

\* The strict decoder undoes the encoder, padded or not, for bytes of every length
\* (Convert.cpp).
LEMMA DecodesWhatIsEncoded ==
  ASSUME NEW bytes \in Seq(Bytes), NEW padded \in BOOLEAN
  PROVE  DecodeBase64Strict(Base64Encode(bytes, padded)) = bytes
<1> DEFINE text == Base64Encode(bytes, padded)
           m == Len(bytes)
           n == (8 * m + 5) \div 6
<1>1. /\ n \in 0 .. Len(text) /\ text \in Seq(0 .. Bad)
      /\ Len(text) = IF padded THEN 4 * ((m + 2) \div 3) ELSE n
      /\ \A i \in 1 .. n : text[i] = EncodedDigit(bytes, i) /\ text[i] \in Digits
      /\ \A i \in n + 1 .. Len(text) : text[i] = Pad
  BY EncodedIs
<1>2. m \in Nat /\ n \in Nat /\ n % 4 # 1 /\ m = (n * 6) \div 8
  BY Lengths64
<1> HIDE DEF text
<1>3. ASSUME NEW g \in Nat, 3 * g + 1 <= m
      PROVE  /\ bytes[3 * g + 1] = DecodedByte(text, 3 * g + 1)
             /\ 3 * g + 2 <= m => bytes[3 * g + 2] = DecodedByte(text, 3 * g + 2)
             /\ 3 * g + 3 <= m => bytes[3 * g + 3] = DecodedByte(text, 3 * g + 3)
             /\ m = 3 * g + 1 => n = 4 * g + 2 /\ text[n] % 16 = 0
             /\ m = 3 * g + 2 => n = 4 * g + 3 /\ text[n] % 4 = 0
  <2> DEFINE at(j) == ByteAt(bytes, 3 * g + j)
             d(j) == EncodedDigit(bytes, 4 * g + j)
  <2>1. at(1) \in Bytes /\ at(2) \in Bytes /\ at(3) \in Bytes /\ at(4) \in Bytes
    BY SomeByte
  <2>2. /\ d(1) = ((at(1) * 256 + at(2)) \div 1024) % 64
        /\ d(2) = ((at(1) * 256 + at(2)) \div 16) % 64
        /\ d(3) = ((at(2) * 256 + at(3)) \div 64) % 64
        /\ d(4) = ((at(3) * 256 + at(4)) \div 256) % 64
    BY EncodedDigitIs
  <2>3. /\ at(1) = bytes[3 * g + 1]
        /\ at(2) = IF 3 * g + 2 <= m THEN bytes[3 * g + 2] ELSE 0
        /\ at(3) = IF 3 * g + 3 <= m THEN bytes[3 * g + 3] ELSE 0
    BY <1>2, <1>3 DEF ByteAt
  <2>4. /\ 4 * g + 2 <= n
        /\ 3 * g + 2 <= m => 4 * g + 3 <= n
        /\ 3 * g + 3 <= m => 4 * g + 4 <= n
        /\ m = 3 * g + 1 => n = 4 * g + 2
        /\ m = 3 * g + 2 => n = 4 * g + 3
    BY <1>2, <1>3
  <2>5. /\ text[4 * g + 1] = d(1) /\ text[4 * g + 2] = d(2)
        /\ 3 * g + 2 <= m => text[4 * g + 3] = d(3)
        /\ 3 * g + 3 <= m => text[4 * g + 4] = d(4)
    BY <1>1, <2>4
  <2> HIDE DEF at, d
  <2>6. /\ at(1) = (d(1) * 4 + (d(2) \div 16)) % 256
        /\ at(2) = (d(2) * 16 + (d(3) \div 4)) % 256
        /\ at(3) = (d(3) * 64 + (d(4) \div 1)) % 256
        /\ at(2) = 0 => d(2) % 16 = 0
        /\ at(3) = 0 => d(3) % 4 = 0
    BY <2>1, <2>2, GroupDecodes
  <2>7. /\ DecodedByte(text, 3 * g + 1) =
               (text[4 * g + 1] * 4 + (text[4 * g + 2] \div 16)) % 256
        /\ DecodedByte(text, 3 * g + 2) =
               (text[4 * g + 2] * 16 + (text[4 * g + 3] \div 4)) % 256
        /\ DecodedByte(text, 3 * g + 3) =
               (text[4 * g + 3] * 64 + (text[4 * g + 4] \div 1)) % 256
    BY DecodedByteIs
  <2>8. bytes[3 * g + 1] = DecodedByte(text, 3 * g + 1)
    BY <2>3, <2>5, <2>6, <2>7
  <2>9. 3 * g + 2 <= m => bytes[3 * g + 2] = DecodedByte(text, 3 * g + 2)
    BY <2>3, <2>5, <2>6, <2>7
  <2>10. 3 * g + 3 <= m => bytes[3 * g + 3] = DecodedByte(text, 3 * g + 3)
    <3>1. 3 * g + 3 <= m => 3 * g + 2 <= m
      BY <1>2
    <3>2. QED  BY <2>3, <2>5, <2>6, <2>7, <3>1
  <2>11. m = 3 * g + 1 => n = 4 * g + 2 /\ text[n] % 16 = 0
    <3>1. m = 3 * g + 1 => ~ (3 * g + 2 <= m)
      OBVIOUS
    <3>2. QED  BY <2>3, <2>4, <2>5, <2>6, <3>1
  <2>12. m = 3 * g + 2 => n = 4 * g + 3 /\ text[n] % 4 = 0
    <3>1. m = 3 * g + 2 => 3 * g + 2 <= m /\ ~ (3 * g + 3 <= m)
      OBVIOUS
    <3>2. QED  BY <2>3, <2>4, <2>5, <2>6, <3>1
  <2>13. QED  BY <2>8, <2>9, <2>10, <2>11, <2>12
<1>4. \A i \in 1 .. m : bytes[i] = DecodedByte(text, i)
  <2> SUFFICES ASSUME NEW i \in 1 .. m PROVE bytes[i] = DecodedByte(text, i)
    OBVIOUS
  <2>1. PICK g \in Nat : i \in {3 * g + 1, 3 * g + 2, 3 * g + 3}
    <3>1. i \in Nat \ {0}
      OBVIOUS
    <3>2. QED  BY <3>1, BytePlace
  <2>2. 3 * g + 1 <= m
    BY <2>1
  <2>3. QED  BY <1>2, <1>3, <2>1, <2>2
<1>5. TrailingBitsAreZero(text, n)
  <2>1. CASE m = 0
    <3>1. n % 4 = 0
      BY <2>1
    <3>2. QED  BY <3>1 DEF TrailingBitsAreZero
  <2>2. CASE m # 0
    <3>1. PICK g \in Nat : m \in {3 * g + 1, 3 * g + 2, 3 * g + 3}
      BY <1>2, <2>2, BytePlace
    <3>2. m = 3 * g + 3 => n % 4 = 0
      BY <1>2
    <3>3. QED  BY <1>2, <1>3, <3>1, <3>2 DEF TrailingBitsAreZero
  <2>3. QED  BY <2>1, <2>2
<1>6. /\ Len(text) - n <= 2
      /\ Len(text) # n => Len(text) % 4 = 0 /\ Len(text) - n = (4 - (n % 4)) % 4
  <2>1. CASE ~ padded
    BY <1>1, <1>2, <2>1
  <2>2. CASE padded
    <3>1. Len(text) = 4 * ((m + 2) \div 3)
      BY <1>1, <2>2
    <3>2. PICK g \in Nat, r \in 0 .. 2 : m = 3 * g + r
      <4> WITNESS m \div 3 \in Nat, m % 3 \in 0 .. 2
      <4> QED  BY <1>2
    <3>3. /\ r = 0 => Len(text) = 4 * g /\ n = 4 * g
          /\ r = 1 => Len(text) = 4 * g + 4 /\ n = 4 * g + 2
          /\ r = 2 => Len(text) = 4 * g + 4 /\ n = 4 * g + 3
      BY <3>1, <3>2
    <3> HIDE DEF n
    <3>4. QED  BY <1>2, <3>3
  <2>3. QED  BY <2>1, <2>2
<1>7. DecodeBase64Strict(text) = [i \in 1 .. m |-> DecodedByte(text, i)]
  BY <1>1, <1>2, <1>5, <1>6, DecodedIs
<1>8. bytes = [i \in 1 .. m |-> bytes[i]]
  OBVIOUS
<1>9. QED  BY <1>4, <1>7, <1>8 DEF text

\* A set of numbers has a least one.
LEMMA LeastNumber ==
  ASSUME NEW T, T \subseteq Nat, T # {}
  PROVE  \E x \in T : \A y \in T : x <= y
<1>1. \E R : IsWellFoundedOn(R, Nat) /\ \A x, y \in Nat : <<y, x>> \in R <=> y < x
  <2>1. IsWellFoundedOn(OpToRel(<, Nat), Nat)
    BY NatLessThanWellFounded
  <2>2. \A x, y \in Nat : <<y, x>> \in OpToRel(<, Nat) <=> y < x
    BY DEF OpToRel
  <2>3. QED  BY <2>1, <2>2, Zenon
<1>2. PICK R : IsWellFoundedOn(R, Nat) /\ \A x, y \in Nat : <<y, x>> \in R <=> y < x
  BY <1>1
<1>3. \E x \in T : \A y \in T : ~ (<<y, x>> \in R)
  BY <1>2, WFMin
<1>4. \A x, y \in T : <<y, x>> \notin R => x <= y
  <2>1. \A x, y \in T : x \in Nat /\ y \in Nat /\ (~ (y < x) => x <= y)
    OBVIOUS
  <2>2. QED  BY <1>2, <2>1
<1>5. QED  BY <1>3, <1>4

\* Every text is digits and others, the last of which is none, and padding.
LEMMA PaddingFound ==
  ASSUME NEW text \in Seq(0 .. Bad)
  PROVE  \E n \in 0 .. Len(text) : /\ Padding(text) = Len(text) - n
                                   /\ \A i \in n + 1 .. Len(text) : text[i] = Pad
<1> DEFINE T == {n \in 0 .. Len(text) : \A i \in n + 1 .. Len(text) : text[i] = Pad}
<1>1. T \subseteq Nat /\ T # {}
  <2>1. Len(text) \in T
    OBVIOUS
  <2>2. QED  BY <2>1
<1>2. PICK n \in T : \A m \in T : n <= m
  <2> HIDE DEF T
  <2>1. QED  BY <1>1, LeastNumber
<1>3. n = 0 \/ text[n] # Pad
  <2> SUFFICES ASSUME n # 0, text[n] = Pad PROVE FALSE
    OBVIOUS
  <2>1. n - 1 \in T
    <3>1. n - 1 \in 0 .. Len(text)
      BY <1>2
    <3>2. ASSUME NEW i \in (n - 1) + 1 .. Len(text) PROVE text[i] = Pad
      <4>1. i = n \/ i \in n + 1 .. Len(text)
        BY <1>2
      <4>2. QED  BY <1>2, <4>1
    <3>3. QED  BY <3>1, <3>2
  <2>2. n \in Nat /\ n <= n - 1
    BY <1>1, <1>2, <2>1
  <2>3. QED  BY <2>2
<1>4. n \in 0 .. Len(text) /\ \A i \in n + 1 .. Len(text) : text[i] = Pad
  BY <1>2
<1>5. QED  BY <1>3, <1>4, PaddingIs

DecodedBytes(text, n) == [i \in 1 .. (n * 6) \div 8 |-> DecodedByte(text, i)]

\* A text that is decoded has the digits that its bytes need.
LEMMA DigitsAreEncoded ==
  ASSUME NEW text \in Seq(0 .. Bad), NEW n \in 1 .. Len(text),
         \A i \in 1 .. n : text[i] \in Digits,
         n % 4 # 1, TrailingBitsAreZero(text, n)
  PROVE  /\ DecodedBytes(text, n) \in Seq(Bytes)
         /\ n = (8 * Len(DecodedBytes(text, n)) + 5) \div 6
         /\ \A i \in 1 .. n : text[i] = EncodedDigit(DecodedBytes(text, n), i)
<1> DEFINE bytes == DecodedBytes(text, n)
           m == (n * 6) \div 8
           t(i) == IF i <= n THEN text[i] ELSE 0
<1>1. m \in Nat /\ n = (8 * m + 5) \div 6
  BY Lengths64
<1>2. \A i \in Nat \ {0} : t(i) \in Digits /\ (i <= n => t(i) = text[i])
  <2>1. 0 \in Digits
    BY DEF Digits
  <2>2. QED  BY <2>1
<1> HIDE DEF t
<1>3. ASSUME NEW g \in Nat
      PROVE  LET one == (t(4 * g + 1) * 4 + (t(4 * g + 2) \div 16)) % 256
                 two == (t(4 * g + 2) * 16 + (t(4 * g + 3) \div 4)) % 256
                 three == (t(4 * g + 3) * 64 + (t(4 * g + 4) \div 1)) % 256
             IN /\ one \in Bytes /\ two \in Bytes /\ three \in Bytes
                /\ 4 * g + 2 <= n => DecodedByte(text, 3 * g + 1) = one
                /\ 4 * g + 3 <= n => DecodedByte(text, 3 * g + 2) = two
                /\ 4 * g + 4 <= n => DecodedByte(text, 3 * g + 3) = three
                /\ \A next \in Bytes : t(4 * g + 1) = ((one * 256 + next) \div 1024) % 64
                /\ t(4 * g + 2) = ((one * 256 + two) \div 16) % 64
                /\ t(4 * g + 3) = ((two * 256 + three) \div 64) % 64
                /\ \A next \in Bytes : t(4 * g + 4) = ((three * 256 + next) \div 256) % 64
                /\ t(4 * g + 2) % 16 = 0 => t(4 * g + 2) = ((one * 256 + 0) \div 16) % 64
                /\ t(4 * g + 3) % 4 = 0 => t(4 * g + 3) = ((two * 256 + 0) \div 64) % 64
  <2> DEFINE d(j) == t(4 * g + j)
             one == (d(1) * 4 + (d(2) \div 16)) % 256
             two == (d(2) * 16 + (d(3) \div 4)) % 256
             three == (d(3) * 64 + (d(4) \div 1)) % 256
  <2>1. d(1) \in Digits /\ d(2) \in Digits /\ d(3) \in Digits /\ d(4) \in Digits
    BY <1>2
  <2>2. /\ 4 * g + 1 <= n => d(1) = text[4 * g + 1]
        /\ 4 * g + 2 <= n => d(2) = text[4 * g + 2]
        /\ 4 * g + 3 <= n => d(3) = text[4 * g + 3]
        /\ 4 * g + 4 <= n => d(4) = text[4 * g + 4]
    BY <1>2
  <2> HIDE DEF d
  <2>3. /\ 4 * g + 2 <= n => DecodedByte(text, 3 * g + 1) = one
        /\ 4 * g + 3 <= n => DecodedByte(text, 3 * g + 2) = two
        /\ 4 * g + 4 <= n => DecodedByte(text, 3 * g + 3) = three
    <3>1. /\ 4 * g + 2 <= n => 4 * g + 1 <= n
          /\ 4 * g + 3 <= n => 4 * g + 2 <= n
          /\ 4 * g + 4 <= n => 4 * g + 3 <= n
      OBVIOUS
    <3>2. QED  BY <2>2, <3>1, DecodedByteIs
  <2>4. /\ one \in Bytes /\ two \in Bytes /\ three \in Bytes
        /\ \A next \in Bytes : d(1) = ((one * 256 + next) \div 1024) % 64
        /\ d(2) = ((one * 256 + two) \div 16) % 64
        /\ d(3) = ((two * 256 + three) \div 64) % 64
        /\ \A next \in Bytes : d(4) = ((three * 256 + next) \div 256) % 64
        /\ d(2) % 16 = 0 => d(2) = ((one * 256 + 0) \div 16) % 64
        /\ d(3) % 4 = 0 => d(3) = ((two * 256 + 0) \div 64) % 64
    BY <2>1, GroupEncodes
  <2> HIDE DEF one, two, three
  <2>5. QED  BY <2>3, <2>4 DEF one, two, three, d
<1>4. ASSUME NEW i \in 1 .. m PROVE DecodedByte(text, i) \in Bytes
  <2>1. i \in Nat \ {0}
    OBVIOUS
  <2>2. PICK g \in Nat : i \in {3 * g + 1, 3 * g + 2, 3 * g + 3}
    BY <2>1, BytePlace
  <2>3. /\ i = 3 * g + 1 => 4 * g + 2 <= n
        /\ i = 3 * g + 2 => 4 * g + 3 <= n
        /\ i = 3 * g + 3 => 4 * g + 4 <= n
    BY <1>1
  <2>4. /\ 4 * g + 2 <= n => DecodedByte(text, 3 * g + 1) \in Bytes
        /\ 4 * g + 3 <= n => DecodedByte(text, 3 * g + 2) \in Bytes
        /\ 4 * g + 4 <= n => DecodedByte(text, 3 * g + 3) \in Bytes
    BY <1>3
  <2>5. QED  BY <2>2, <2>3, <2>4
<1>5. /\ bytes \in Seq(Bytes) /\ Len(bytes) = m /\ DOMAIN bytes = 1 .. m
      /\ \A i \in 1 .. m : bytes[i] = DecodedByte(text, i)
  <2>1. bytes = [i \in 1 .. m |-> DecodedByte(text, i)]
    BY DEF DecodedBytes
  <2> HIDE DEF m, bytes
  <2>2. QED  BY <1>1, <1>4, <2>1
<1> HIDE DEF bytes
<1>6. ASSUME NEW g \in Nat, NEW j \in 1 .. 4, 4 * g + j <= n
      PROVE  EncodedDigit(bytes, 4 * g + j) = text[4 * g + j]
  <2> DEFINE at(i) == ByteAt(bytes, 3 * g + i)
             one == (t(4 * g + 1) * 4 + (t(4 * g + 2) \div 16)) % 256
             two == (t(4 * g + 2) * 16 + (t(4 * g + 3) \div 4)) % 256
             three == (t(4 * g + 3) * 64 + (t(4 * g + 4) \div 1)) % 256
  <2>1. /\ 4 * g + 2 <= n /\ 3 * g + 1 <= m
        /\ 4 * g + 3 <= n => 3 * g + 2 <= m
        /\ ~ (4 * g + 3 <= n) => m = 3 * g + 1 /\ n = 4 * g + 2
        /\ 4 * g + 4 <= n => 3 * g + 3 <= m
        /\ 4 * g + 3 <= n /\ ~ (4 * g + 4 <= n) => m = 3 * g + 2 /\ n = 4 * g + 3
    BY <1>1, <1>6
  <2>2. /\ \A i \in 1 .. 3 : 3 * g + i \in DOMAIN bytes <=> 3 * g + i <= m
    BY <1>1, <1>5
  <2>3. at(1) = one
    BY <1>3, <1>5, <2>1, <2>2 DEF ByteAt
  <2>4. IF 4 * g + 3 <= n THEN at(2) = two ELSE at(2) = 0 /\ t(4 * g + 2) % 16 = 0
    <3>1. CASE 4 * g + 3 <= n
      BY <1>3, <1>5, <2>1, <2>2, <3>1 DEF ByteAt
    <3>2. CASE ~ (4 * g + 3 <= n)
      <4>1. ~ (3 * g + 2 <= m) /\ n % 4 = 2
        BY <1>1, <2>1, <3>2
      <4>2. t(n) % 16 = 0
        BY <1>2, <4>1 DEF TrailingBitsAreZero
      <4>3. QED  BY <2>1, <2>2, <3>2, <4>1, <4>2 DEF ByteAt
    <3>3. QED  BY <3>1, <3>2
  <2>5. 4 * g + 3 <= n =>
          IF 4 * g + 4 <= n THEN at(3) = three ELSE at(3) = 0 /\ t(4 * g + 3) % 4 = 0
    <3>1. CASE 4 * g + 4 <= n
      BY <1>3, <1>5, <2>1, <2>2, <3>1 DEF ByteAt
    <3>2. CASE 4 * g + 3 <= n /\ ~ (4 * g + 4 <= n)
      <4>1. ~ (3 * g + 3 <= m) /\ n % 4 = 3
        BY <1>1, <2>1, <3>2
      <4>2. t(n) % 4 = 0
        BY <1>2, <4>1 DEF TrailingBitsAreZero
      <4>3. QED  BY <2>1, <2>2, <3>2, <4>1, <4>2 DEF ByteAt
    <3>3. QED  BY <3>1, <3>2
  <2>6. at(2) \in Bytes /\ at(4) \in Bytes
    BY <1>5, SomeByte
  <2>7. /\ \A next \in Bytes : t(4 * g + 1) = ((one * 256 + next) \div 1024) % 64
        /\ t(4 * g + 2) = ((one * 256 + two) \div 16) % 64
        /\ t(4 * g + 3) = ((two * 256 + three) \div 64) % 64
        /\ \A next \in Bytes : t(4 * g + 4) = ((three * 256 + next) \div 256) % 64
        /\ t(4 * g + 2) % 16 = 0 => t(4 * g + 2) = ((one * 256 + 0) \div 16) % 64
        /\ t(4 * g + 3) % 4 = 0 => t(4 * g + 3) = ((two * 256 + 0) \div 64) % 64
    BY <1>3
  <2>8. /\ EncodedDigit(bytes, 4 * g + 1) = ((at(1) * 256 + at(2)) \div 1024) % 64
        /\ EncodedDigit(bytes, 4 * g + 2) = ((at(1) * 256 + at(2)) \div 16) % 64
        /\ EncodedDigit(bytes, 4 * g + 3) = ((at(2) * 256 + at(3)) \div 64) % 64
        /\ EncodedDigit(bytes, 4 * g + 4) = ((at(3) * 256 + at(4)) \div 256) % 64
    BY EncodedDigitIs
  <2>9. text[4 * g + j] = t(4 * g + j)
    BY <1>2, <1>6
  <2> HIDE DEF at, one, two, three
  <2>10. 4 * g + 4 <= n => 4 * g + 3 <= n
    OBVIOUS
  <2>11. CASE j = 1  BY <2>3, <2>6, <2>7, <2>8, <2>9, <2>11
  <2>12. CASE j = 2  BY <2>3, <2>4, <2>7, <2>8, <2>9, <2>12
  <2>13. CASE j = 3
    <3>1. 4 * g + 3 <= n
      BY <1>6, <2>13
    <3>2. QED  BY <2>4, <2>5, <2>7, <2>8, <2>9, <2>13, <3>1
  <2>14. CASE j = 4
    <3>1. 4 * g + 4 <= n
      BY <1>6, <2>14
    <3>2. QED  BY <2>5, <2>6, <2>7, <2>8, <2>9, <2>10, <2>14, <3>1
  <2>15. QED  BY <2>11, <2>12, <2>13, <2>14
<1>7. ASSUME NEW i \in 1 .. n PROVE text[i] = EncodedDigit(bytes, i)
  <2>1. i \in Nat \ {0} /\ i <= n
    OBVIOUS
  <2>2. PICK g \in Nat : i \in {4 * g + 1, 4 * g + 2, 4 * g + 3, 4 * g + 4}
    BY <2>1, DigitPlace
  <2>3. PICK j \in 1 .. 4 : i = 4 * g + j
    BY <2>2
  <2>4. QED  BY <1>6, <2>1, <2>3
<1>8. QED  BY <1>1, <1>5, <1>7 DEF bytes

\* Nothing else is decoded to the same bytes: a text of base64 is the one text the
\* encoder writes, with its padding or without (Convert.cpp).
LEMMA EncodesWhatIsDecoded ==
  ASSUME NEW text \in Seq(0 .. Bad), DecodeBase64Strict(text) # <<>>
  PROVE  /\ DecodeBase64Strict(text) \in Seq(Bytes)
         /\ \E padded \in BOOLEAN :
              text = Base64Encode(DecodeBase64Strict(text), padded)
<1> DEFINE bytes == DecodeBase64Strict(text)
<1>1. PICK n \in 0 .. Len(text) : /\ Padding(text) = Len(text) - n
                                  /\ \A i \in n + 1 .. Len(text) : text[i] = Pad
  BY PaddingFound
<1>2. Len(text) - (Len(text) - n) = n /\ (Len(text) - n # 0 <=> Len(text) # n)
  OBVIOUS
<1>3. /\ Len(text) - n <= 2 /\ n % 4 # 1
      /\ Len(text) # n => Len(text) % 4 = 0 /\ Len(text) - n = (4 - (n % 4)) % 4
      /\ \A i \in 1 .. n : Base64Value(text[i]) >= 0
      /\ TrailingBitsAreZero(text, n)
      /\ bytes = [i \in 1 .. (n * 6) \div 8 |-> DecodedByte(text, i)]
  BY <1>1, <1>2 DEF DecodeBase64Strict
<1> HIDE DEF bytes
<1>4. \A i \in 1 .. n : text[i] \in Digits
  <2>1. \A char : Base64Value(char) >= 0 => char \in Digits
    BY DEF Base64Value, Digits
  <2>2. QED  BY <1>3, <2>1
<1>5. n # 0
  <2> SUFFICES ASSUME n = 0 PROVE FALSE
    OBVIOUS
  <2>1. (n * 6) \div 8 = 0
    OBVIOUS
  <2>2. 1 .. 0 = {}
    OBVIOUS
  <2>3. bytes = <<>>
    BY <1>3, <2>1, <2>2
  <2>4. QED  BY <2>3 DEF bytes
<1>6. /\ bytes \in Seq(Bytes) /\ n = (8 * Len(bytes) + 5) \div 6
      /\ \A i \in 1 .. n : text[i] = EncodedDigit(bytes, i)
  <2>1. n \in 1 .. Len(text)
    BY <1>5
  <2>2. n % 4 # 1 /\ TrailingBitsAreZero(text, n)
    BY <1>3
  <2>3. bytes = DecodedBytes(text, n)
    BY <1>3 DEF DecodedBytes
  <2>4. QED  BY <1>4, <2>1, <2>2, <2>3, DigitsAreEncoded
<1>7. PICK padded \in BOOLEAN :
        Len(text) = IF padded THEN 4 * ((Len(bytes) + 2) \div 3) ELSE n
  <2>1. CASE Len(text) = n
    BY <2>1
  <2>2. CASE Len(text) # n
    <3>1. Len(text) % 4 = 0 /\ Len(text) - n = (4 - (n % 4)) % 4
      BY <1>3, <2>2
    <3>2. Len(bytes) \in Nat
      BY <1>6
    <3>3. PICK g \in Nat, r \in 0 .. 2 : Len(bytes) = 3 * g + r
      <4> WITNESS Len(bytes) \div 3 \in Nat, Len(bytes) % 3 \in 0 .. 2
      <4> QED  BY <3>2
    <3>4. /\ (Len(bytes) + 2) \div 3 = IF r = 0 THEN g ELSE g + 1
          /\ n = IF r = 0 THEN 4 * g ELSE 4 * g + r + 1
      BY <1>6, <3>3
    <3>5. Len(text) = 4 * ((Len(bytes) + 2) \div 3)
      BY <3>1, <3>3, <3>4
    <3>6. QED  BY <3>5
  <2>3. QED  BY <2>1, <2>2
<1>8. /\ Base64Encode(bytes, padded) \in Seq(0 .. Bad)
      /\ Len(Base64Encode(bytes, padded)) = Len(text)
      /\ \A i \in 1 .. n : Base64Encode(bytes, padded)[i] = EncodedDigit(bytes, i)
      /\ \A i \in n + 1 .. Len(text) : Base64Encode(bytes, padded)[i] = Pad
  BY <1>6, <1>7, EncodedIs
<1>9. \A i \in 1 .. Len(text) : text[i] = Base64Encode(bytes, padded)[i]
  <2>1. \A i \in 1 .. Len(text) : i \in 1 .. n \/ i \in n + 1 .. Len(text)
    OBVIOUS
  <2>2. QED  BY <1>1, <1>6, <1>8, <2>1
<1>10. text = Base64Encode(bytes, padded)
  BY <1>8, <1>9
<1>11. QED  BY <1>6, <1>10 DEF bytes

\* The same of base64url, which has no padding: it is a bijection between the
\* byte sequences and the texts that are accepted (Convert.cpp).
THEOREM Base64URLIsStrict ==
  /\ \A bytes \in Seq(Bytes) : Base64URLDecode(Base64URLEncode(bytes)) = bytes
  /\ \A text \in Seq(0 .. Bad) : Base64URLDecode(text) # <<>> =>
       /\ Base64URLDecode(text) \in Seq(Bytes)
       /\ text = Base64URLEncode(Base64URLDecode(text))
<1>1. ASSUME NEW bytes \in Seq(Bytes)
      PROVE  Base64URLDecode(Base64URLEncode(bytes)) = bytes
  <2> DEFINE text == Base64URLEncode(bytes)
             n == (8 * Len(bytes) + 5) \div 6
  <2>1. /\ text \in Seq(0 .. Bad) /\ Len(text) = n
        /\ \A i \in 1 .. n : text[i] \in Digits
    BY EncodedIs DEF Base64URLEncode
  <2>2. Len(text) % 4 # 1
    BY <2>1, Lengths64
  <2>3. DecodeBase64Strict(text) = bytes
    BY DecodesWhatIsEncoded DEF Base64URLEncode
  <2> HIDE DEF text
  <2>4. \A i \in DOMAIN text : text[i] \in 0 .. 63
    <3>1. DOMAIN text = 1 .. n
      BY <2>1
    <3>2. QED  BY <2>1, <3>1 DEF Digits
  <2>5. QED  BY <2>2, <2>3, <2>4 DEF Base64URLDecode, text
<1>2. ASSUME NEW text \in Seq(0 .. Bad), Base64URLDecode(text) # <<>>
      PROVE  /\ Base64URLDecode(text) \in Seq(Bytes)
             /\ text = Base64URLEncode(Base64URLDecode(text))
  <2>1. /\ Len(text) % 4 # 1 /\ \A i \in DOMAIN text : text[i] \in 0 .. 63
        /\ Base64URLDecode(text) = DecodeBase64Strict(text)
    BY <1>2 DEF Base64URLDecode
  <2> DEFINE bytes == DecodeBase64Strict(text)
  <2>2. PICK padded \in BOOLEAN : bytes \in Seq(Bytes) /\ text = Base64Encode(bytes, padded)
    BY <1>2, <2>1, EncodesWhatIsDecoded
  <2> HIDE DEF bytes
  <2> DEFINE n == (8 * Len(bytes) + 5) \div 6
  <2>3. Len(text) = n
    <3>1. n \in 0 .. Len(text) /\ \A i \in n + 1 .. Len(text) : text[i] = Pad
      BY <2>2, EncodedIs
    <3>2. \A i \in 1 .. Len(text) : text[i] # Pad
      <4>1. DOMAIN text = 1 .. Len(text) /\ Pad \notin 0 .. 63
        BY DEF Pad
      <4>2. QED  BY <2>1, <4>1
    <3>3. n # Len(text) => Len(text) \in n + 1 .. Len(text) /\ Len(text) \in 1 .. Len(text)
      BY <3>1
    <3>4. QED  BY <3>1, <3>2, <3>3
  <2>4. text = Base64Encode(bytes, FALSE)
    <3>1. /\ Base64Encode(bytes, FALSE) \in Seq(0 .. Bad)
          /\ Len(Base64Encode(bytes, FALSE)) = n
          /\ \A i \in 1 .. n : Base64Encode(bytes, FALSE)[i] = EncodedDigit(bytes, i)
      BY <2>2, EncodedIs
    <3>2. \A i \in 1 .. n : text[i] = EncodedDigit(bytes, i)
      BY <2>2, EncodedIs
    <3>3. \A i \in 1 .. Len(text) : text[i] = Base64Encode(bytes, FALSE)[i]
      BY <2>3, <3>1, <3>2
    <3>4. QED  BY <2>3, <3>1, <3>3, SeqEqual
  <2>5. QED  BY <2>1, <2>2, <2>4 DEF Base64URLEncode, bytes
<1>3. QED  BY <1>1, <1>2
-----------------------------------------------------------------------------
(* The ids of the credentials in the vault.                                 *)

LEMMA IdBytes ==
  ASSUME NEW k \in Keys
  PROVE  /\ IdOf[k] \in Seq(Bytes) /\ IdOf[k] # <<>>
         /\ Base64URLDecode(Base64URLEncode(IdOf[k])) = IdOf[k]
         /\ Base64URLEncode(IdOf[k]) \in Texts
<1>1. IdOf[k] \in Seq(Bytes) /\ IdOf[k] # <<>> /\ Base64URLEncode(IdOf[k]) \in Texts
  BY VerificationAssumption DEF Bytes
<1>2. QED  BY <1>1, Base64URLIsStrict

\* Two credentials never have the same text (Base64URLEncode).
LEMMA IdTextsDiffer ==
  ASSUME NEW k \in Keys, NEW l \in Keys,
         Base64URLEncode(IdOf[k]) = Base64URLEncode(IdOf[l])
  PROVE  k = l
<1>1. IdOf[k] = IdOf[l]
  BY IdBytes
<1>2. QED  BY <1>1, VerificationAssumption

\* A credential in the vault has one text, for ids of any length and any texts
\* that may be tried (DecodeBase64Strict, Base64URLEncode).
THEOREM IdsAlwaysHaveOneSpelling == Spec => []IdsHaveOneSpelling
<1>1. IInv => IdsHaveOneSpelling
  <2> SUFFICES ASSUME IInv, NEW p \in vault.keys
               PROVE  SpellingsOf[p[2]] = {Base64URLEncode(IdOf[p[2]])}
    BY DEF IdsHaveOneSpelling
  <2> DEFINE k == p[2]
  <2>1. k \in Keys
    <3>1. vault.keys \subseteq Sids \X Keys
      BY VaultFields DEF IInv, Sound
    <3>2. QED  BY <3>1
  <2> HIDE DEF k
  <2>2. ASSUME NEW text \in Texts, Base64URLDecode(text) = IdOf[k]
        PROVE  text = Base64URLEncode(IdOf[k])
    <3>1. text \in Seq(0 .. Bad)
      BY VerificationAssumption
    <3>2. QED  BY <2>1, <2>2, <3>1, IdBytes, Base64URLIsStrict
  <2>3. {text \in Texts : Base64URLDecode(text) = IdOf[k]} = {Base64URLEncode(IdOf[k])}
    BY <2>1, <2>2, IdBytes
  <2>4. SpellingsOf[k] = {text \in Texts : Base64URLDecode(text) = IdOf[k]}
    BY <2>1 DEF SpellingsOf
  <2>5. QED  BY <2>3, <2>4 DEF k
<1>2. QED  BY <1>1, Inductive, PTL

-----------------------------------------------------------------------------
(* What the verifier accepts.                                               *)

\* A record that commit_registration keeps of a key is what the key attested: its
\* id and its coordinates, however they are written down.
LEMMA RecordIs ==
  ASSUME NEW k \in Keys, NEW record \in Records[k]
  PROVE  /\ record.credentialId = Base64URLEncode(IdOf[k])
         /\ record.algorithm = -7
         /\ IsEs256(record.cosePublicKey)
         /\ CoseEs256Coordinates(record.cosePublicKey) = KeyPair(k)
         /\ record.signCount = 0
         /\ \A n : [record EXCEPT !.signCount = n] =
              [credentialId |-> record.credentialId, cosePublicKey |-> record.cosePublicKey,
               algorithm |-> -7, signCount |-> n]
<1>1. PICK o \in Register(k, 1) :
        /\ VerifyRegistration(1, "own", "own", o, ClientData("webauthn.create", 1))
        /\ record = RegistrationResult(o)
  BY DEF Records
<1>2. PICK cose \in Encodings[k] :
        LET data == [AuthData(k, 0) EXCEPT !.at = TRUE, !.cose = cose] IN
          o = [format |-> "packed", id |-> IdOf[k], authData |-> data,
               statement |-> [x5c |-> <<>>, by |-> KeyPair(k),
                              over |-> <<ClientData("webauthn.create", 1), data>>]]
  BY <1>1 DEF Register
<1> DEFINE data == [AuthData(k, 0) EXCEPT !.at = TRUE, !.cose = cose]
<1>3. o.format = "packed" /\ o.authData = data /\ o.statement.x5c = <<>>
        /\ o.statement.by = KeyPair(k)
  BY <1>2
<1>4. data.id = IdOf[k] /\ data.count = 0
  BY DEF AuthData
<1> HIDE DEF data
<1>5. StatementVerifies(o, ClientData("webauthn.create", 1))
  BY <1>1 DEF VerifyRegistration
<1>6. IsEs256(ExtractedCose(data)) /\ KeyPair(k) = CoseEs256Coordinates(ExtractedCose(data))
  BY <1>3, <1>5 DEF StatementVerifies, ExtractAttestedCredential
<1>7. record = [credentialId |-> Base64URLEncode(IdOf[k]),
                cosePublicKey |-> ExtractedCose(data), algorithm |-> -7, signCount |-> 0]
  BY <1>1, <1>3, <1>4 DEF RegistrationResult
<1>8. QED  BY <1>6, <1>7

LEMMA KeyPairsDiffer ==
  ASSUME NEW k, NEW l, KeyPair(k) = KeyPair(l)
  PROVE  k = l
BY DEF KeyPair

\* Whatever response is presented: what a record of a key accepts is one response
\* with the key's id, signed by that key for this challenge, origin and relying
\* party, with its user present and verified, and with a newer counter
\* (FidoVerifier::VerifyAssertion).
THEOREM OnlyTheKeyIsAccepted ==
  ASSUME NEW k \in Keys, NEW record \in Records[k], NEW count, NEW challenge, NEW rpId,
         NEW origin, NEW response,
         VerifyAssertion([record EXCEPT !.signCount = count], challenge, rpId, origin, response)
  PROVE  LET assertion == response.assertions[1] IN
           /\ Len(response.assertions) = 1
           /\ assertion.credentialId = Base64URLEncode(IdOf[k])
           /\ assertion.signature = [by |-> KeyPair(k), clientData |-> response.clientData,
                                     authData |-> assertion.authData]
           /\ response.clientData.type = "webauthn.get"
           /\ response.clientData.challenge = challenge
           /\ response.clientData.origin = origin /\ ~ response.clientData.crossOrigin
           /\ assertion.authData.rpId = rpId
           /\ assertion.authData.up /\ assertion.authData.uv
           /\ count # 0 => assertion.authData.count > count
<1> DEFINE current == [record EXCEPT !.signCount = count]
<1>1. current = [credentialId |-> Base64URLEncode(IdOf[k]),
                 cosePublicKey |-> record.cosePublicKey, algorithm |-> -7, signCount |-> count]
  BY RecordIs
<1>2. CoseEs256Coordinates(current.cosePublicKey) = KeyPair(k)
  BY <1>1, RecordIs
<1> HIDE DEF current
<1>3. VerifyAssertion(current, challenge, rpId, origin, response)
  BY DEF current
<1>4. QED  BY <1>1, <1>2, <1>3
           DEF VerifyAssertion, VerifyClientData, VerifyAuthenticatorData, AssertVerifies,
               CounterAdvances

\* A session of the table, and what Verified reads of it.
LEMMA SessionTypes ==
  ASSUME IInv, NEW id \in OpenIn(sessions)
  PROVE  /\ id \in Ids /\ sessions[id].target \in Sids
         /\ \A k \in KeysOf(Refreshed, sessions[id].target) :
              k \in Keys /\ signCount[<<sessions[id].target, k>>] \in Nat
<1>1. sessions[id] \in Session /\ id \in Ids
  BY DEF IInv, SessionsType, OpenIn
<1>2. sessions[id].target \in Sids
  BY <1>1 DEF Session
<1>3. ASSUME NEW k \in KeysOf(Refreshed, sessions[id].target)
      PROVE  k \in Keys /\ signCount[<<sessions[id].target, k>>] \in Nat
  <2>1. k \in Keys
    BY DEF KeysOf
  <2>2. signCount[<<sessions[id].target, k>>] \in 0 .. MaxCount
    BY <1>2, <2>1 DEF IInv, Counters
  <2>3. QED  BY <2>1, <2>2, BrokerAssumption
<1>4. QED  BY <1>1, <1>2, <1>3

\* The response that was asked of a key is accepted for its own session, and
\* for no other and no other key.
LEMMA AskedIsAccepted ==
  ASSUME NEW k \in Keys, NEW record \in Records[k], NEW a \in Assertions,
         NEW count \in Nat, NEW id
  PROVE  VerifyAssertion([record EXCEPT !.signCount = count], id, "own", "own", AsAsked(a))
           <=> k = a.key /\ a.challenge = id /\ (count = 0 \/ a.count > count)
<1> DEFINE current == [record EXCEPT !.signCount = count]
           response == AsAsked(a)
           assertion == response.assertions[1]
<1>0. a.key \in Keys /\ a.count \in Nat
  BY BrokerAssumption DEF Assertions
<1>1. /\ response.clientData = ClientData("webauthn.get", a.challenge)
      /\ Len(response.assertions) = 1
      /\ assertion.credentialId = Base64URLEncode(IdOf[a.key])
      /\ assertion.authData = AuthData(a.key, a.count)
      /\ assertion.signature =
           [by |-> KeyPair(a.key), clientData |-> response.clientData,
            authData |-> assertion.authData]
  BY DEF AsAsked, Response
<1>2. /\ AuthData(a.key, a.count) # Unparsed
      /\ AuthData(a.key, a.count).size = 200 /\ AuthData(a.key, a.count).rpId = "own"
      /\ AuthData(a.key, a.count).up /\ AuthData(a.key, a.count).uv
      /\ AuthData(a.key, a.count).count = a.count
  BY DEF AuthData, Unparsed
<1>3. /\ ClientData("webauthn.get", a.challenge) # Unparsed
      /\ ClientData("webauthn.get", a.challenge).type = "webauthn.get"
      /\ ClientData("webauthn.get", a.challenge).challenge = a.challenge
      /\ ClientData("webauthn.get", a.challenge).origin = "own"
      /\ ~ ClientData("webauthn.get", a.challenge).crossOrigin
  BY DEF ClientData, Unparsed
<1>4. current = [credentialId |-> Base64URLEncode(IdOf[k]),
                 cosePublicKey |-> record.cosePublicKey, algorithm |-> -7, signCount |-> count]
  BY RecordIs
<1>5. IsEs256(record.cosePublicKey) /\ CoseEs256Coordinates(record.cosePublicKey) = KeyPair(k)
  BY RecordIs
<1> HIDE DEF current, response
<1>6. ASSUME k = a.key, a.challenge = id, count = 0 \/ a.count > count
      PROVE  VerifyAssertion(current, id, "own", "own", response)
  <2>1. VerifyClientData(response.clientData, "webauthn.get", id, "own")
    BY <1>1, <1>3, <1>6 DEF VerifyClientData
  <2>2. VerifyAuthenticatorData(assertion.authData, "own")
    BY <1>1, <1>2 DEF VerifyAuthenticatorData
  <2>3. CounterAdvances(current.signCount, assertion.authData.count)
    BY <1>0, <1>1, <1>2, <1>4, <1>6 DEF CounterAdvances
  <2>4. AssertVerifies(assertion.signature, response.clientData, assertion.authData, "own",
                       CoseEs256Coordinates(current.cosePublicKey))
    BY <1>1, <1>2, <1>4, <1>5, <1>6 DEF AssertVerifies
  <2>5. Base64URLDecode(assertion.credentialId) # <<>>
    BY <1>0, <1>1, IdBytes
  <2>6. QED  BY <1>1, <1>2, <1>4, <1>5, <1>6, <2>1, <2>2, <2>3, <2>4, <2>5
             DEF VerifyAssertion
<1>7. ASSUME VerifyAssertion(current, id, "own", "own", response)
      PROVE  k = a.key /\ a.challenge = id /\ (count = 0 \/ a.count > count)
  <2>1. assertion.credentialId = Base64URLEncode(IdOf[k])
    BY <1>4, <1>7 DEF VerifyAssertion
  <2>2. k = a.key
    BY <1>0, <1>1, <2>1, IdTextsDiffer
  <2>3. a.challenge = id
    BY <1>1, <1>3, <1>7 DEF VerifyAssertion, VerifyClientData
  <2>4. count = 0 \/ a.count > count
    BY <1>1, <1>2, <1>4, <1>7 DEF VerifyAssertion, CounterAdvances
  <2>5. QED  BY <2>2, <2>3, <2>4
<1>8. QED  BY <1>6, <1>7 DEF current, response

\* No other response made with the same touch, or from its parts, is accepted.
LEMMA OthersAreRefused ==
  ASSUME NEW k \in Keys, NEW record \in Records[k], NEW a \in Assertions,
         NEW count, NEW id, NEW r \in Otherwise(a)
  PROVE  ~ VerifyAssertion([record EXCEPT !.signCount = count], id, "own", "own", r)
<1> SUFFICES ASSUME VerifyAssertion([record EXCEPT !.signCount = count], id, "own", "own", r)
             PROVE  FALSE
  OBVIOUS
<1> DEFINE assertion == r.assertions[1]
           client == ClientData("webauthn.get", a.challenge)
           auth == AuthData(a.key, a.count)
           signature == [by |-> KeyPair(a.key), clientData |-> client, authData |-> auth]
<1>1. /\ Len(r.assertions) = 1
      /\ assertion.credentialId = Base64URLEncode(IdOf[k])
      /\ assertion.signature = [by |-> KeyPair(k), clientData |-> r.clientData,
                                authData |-> assertion.authData]
      /\ r.clientData.type = "webauthn.get"
      /\ r.clientData.origin = "own" /\ ~ r.clientData.crossOrigin
      /\ assertion.authData.rpId = "own" /\ assertion.authData.uv
  BY OnlyTheKeyIsAccepted
<1>2. AsAsked(a) = [clientData |-> client,
        assertions |-> <<[credentialId |-> Base64URLEncode(IdOf[a.key]), authData |-> auth,
                          signature |-> signature]>>]
  BY DEF AsAsked, Response
<1>3. CASE r \in {Response(a.key, [client EXCEPT !.type = "webauthn.create"], auth),
                  Response(a.key, [client EXCEPT !.origin = "elsewhere"], auth),
                  Response(a.key, [client EXCEPT !.crossOrigin = TRUE], auth)}
  BY <1>1, <1>3 DEF Response, ClientData
<1>4. CASE r \in {Response(a.key, client, [auth EXCEPT !.rpId = "elsewhere"]),
                  Response(a.key, client, [auth EXCEPT !.uv = FALSE])}
  BY <1>1, <1>4 DEF Response, AuthData
<1>5. CASE r = [AsAsked(a) EXCEPT !.assertions = <<>>]
  BY <1>1, <1>2, <1>5
<1>6. CASE r = [AsAsked(a) EXCEPT !.assertions = @ \o @]
  BY <1>1, <1>2, <1>6
<1>7. CASE r = [AsAsked(a) EXCEPT !.assertions[1].authData.count = MaxCount + 1]
  <2> DEFINE asked == [credentialId |-> Base64URLEncode(IdOf[a.key]), authData |-> auth,
                       signature |-> signature]
  <2>1. r.assertions[1] = [asked EXCEPT !.authData.count = MaxCount + 1]
    <3> HIDE DEF asked
    <3>1. AsAsked(a).assertions = <<asked>>
      BY <1>2 DEF asked
    <3>2. r.assertions = [AsAsked(a).assertions EXCEPT ![1].authData.count = MaxCount + 1]
      BY <1>2, <1>7
    <3>3. QED  BY <3>1, <3>2
  <2>2. r.assertions[1].authData.count = MaxCount + 1 /\ r.assertions[1].signature = signature
    BY <2>1 DEF AuthData
  <2>3. signature.authData.count = a.count
    BY DEF AuthData
  <2>4. a.count \in 0 .. MaxCount
    BY DEF Assertions
  <2>5. QED  BY <1>1, <2>2, <2>3, <2>4, BrokerAssumption
<1>8. CASE \E l \in Keys \ {a.key} :
             r = [AsAsked(a) EXCEPT !.assertions[1].credentialId = Base64URLEncode(IdOf[l])]
  <2>1. PICK l \in Keys \ {a.key} :
             r = [AsAsked(a) EXCEPT !.assertions[1].credentialId = Base64URLEncode(IdOf[l])]
    BY <1>8
  <2>2. r.assertions[1].credentialId = Base64URLEncode(IdOf[l])
          /\ r.assertions[1].signature = signature
    BY <1>2, <2>1
  <2>3. k = l
    BY <1>1, <2>2, IdTextsDiffer
  <2>4. KeyPair(k) = KeyPair(a.key)
    BY <1>1, <2>2
  <2>5. QED  BY <2>3, <2>4, KeyPairsDiffer
<1>9. QED
  BY <1>3, <1>4, <1>5, <1>6, <1>7, <1>8 DEF Otherwise

\* What Broker calls verified is what FidoVerifier accepts, for any keys, ids and
\* encodings of public keys, at every open session (VerifySessionAssertion).
THEOREM VerifierAlwaysExact == Spec => []VerifierIsExact
<1>1. IInv => VerifierIsExact
  <2> SUFFICES ASSUME IInv, NEW id \in OpenIn(sessions), sessions[id].kind # "registration",
                      NEW k \in KeysOf(Refreshed, sessions[id].target), NEW a \in signed,
                      NEW record \in Records[k]
               PROVE  LET accepts(r) == VerifyAssertion(
                            Current(record, sessions[id].target, k), id, "own", "own", r)
                      IN /\ accepts(Asked[a]) <=> k = a.key /\ Verified(id, a)
                         /\ \A r \in Others[a] : ~ accepts(r)
    BY DEF VerifierIsExact
  <2> DEFINE s == sessions[id].target
             count == signCount[<<s, k>>]
             accepts(r) == VerifyAssertion(
               [record EXCEPT !.signCount = count], id, "own", "own", r)
  <2>1. k \in Keys /\ count \in Nat
    BY SessionTypes
  <2>2. a \in Assertions
    BY DEF IInv, WorldType
  <2>3. Asked[a] = AsAsked(a) /\ Others[a] = Otherwise(a)
    BY <2>2 DEF Asked, Others
  <2>4. k = a.key /\ Verified(id, a) <=>
          k = a.key /\ a.challenge = id /\ (count = 0 \/ a.count > count)
    BY DEF Verified
  <2>5. Current(record, s, k) = [record EXCEPT !.signCount = count]
    BY DEF Current
  <2>6. accepts(AsAsked(a)) <=> k = a.key /\ Verified(id, a)
    <3> HIDE DEF count
    <3>1. QED  BY <2>1, <2>2, <2>4, AskedIsAccepted
  <2>7. \A r \in Otherwise(a) : ~ accepts(r)
    <3> HIDE DEF count
    <3>1. QED  BY <2>1, <2>2, OthersAreRefused
  <2>8. QED  BY <2>3, <2>5, <2>6, <2>7
<1>2. QED  BY <1>1, Inductive, PTL
===============================================================================
