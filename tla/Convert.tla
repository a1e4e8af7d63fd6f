------------------------------- MODULE Convert -------------------------------
(***************************************************************************)
(* Convert.cpp: base64 and base64url.  A text is the sequence of the values*)
(* of its characters, 0 .. 63; Pad is "=", and any other character is Bad. *)
(* In base64url the values 62 and 63 are written with other characters,    *)
(* and "=" is one that does not occur.                                     *)
(***************************************************************************)
EXTENDS Integers, Sequences

Pad == 64
Bad == 65

\* Trailing padding.
Padding(text) ==
  Len(text) - (CHOOSE n \in 0 .. Len(text) :
                 /\ \A i \in n + 1 .. Len(text) : text[i] = Pad
                 /\ n = 0 \/ text[n] # Pad)

Base64Value(char) == IF char \in 0 .. 63 THEN char ELSE -1

AnyTrailingBits(text, n) == TRUE  \* mutant: unused bits are ignored

\* "Reject alternate encodings whose unused trailing bits are non-zero."
TrailingBitsAreZero(text, n) ==
  /\ n % 4 = 2 => text[n] % 16 = 0
  /\ n % 4 = 3 => text[n] % 4 = 0

\* 2 ^ n, for the shifts that occur.
Power2(n) ==
  CASE n = 0 -> 1 [] n = 2 -> 4 [] n = 4 -> 16 [] n = 6 -> 64 [] n = 8 -> 256 [] n = 10 -> 1024

\* Byte i of n digits: the accumulator after the digit that completes it.
DecodedByte(text, i) ==
  LET bit == 8 * (i - 1)  digit == (bit \div 6) + 1  used == bit % 6 IN
    (text[digit] * Power2(used + 2) + (text[digit + 1] \div Power2(4 - used))) % 256

DecodeBase64Strict(text) ==
  LET padding == Padding(text)  n == Len(text) - padding IN
    IF /\ padding <= 2 /\ n % 4 # 1
       /\ padding # 0 => Len(text) % 4 = 0 /\ padding = (4 - (n % 4)) % 4
       /\ \A i \in 1 .. n : Base64Value(text[i]) >= 0
       /\ TrailingBitsAreZero(text, n)
      THEN [i \in 1 .. (n * 6) \div 8 |-> DecodedByte(text, i)]
      ELSE <<>>

Base64URLDecode(text) ==
  IF Len(text) % 4 # 1 /\ \A i \in DOMAIN text : text[i] \in 0 .. 63
    THEN DecodeBase64Strict(text) ELSE <<>>

\* Digit i: six bits of two neighbouring bytes, zero bits behind the last one.
EncodedDigit(bytes, i) ==
  LET bit == 6 * (i - 1)  index == (bit \div 8) + 1
      byte(j) == IF j \in DOMAIN bytes THEN bytes[j] ELSE 0
  IN ((byte(index) * 256 + byte(index + 1)) \div Power2(10 - (bit % 8))) % 64

Base64Encode(bytes, padded) ==
  LET digits == (8 * Len(bytes) + 5) \div 6
      groups == 4 * ((Len(bytes) + 2) \div 3)
  IN [i \in 1 .. (IF padded THEN groups ELSE digits) |->
        IF i <= digits THEN EncodedDigit(bytes, i) ELSE Pad]

Base64URLEncode(bytes) == Base64Encode(bytes, FALSE)
=============================================================================
