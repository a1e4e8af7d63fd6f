---------------------------- MODULE MCVerification ----------------------------
(* TLC instances of the Broker with its verifier.                           *)
EXTENDS Verification, SequencesExt

CONSTANTS k1, k2

Ids2 == k1 :> <<4>> @@ k2 :> <<4, 1>>

\* All texts of up to three of some characters.
Characters == {0, 1, 2, 4, 16, 32, Bad, Pad}
ShortTexts == UNION {[1 .. n -> Characters] : n \in 0 .. 3}

Item(kind, v) == [kind |-> kind, v |-> v]
Coordinate(k, axis) == [kind |-> "bytes", v |-> <<k, axis>>, length |-> 32]
Pair(key, value) == [key |-> key, value |-> value]

\* kty 2, alg -7, crv 1, x and y.
Standard(k) ==
  <<Pair(Item("uint", 1), Item("uint", 2)), Pair(Item("uint", 3), Item("negint", 6)),
    Pair(Item("negint", 0), Item("uint", 1)),
    Pair(Item("negint", 1), Coordinate(k, "x")), Pair(Item("negint", 2), Coordinate(k, "y"))>>

Cose(pairs) == [pairs |-> pairs, more |-> FALSE]

\* In another order with a parameter more and something behind it, or with a
\* label that is 1 in 32 bits only; and, refused, with a parameter twice, another
\* algorithm, a short coordinate, or a coordinate missing.
CoseKeys ==
  [k \in {k1, k2} |-> LET s == Standard(k) IN
    {IF k = k1
       THEN [Cose(Reverse(s) \o <<Pair(Item("text", 0), Item("uint", 2))>>) EXCEPT !.more = TRUE]
       ELSE Cose([s EXCEPT ![1].key.v = 1 + IntSpan]),
     Cose(s \o <<Pair(Item("uint", 1), Item("uint", 3))>>),
     Cose([s EXCEPT ![2].value.v = 7]),
     Cose([s EXCEPT ![4].value.length = 31]),
     Cose(SubSeq(s, 1, 4))}]
=============================================================================
