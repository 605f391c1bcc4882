--------------------------- MODULE MCCoapServer ---------------------------
(* Instances of CoapServer for TLC. *)
EXTENDS CoapServer, TLC

CONSTANTS p1, p2, c1

Peers1 == {p1}
Peers2 == {p1, p2}

DistinctKeys == [p \in Peers |-> p]
TwoEndpoints == [p \in Peers |-> IF p = p1 THEN "v4" ELSE "v6"]

\* A small pair, and a certificate one byte too long for resp_buf.
SomeLengths == {<<24, 256>>, <<121, 16385>>}

\* The ends of the length encodings; a frame that just fits, one that the final
\* check refuses, one that the decoding refuses, and a key without room left.
BoundaryLengths ==
    {23, 24, 255, 256} \X {23, 24, 255, 256}
    \cup {<<121, 16250>>, <<121, 16251>>, <<121, 16252>>, <<121, 16253>>,
          <<121, 16254>>, <<121, 16255>>, <<16370, 1>>, <<16372, 1>>,
          <<16379, 1>>, <<16380, 1>>, <<16385, 1>>}

OptionsSome == {<<"ok", "ok">>, <<"bad", "ok">>, <<"ok", "other">>}
=============================================================================
