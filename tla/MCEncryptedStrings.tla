-------------------------- MODULE MCEncryptedStrings --------------------------
(* Up to four pieces, each not base64, empty, or of a length that fits one   *)
(* of the three places of an AES string, none, or a COSE message; every      *)
(* known type and a few others.                                              *)
EXTENDS EncryptedStrings

Piece(l, c) == [base64 |-> TRUE, len |-> l, cose |-> c]

MCPieces ==
  {[base64 |-> FALSE, len |-> 0, cose |-> FALSE]} \cup
  {Piece(l, FALSE) : l \in {0, 16, 17, 32}} \cup {Piece(48, TRUE)}

MCInputs ==
  {[dot |-> d, prefix |-> t, pieces |-> x] :
     d \in {TRUE}, t \in {NotU8, 0} \cup 2 .. 8,
     x \in UNION {[1 .. n -> MCPieces] : n \in 1 .. 4}}
  \cup {[dot |-> FALSE, prefix |-> 2, pieces |-> <<Piece(16, FALSE)>>]}
=============================================================================
