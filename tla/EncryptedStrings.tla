--------------------------- MODULE EncryptedStrings ---------------------------
(***************************************************************************)
(* The two parsers of serialized encrypted strings                         *)
(* (crates/bwu-core/src/crypto.rs, EncryptedString::parse and              *)
(* RsaEncryptedString::parse), check by check.                             *)
(*                                                                         *)
(* An input is [dot, prefix, pieces]: whether there is a first '.', what   *)
(* is before it (0 .. 255, or NotU8) and the '|'-separated pieces behind   *)
(* it.  A piece is [base64, len, cose]: whether it is base64, the number   *)
(* of bytes it decodes to, and whether these are a COSE_Encrypt0.          *)
(***************************************************************************)
EXTENDS Integers, Sequences

CONSTANTS
  Pieces,        (* the pieces an input may have                           *)
  Inputs,        (* the inputs                                             *)
  NotU8          (* a prefix that does not parse as a u8                   *)

VARIABLES
  parser,        (* "symmetric" or "rsa"                                   *)
  input,         (* what it was given                                      *)
  step,          (* what it does next                                      *)
  next,          (* the piece it decodes next                              *)
  result         (* "ok" or the error, "none" while it runs                *)

vars == <<parser, input, step, next, result>>

ASSUME PiecesAssumption ==
  Pieces \subseteq [base64 : BOOLEAN, len : Nat, cose : BOOLEAN]
InputType == [dot : BOOLEAN, prefix : (0 .. 255) \cup {NotU8}, pieces : Seq(Pieces)]

ASSUME InputsAssumption ==
  /\ Inputs \subseteq InputType
  /\ \A i \in Inputs : Len(i.pieces) > 0
  /\ NotU8 \notin 0 .. 255

AES_CBC_256_HMAC_SHA256         == 2
RSA_2048_OAEP_SHA256            == 3
RSA_2048_OAEP_SHA1              == 4
RSA_2048_OAEP_SHA256_HMAC_SHA256 == 5
RSA_2048_OAEP_SHA1_HMAC_SHA256  == 6
COSE_ENCRYPT0                   == 7
AES_BLOCK_LEN                   == 16
HMAC_SHA256_LEN                 == 32

RsaPlain   == {RSA_2048_OAEP_SHA256, RSA_2048_OAEP_SHA1}
RsaWithMac == {RSA_2048_OAEP_SHA256_HMAC_SHA256, RSA_2048_OAEP_SHA1_HMAC_SHA256}

(* The types a parser knows. *)
Types(p) ==
  IF p = "symmetric" THEN {AES_CBC_256_HMAC_SHA256, COSE_ENCRYPT0} ELSE RsaPlain \cup RsaWithMac

(* An empty piece is base64 and decodes to nothing. *)
Empty(x) == x.base64 /\ x.len = 0

(* Seeded fault: a surplus piece is ignored. *)
EnoughPieces(i) ==
  CASE i.prefix = AES_CBC_256_HMAC_SHA256 -> Len(i.pieces) >= 3
    [] i.prefix = COSE_ENCRYPT0           -> Len(i.pieces) = 1 /\ ~ Empty(i.pieces[1])
    [] i.prefix \in RsaPlain              -> Len(i.pieces) = 1
    [] OTHER                              -> Len(i.pieces) >= 2

(* The number of pieces is looked at before any is decoded; COSE wants     *)
(* something in its one piece, too.                                        *)
RightPieces(i) ==
  CASE i.prefix = AES_CBC_256_HMAC_SHA256 -> Len(i.pieces) = 3
    [] i.prefix = COSE_ENCRYPT0           -> Len(i.pieces) = 1 /\ ~ Empty(i.pieces[1])
    [] i.prefix \in RsaPlain              -> Len(i.pieces) = 1
    [] OTHER                              -> Len(i.pieces) = 2

-----------------------------------------------------------------------------

Init ==
  /\ parser \in {"symmetric", "rsa"} /\ input \in Inputs
  /\ step = "split" /\ next = 1 /\ result = "none"

Goto(to) == step' = to /\ UNCHANGED <<parser, input, next, result>>

Return(r) == result' = r /\ step' = "done" /\ UNCHANGED <<parser, input, next>>

(* split_once('.') and the prefix as a u8. *)
Split ==
  /\ step = "split"
  /\ \/ (~ input.dot \/ input.prefix = NotU8) /\ Return("InvalidEncryptedString")
     \/ input.dot /\ input.prefix # NotU8 /\ Goto("type")

Type ==
  /\ step = "type"
  /\ \/ input.prefix \notin Types(parser) /\ Return("UnsupportedEncryptionType")
     \/ input.prefix \in Types(parser) /\ Goto("pieces")

Count ==
  /\ step = "pieces"
  /\ \/ ~ RightPieces(input) /\ Return("InvalidEncryptedString")
     \/ RightPieces(input) /\ Goto("decode")

(* Seeded fault: a bad piece does not end the parse. *)
DecodeOn ==
  /\ step = "decode" /\ next <= Len(input.pieces)
  /\ result' = IF input.pieces[next].base64 THEN result ELSE "InvalidBase64"
  /\ next' = next + 1 /\ UNCHANGED <<parser, input, step>>

Decode ==
  /\ step = "decode" /\ next <= Len(input.pieces)
  /\ \/ ~ input.pieces[next].base64 /\ Return("InvalidBase64")
     \/ /\ input.pieces[next].base64
        /\ next' = next + 1 /\ UNCHANGED <<parser, input, step, result>>

(* Seeded fault: of type 5 and 6, only the MAC must not be empty. *)
CheckRsaMac ==
  /\ step = "decode" /\ next > Len(input.pieces) /\ parser = "rsa"
  /\ LET last == input.pieces[Len(input.pieces)] IN
     Return(IF last.len = 0 THEN "InvalidEncryptedString" ELSE "ok")

(* The MAC of types 5 and 6 and the ciphertext must not be empty. *)
CheckRsa ==
  /\ step = "decode" /\ next > Len(input.pieces) /\ parser = "rsa"
  /\ \/ (\E i \in 1 .. Len(input.pieces) : input.pieces[i].len = 0)
        /\ Return("InvalidEncryptedString")
     \/ (\A i \in 1 .. Len(input.pieces) : input.pieces[i].len # 0) /\ Return("ok")

(* The IV has an error of its own; the lengths of the MAC and of the       *)
(* ciphertext share one.                                                   *)
CheckAes ==
  /\ step = "decode" /\ next > Len(input.pieces)
  /\ input.prefix = AES_CBC_256_HMAC_SHA256
  /\ LET iv == input.pieces[1].len  data == input.pieces[2].len  mac == input.pieces[3].len IN
     \/ iv # AES_BLOCK_LEN /\ Return("InvalidIvLength")
     \/ /\ iv = AES_BLOCK_LEN
        /\ mac # HMAC_SHA256_LEN \/ data = 0 \/ data % AES_BLOCK_LEN # 0
        /\ Return("InvalidEncryptedString")
     \/ /\ iv = AES_BLOCK_LEN /\ mac = HMAC_SHA256_LEN
        /\ data # 0 /\ data % AES_BLOCK_LEN = 0
        /\ Return("ok")

(* CoseEncrypt0::from_slice *)
CheckCose ==
  /\ step = "decode" /\ next > Len(input.pieces)
  /\ input.prefix = COSE_ENCRYPT0
  /\ \/ ~ input.pieces[1].cose /\ Return("InvalidEncryptedString")
     \/ input.pieces[1].cose /\ Return("ok")

Next == Split \/ Type \/ Count \/ Decode \/ CheckRsa \/ CheckAes \/ CheckCose

Spec == Init /\ [][Next]_vars

-----------------------------------------------------------------------------
(* What parsing means, whatever the order of the checks *)

Arity(t) == IF t = AES_CBC_256_HMAC_SHA256 THEN 3 ELSE IF t \in RsaWithMac THEN 2 ELSE 1

Formed(p, i) ==
  /\ i.dot /\ i.prefix \in Types(p)
  /\ Len(i.pieces) = Arity(i.prefix)
  /\ i.prefix = COSE_ENCRYPT0 => ~ Empty(i.pieces[1])

AllBase64(i) == \A j \in 1 .. Len(i.pieces) : i.pieces[j].base64

BadIv(i) == i.prefix = AES_CBC_256_HMAC_SHA256 /\ i.pieces[1].len # AES_BLOCK_LEN

Fits(i) ==
  CASE i.prefix = AES_CBC_256_HMAC_SHA256 ->
         /\ i.pieces[1].len = AES_BLOCK_LEN
         /\ i.pieces[2].len # 0 /\ i.pieces[2].len % AES_BLOCK_LEN = 0
         /\ i.pieces[3].len = HMAC_SHA256_LEN
    [] i.prefix = COSE_ENCRYPT0 -> i.pieces[1].cose
    [] OTHER -> \A j \in 1 .. Len(i.pieces) : i.pieces[j].len # 0

Results == {"ok", "InvalidEncryptedString", "UnsupportedEncryptionType", "InvalidBase64",
            "InvalidIvLength"}

(* A result is there exactly when the parser has returned, and every error *)
(* returns (the early returns of both functions).                          *)
TypeOK ==
  /\ parser \in {"symmetric", "rsa"}
  /\ input \in InputType /\ Len(input.pieces) > 0
  /\ step \in {"split", "type", "pieces", "decode", "done"}
  /\ next \in 1 .. Len(input.pieces) + 1
  /\ result \in Results \cup {"none"}
  /\ result = "none" <=> step # "done"

(* Every input has exactly one of five results, and the one it has does    *)
(* not depend on the piece at fault nor on the order of the checks: the    *)
(* type is judged before the pieces are counted, these before any is       *)
(* decoded, the encoding of all before the length of any.                  *)
ParsedAsDeclared ==
  step = "done" =>
    /\ result = "ok" <=> Formed(parser, input) /\ AllBase64(input) /\ Fits(input)
    /\ result = "UnsupportedEncryptionType" <=>
         input.dot /\ input.prefix \notin Types(parser) \cup {NotU8}
    /\ result = "InvalidBase64" <=> Formed(parser, input) /\ ~ AllBase64(input)
    /\ result = "InvalidIvLength" <=>
         Formed(parser, input) /\ AllBase64(input) /\ BadIv(input)

(* What decryption no longer looks at holds of every string that parsed:   *)
(* an IV of one block and whole blocks of ciphertext (so the InvalidIvLength *)
(* of decrypt_payload cannot occur), a MAC of the right length, a second   *)
(* reading as COSE_Encrypt0 that succeeds, and for RSA a ciphertext and a  *)
(* type with a digest.                                                     *)
DecryptionMayRely ==
  result = "ok" =>
    \/ /\ parser = "symmetric" /\ input.prefix = AES_CBC_256_HMAC_SHA256
       /\ input.pieces[1].len = AES_BLOCK_LEN /\ input.pieces[3].len = HMAC_SHA256_LEN
       /\ \E blocks \in 1 .. input.pieces[2].len : input.pieces[2].len = blocks * AES_BLOCK_LEN
    \/ parser = "symmetric" /\ input.prefix = COSE_ENCRYPT0 /\ input.pieces[1].cose
    \/ parser = "rsa" /\ input.prefix \in RsaPlain \cup RsaWithMac /\ input.pieces[1].len > 0

(* "Only authenticated AES-CBC-HMAC strings are accepted for local vault   *)
(* decryption" (doc comment of EncryptedString::parse).                    *)
OnlyAesCbcHmacAccepted ==
  parser = "symmetric" /\ result = "ok" => input.prefix = AES_CBC_256_HMAC_SHA256
=============================================================================
