----------------------- MODULE EncryptedStrings_proofs -----------------------
(***************************************************************************)
(* Theorems about both parsers, for inputs of any number of pieces of any  *)
(* lengths.  The inductive invariant says what each step knows of the      *)
(* input; at the end that is exactly what the declared meaning of the      *)
(* result asks for.                                                        *)
(***************************************************************************)
EXTENDS EncryptedStrings, TLAPS

(* What the checks passed so far have established. *)
Known ==
  /\ step \in {"split", "type", "pieces"} => next = 1
  /\ step \in {"type", "pieces", "decode"} => input.dot /\ input.prefix # NotU8
  /\ step \in {"pieces", "decode"} => input.prefix \in Types(parser)
  /\ step = "decode" => /\ Len(input.pieces) = Arity(input.prefix)
                        /\ input.prefix = COSE_ENCRYPT0 => ~ Empty(input.pieces[1])
                        /\ \A j \in 1 .. next - 1 : input.pieces[j].base64

IInv == TypeOK /\ Known /\ ParsedAsDeclared

Codes == 
  /\ AES_CBC_256_HMAC_SHA256 = 2 /\ COSE_ENCRYPT0 = 7
  /\ RsaPlain = {3, 4} /\ RsaWithMac = {5, 6}
  /\ Types("symmetric") = {2, 7} /\ Types("rsa") = {3, 4, 5, 6}

LEMMA CodesAre == Codes
BY DEF Codes, Types, RsaPlain, RsaWithMac, AES_CBC_256_HMAC_SHA256, COSE_ENCRYPT0,
       RSA_2048_OAEP_SHA256, RSA_2048_OAEP_SHA1, RSA_2048_OAEP_SHA256_HMAC_SHA256,
       RSA_2048_OAEP_SHA1_HMAC_SHA256

(* A type a parser knows is a number, and the count of the code is the     *)
(* declared arity.                                                         *)
LEMMA CountsAgree ==
  ASSUME TypeOK, input.prefix \in Types(parser)
  PROVE  /\ input.prefix # NotU8
         /\ RightPieces(input) <=>
              /\ Len(input.pieces) = Arity(input.prefix)
              /\ input.prefix = COSE_ENCRYPT0 => ~ Empty(input.pieces[1])
<1>1. input.prefix \in {2, 3, 4, 5, 6, 7}
  BY CodesAre DEF TypeOK, Codes
<1>2. input.prefix # NotU8
  <2>1. input.prefix \in 0 .. 255
    BY <1>1
  <2> QED BY <2>1, InputsAssumption
<1>3. RightPieces(input) <=>
              /\ Len(input.pieces) = Arity(input.prefix)
              /\ input.prefix = COSE_ENCRYPT0 => ~ Empty(input.pieces[1])
  <2>1. CASE input.prefix = 2
    BY <2>1, CodesAre DEF RightPieces, Arity, Codes
  <2>2. CASE input.prefix = 7
    BY <2>2, CodesAre DEF RightPieces, Arity, Codes
  <2>3. CASE input.prefix \in {3, 4}
    <3>1. /\ input.prefix # AES_CBC_256_HMAC_SHA256 /\ input.prefix # COSE_ENCRYPT0
          /\ input.prefix \in RsaPlain /\ input.prefix \notin RsaWithMac
      BY <2>3, CodesAre DEF Codes
    <3> QED BY <3>1 DEF RightPieces, Arity
  <2>4. CASE input.prefix \in {5, 6}
    <3>1. /\ input.prefix # AES_CBC_256_HMAC_SHA256 /\ input.prefix # COSE_ENCRYPT0
          /\ input.prefix \notin RsaPlain /\ input.prefix \in RsaWithMac
      BY <2>4, CodesAre DEF Codes
    <3> QED BY <3>1 DEF RightPieces, Arity
  <2> QED BY <1>1, <2>1, <2>2, <2>3, <2>4
<1> QED BY <1>2, <1>3

(* A return with a result that is declared for this input is fine. *)
LEMMA ReturnDeclared ==
  ASSUME IInv, step # "done", NEW r \in Results, Return(r),
         r = "ok" <=> Formed(parser, input) /\ AllBase64(input) /\ Fits(input),
         r = "UnsupportedEncryptionType" <=>
           input.dot /\ input.prefix \notin Types(parser) \cup {NotU8},
         r = "InvalidBase64" <=> Formed(parser, input) /\ ~ AllBase64(input),
         r = "InvalidIvLength" <=> Formed(parser, input) /\ AllBase64(input) /\ BadIv(input)
  PROVE  IInv'
<1>1. TypeOK'
  BY DEF IInv, TypeOK, Return, Results
<1>2. Known'
  BY DEF Known, Return
<1>3. ParsedAsDeclared'
  BY DEF Return, ParsedAsDeclared
<1> QED BY <1>1, <1>2, <1>3 DEF IInv

LEMMA GotoKeeps ==
  ASSUME IInv, step # "done", NEW to \in {"type", "pieces", "decode"}, Goto(to),
         input.dot, input.prefix # NotU8,
         to # "type" => input.prefix \in Types(parser),
         next = 1, to = "decode" => RightPieces(input)
  PROVE  IInv'
<1>1. TypeOK'
  BY DEF IInv, TypeOK, Goto
<1>2. Known'
  <2>1. to = "decode" => /\ Len(input.pieces) = Arity(input.prefix)
                         /\ input.prefix = COSE_ENCRYPT0 => ~ Empty(input.pieces[1])
    BY CountsAgree DEF IInv
  <2> QED BY <2>1 DEF Known, Goto
<1> QED BY <1>1, <1>2 DEF IInv, ParsedAsDeclared, Goto

(* All pieces decoded: what is left is a matter of lengths. *)
LEMMA AllDecoded ==
  ASSUME IInv, step = "decode", next > Len(input.pieces)
  PROVE  /\ Formed(parser, input) /\ AllBase64(input)
         /\ input.prefix \notin {NotU8} /\ input.prefix \in Types(parser)
<1>1. TypeOK /\ Known
  BY DEF IInv
<1>2. next = Len(input.pieces) + 1 /\ Len(input.pieces) \in Nat
  BY <1>1 DEF TypeOK, InputType
<1> QED BY <1>1, <1>2 DEF Known, Formed, AllBase64

LEMMA NextIInv == IInv /\ [Next]_vars => IInv'
<1> SUFFICES ASSUME IInv, [Next]_vars PROVE IInv'
  OBVIOUS
<1>1. TypeOK /\ Known
  BY DEF IInv
<1>2. CASE Split
  <2>1. CASE ~ input.dot \/ input.prefix = NotU8
    <3>1. input.prefix = NotU8 => input.prefix \notin Types(parser)
      BY <1>1, CountsAgree
    <3>2. Return("InvalidEncryptedString") /\ ~ Formed(parser, input)
      BY <1>2, <2>1, <3>1 DEF Split, Formed
    <3> QED BY <1>2, <2>1, <3>2, ReturnDeclared DEF Split, Results
  <2>2. CASE input.dot /\ input.prefix # NotU8
    BY <1>1, <1>2, <2>2, GotoKeeps DEF Split, Known
  <2> QED BY <2>1, <2>2, <1>1 DEF TypeOK, InputType
<1>3. CASE Type
  <2>1. CASE input.prefix \notin Types(parser)
    <3>1. Return("UnsupportedEncryptionType") /\ ~ Formed(parser, input)
      BY <1>3, <2>1 DEF Type, Formed
    <3> QED BY <1>1, <1>3, <2>1, <3>1, ReturnDeclared DEF Type, Known, Results
  <2>2. CASE input.prefix \in Types(parser)
    BY <1>1, <1>3, <2>2, GotoKeeps DEF Type, Known
  <2> QED BY <2>1, <2>2
<1>4. CASE Count
  <2>1. CASE ~ RightPieces(input)
    <3>1. Return("InvalidEncryptedString") /\ ~ Formed(parser, input)
      BY <1>1, <1>4, <2>1, CountsAgree DEF Count, Formed, Known
    <3> QED BY <1>1, <1>4, <3>1, ReturnDeclared DEF Count, Known, Results
  <2>2. CASE RightPieces(input)
    <3>1. next = 1
      BY <1>1, <1>4 DEF Count, Known
    <3> QED BY <1>1, <1>4, <2>2, <3>1, GotoKeeps DEF Count, Known
  <2> QED BY <2>1, <2>2
<1>5. CASE Decode
  <2>1. next \in 1 .. Len(input.pieces) /\ Len(input.pieces) \in Nat
    BY <1>1, <1>5 DEF TypeOK, InputType, Decode
  <2>2. CASE ~ input.pieces[next].base64
    <3>1. Return("InvalidBase64") /\ Formed(parser, input) /\ ~ AllBase64(input)
      BY <1>1, <1>5, <2>1, <2>2 DEF Decode, Known, Formed, AllBase64
    <3> QED BY <1>1, <1>5, <3>1, ReturnDeclared DEF Decode, Known, Results
  <2>3. CASE /\ input.pieces[next].base64
             /\ next' = next + 1 /\ UNCHANGED <<parser, input, step, result>>
    <3>1. TypeOK'
      BY <1>1, <2>1, <2>3 DEF TypeOK
    <3>2. \A j \in 1 .. next' - 1 : input.pieces[j].base64
      BY <1>1, <1>5, <2>1, <2>3 DEF Known, Decode
    <3>3. Known' /\ ParsedAsDeclared'
      BY <1>1, <1>5, <2>3, <3>2 DEF Known, Decode, ParsedAsDeclared
    <3> QED BY <3>1, <3>3 DEF IInv
  <2> QED BY <1>5, <2>2, <2>3 DEF Decode
<1>6. CASE CheckRsa
  <2>1. Formed(parser, input) /\ AllBase64(input) /\ input.prefix \in Types(parser)
    BY <1>6, AllDecoded DEF CheckRsa
  <2>2. input.prefix \in {3, 4, 5, 6}
    BY <1>6, <2>1, CodesAre DEF CheckRsa, Codes
  <2>3. ~ BadIv(input)
        /\ (Fits(input) <=> \A j \in 1 .. Len(input.pieces) : input.pieces[j].len # 0)
    BY <2>2, CodesAre DEF BadIv, Fits, Codes
  <2> QED BY <1>6, <2>1, <2>3, ReturnDeclared DEF CheckRsa, Results
<1>7. CASE CheckAes
  <2>1. Formed(parser, input) /\ AllBase64(input) /\ input.prefix \in Types(parser)
    BY <1>7, AllDecoded DEF CheckAes
  <2>2. BadIv(input) <=> input.pieces[1].len # AES_BLOCK_LEN
    BY <1>7 DEF BadIv, CheckAes
  <2>3. Fits(input) <=> /\ input.pieces[1].len = AES_BLOCK_LEN
                        /\ input.pieces[2].len # 0 /\ input.pieces[2].len % AES_BLOCK_LEN = 0
                        /\ input.pieces[3].len = HMAC_SHA256_LEN
    BY <1>7, CodesAre DEF Fits, CheckAes, Codes
  <2> QED BY <1>7, <2>1, <2>2, <2>3, ReturnDeclared DEF CheckAes, Results
<1>8. CASE CheckCose
  <2>1. Formed(parser, input) /\ AllBase64(input) /\ input.prefix \in Types(parser)
    BY <1>8, AllDecoded DEF CheckCose
  <2>2. ~ BadIv(input) /\ (Fits(input) <=> input.pieces[1].cose)
    BY <1>8, CodesAre DEF BadIv, Fits, CheckCose, Codes
  <2> QED BY <1>8, <2>1, <2>2, ReturnDeclared DEF CheckCose, Results
<1>9. CASE UNCHANGED vars
  BY <1>9 DEF vars, IInv, TypeOK, Known, ParsedAsDeclared
<1> QED BY <1>2, <1>3, <1>4, <1>5, <1>6, <1>7, <1>8, <1>9 DEF Next

LEMMA InitIInv == Init => IInv
<1> SUFFICES ASSUME Init PROVE IInv
  OBVIOUS
<1>1. input \in InputType /\ Len(input.pieces) > 0
  BY InputsAssumption DEF Init
<1>2. Len(input.pieces) \in Nat
  BY <1>1 DEF InputType
<1> QED BY <1>1, <1>2 DEF Init, IInv, TypeOK, Known, ParsedAsDeclared

(* The variables keep their types and every error ends the parse. *)
THEOREM TypeCorrect == Spec => []TypeOK
<1>1. IInv => TypeOK
  BY DEF IInv
<1> QED BY <1>1, InitIInv, NextIInv, PTL DEF Spec

(* For any input, the result is the declared one. *)
THEOREM ParsersCorrect == Spec => []ParsedAsDeclared
<1>1. IInv => ParsedAsDeclared
  BY DEF IInv
<1> QED BY <1>1, InitIInv, NextIInv, PTL DEF Spec

(* Whatever parsed has all that decryption takes for granted. *)
THEOREM ParsedMeansDecryptable == Spec => []DecryptionMayRely
<1>1. IInv => DecryptionMayRely
  <2> SUFFICES ASSUME IInv, result = "ok" PROVE DecryptionMayRely
    BY DEF DecryptionMayRely
  <2>1. Formed(parser, input) /\ Fits(input)
    BY DEF IInv, TypeOK, ParsedAsDeclared
  <2>2. input.pieces \in Seq(Pieces) /\ \A j \in 1 .. Len(input.pieces) : input.pieces[j].len \in Nat
    BY PiecesAssumption DEF IInv, TypeOK, InputType
  <2>3. CASE input.prefix = 2
    <3>1. parser = "symmetric" /\ Len(input.pieces) = 3
      BY <2>1, <2>3, CodesAre DEF Formed, Codes, Arity, IInv, TypeOK
    <3>2. /\ input.pieces[1].len = 16 /\ input.pieces[3].len = 32
          /\ input.pieces[2].len # 0 /\ input.pieces[2].len % 16 = 0
      BY <2>1, <2>3, CodesAre DEF Fits, Codes, AES_BLOCK_LEN, HMAC_SHA256_LEN
    <3>3. \E blocks \in 1 .. input.pieces[2].len : input.pieces[2].len = blocks * 16
      <4> DEFINE n == input.pieces[2].len
      <4>1. n \in Nat /\ n # 0 /\ n % 16 = 0
        BY <2>2, <3>1, <3>2
      <4>2. n \div 16 \in 1 .. n /\ n = (n \div 16) * 16
        BY <4>1
      <4> QED BY <4>2
    <3> QED BY <2>3, <3>1, <3>2, <3>3, CodesAre
            DEF DecryptionMayRely, Codes, AES_BLOCK_LEN, HMAC_SHA256_LEN
  <2>4. CASE input.prefix = 7
    BY <2>1, <2>4, CodesAre DEF Formed, Fits, Codes, IInv, TypeOK, DecryptionMayRely
  <2>5. CASE input.prefix \in {3, 4, 5, 6}
    <3>1. parser = "rsa" /\ 1 \in 1 .. Len(input.pieces)
      BY <2>1, <2>5, CodesAre DEF Formed, Codes, Arity, IInv, TypeOK
    <3>2. input.pieces[1].len # 0
      BY <2>1, <2>5, <3>1, CodesAre DEF Fits, Codes
    <3> QED BY <2>2, <2>5, <3>1, <3>2, CodesAre DEF DecryptionMayRely, Codes
  <2> QED BY <2>1, <2>3, <2>4, <2>5, CodesAre DEF Formed, Codes, IInv, TypeOK
<1> QED BY <1>1, InitIInv, NextIInv, PTL DEF Spec
=============================================================================
