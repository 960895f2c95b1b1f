----------------------------- MODULE KeyMaterial -----------------------------
(***************************************************************************)
(* From decrypted bytes to a symmetric key (crates/bwu-core/src/crypto.rs, *)
(* SymmetricKey::new and from_raw_cose_key_bytes, and the functions they   *)
(* call).  Three encodings share the same bytes: legacy keys, known by     *)
(* their length, COSE keys, and COSE keys padded beyond the legacy length. *)
(* Payload takes from here only how bytes read; this module says how they  *)
(* come to be read that way.  Every fault is the same InvalidKeyLength.    *)
(***************************************************************************)
EXTENDS Payload

CONSTANTS
  MaxByte,               (* 255                                            *)
  AesKeyLen,             (* 32                                             *)
  SymmetricHmacKeyLen,   (* 64                                             *)
  CoseKeys,              (* CoseKeys[e]: content of the CBOR-encoded COSE  *)
                         (* key e, [kty, alg, kid, ops, k]                 *)
  Inputs                 (* byte strings keys may be read from             *)

Byte == 0 .. MaxByte
Encodings == DOMAIN CoseKeys

(* Seeded fault: a padded key of the least length is taken for unpadded. *)
MinCoseLenTooLong == SymmetricHmacKeyLen + 2

MinCoseEncodedKeyLen == SymmetricHmacKeyLen + 1

ASSUME LengthsAssumption ==
  /\ MaxByte \in Nat /\ AesKeyLen \in Nat /\ SymmetricHmacKeyLen \in Nat
  /\ AesKeyLen < SymmetricHmacKeyLen
ASSUME InputsAssumption == Inputs \subseteq Seq(Byte)
(* A CBOR item tells where it ends, and from_slice refuses what follows.   *)
ASSUME CborAssumption ==
  /\ Encodings \subseteq Seq(Byte)
  /\ \A e, f \in Encodings : Len(e) < Len(f) => SubSeq(f, 1, Len(e)) # e

VARIABLES
  bytes,         (* what the key is read from                              *)
  entry,         (* "new" or "raw_cose": the function called               *)
  pc,            (* "new", "raw" or "done"                                 *)
  result         (* the key, NoKey if there is none                        *)

vars == <<bytes, entry, pc, result>>

-----------------------------------------------------------------------------

(* Seeded fault: only the last byte of the padding is looked at. *)
UnpadsByLastByte(s) == Len(s) > 0 /\ s[Len(s)] # 0 /\ s[Len(s)] <= Len(s)

(* unpad_bitwarden_bytes *)
Unpads(s) ==
  /\ Len(s) > 0
  /\ s[Len(s)] # 0 /\ s[Len(s)] <= Len(s)
  /\ \A i \in Len(s) - s[Len(s)] + 1 .. Len(s) : s[i] = s[Len(s)]

Unpadded(s) == SubSeq(s, 1, Len(s) - s[Len(s)])

(* Seeded fault: the length of the key bytes is not checked. *)
UsableAnyLength(c) ==
  /\ c.kty = "symmetric" /\ c.alg = "xchacha" /\ c.kid # ""
  /\ c.ops = {} \/ "decrypt" \in c.ops

(* extract_xchacha20_poly1305_key_material; a key without the parameter k  *)
(* has an empty one here, which has the wrong length too.                  *)
Usable(c) ==
  /\ c.kty = "symmetric" /\ c.alg = "xchacha" /\ c.kid # ""
  /\ c.ops = {} \/ "decrypt" \in c.ops
  /\ Len(c.k) = AesKeyLen

(* parse_raw_cose_symmetric_key *)
ParsesRaw(s) == s \in Encodings /\ Usable(CoseKeys[s])

(* parse_padded_cose_symmetric_key *)
ParsesPadded(s) == Unpads(s) /\ ParsesRaw(Unpadded(s))

XChaChaKey(e) == [form |-> "xchacha", secret |-> CoseKeys[e].k, kid |-> CoseKeys[e].kid]

IsLegacy(s) == Len(s) \in {AesKeyLen, SymmetricHmacKeyLen}

LegacyKey(s) ==
  [form |-> IF Len(s) = AesKeyLen THEN "legacy32" ELSE "legacy64", secret |-> s, kid |-> ""]

Init ==
  /\ bytes \in Inputs
  /\ entry \in {"new", "raw_cose"}
  /\ pc = IF entry = "new" THEN "new" ELSE "raw"
  /\ result = NoKey

Return(k) ==
  /\ pc' = "done"
  /\ result' = k
  /\ UNCHANGED <<bytes, entry>>

TakeLegacy ==
  /\ pc = "new" /\ IsLegacy(bytes)
  /\ Return(LegacyKey(bytes))

TakePadded ==
  /\ pc = "new" /\ ~ IsLegacy(bytes)
  /\ Len(bytes) >= MinCoseEncodedKeyLen /\ ParsesPadded(bytes)
  /\ Return(XChaChaKey(Unpadded(bytes)))

(* Too short to be padded, or not a padded key: it may be an unpadded one. *)
GoOnUnpadded ==
  /\ pc = "new" /\ ~ IsLegacy(bytes)
  /\ ~ (Len(bytes) >= MinCoseEncodedKeyLen /\ ParsesPadded(bytes))
  /\ pc' = "raw"
  /\ UNCHANGED <<bytes, entry, result>>

TakeRaw ==
  /\ pc = "raw" /\ ParsesRaw(bytes)
  /\ Return(XChaChaKey(bytes))

Reject ==
  /\ pc = "raw" /\ ~ ParsesRaw(bytes)
  /\ Return(NoKey)

Next == TakeLegacy \/ TakePadded \/ GoOnUnpadded \/ TakeRaw \/ Reject

Spec == Init /\ [][Next]_vars

-----------------------------------------------------------------------------
(* What the bytes of a key are to whoever made them *)

IsPadded(s, e) == \E n \in 1 .. MaxByte : s = e \o [i \in 1 .. n |-> n]

(* pad_cose_key: how the other side pads an encoded key. *)
PadKey(e) ==
  LET n == IF Len(e) < SymmetricHmacKeyLen THEN SymmetricHmacKeyLen + 1 - Len(e) ELSE 1
  IN  e \o [i \in 1 .. n |-> n]

(* s is one of the two forms of the usable key e that the entry takes. *)
Encodes(s, e) ==
  /\ e \in Encodings /\ Usable(CoseKeys[e])
  /\ s = e \/ (entry = "new" /\ Len(s) >= MinCoseEncodedKeyLen /\ IsPadded(s, e))

(* No key, or a key of one of the kinds and of its length. *)
WellFormed(k) ==
  \/ k.form = "none" /\ k = NoKey
  \/ k.form = "legacy32" /\ Len(k.secret) = AesKeyLen /\ entry = "new"
  \/ k.form = "legacy64" /\ Len(k.secret) = SymmetricHmacKeyLen /\ entry = "new"
  \/ k.form = "xchacha" /\ Len(k.secret) = AesKeyLen /\ k.kid # ""

(* A key that comes back has the kind and the length ciphers are later     *)
(* used with: a legacy key has 32 or 64 bytes and comes from new only, a   *)
(* COSE key has 32 bytes and an id, by whichever of the three readings it  *)
(* was found; and there is no key before a reading has succeeded.          *)
TypeOK ==
  /\ bytes \in Inputs
  /\ entry \in {"new", "raw_cose"}
  /\ pc \in {"new", "raw", "done"}
  /\ WellFormed(result)
  /\ pc # "done" => result.form = "none"

(* The second attempt is made only when the first has failed. *)
FirstAttemptFailed ==
  pc = "raw" /\ entry = "new" =>
    ~ IsLegacy(bytes) /\ ~ (Len(bytes) >= MinCoseEncodedKeyLen /\ ParsesPadded(bytes))

(* A key is what its bytes were made from: a legacy key for the two legacy *)
(* lengths, else the one COSE key of which they are the encoding, padded   *)
(* or not, and no key if there is none.  So it does not matter that new    *)
(* tries to unpad first: the end of an unpadded key that happens to look   *)
(* like padding misleads nobody.                                           *)
KeyAsDeclared ==
  pc = "done" =>
    IF entry = "new" /\ IsLegacy(bytes) THEN result = LegacyKey(bytes)
    ELSE \/ \E e \in Encodings : Encodes(bytes, e) /\ result = XChaChaKey(e)
         \/ (\A e \in Encodings : ~ Encodes(bytes, e)) /\ result = NoKey

(* A COSE key padded as the other side pads comes back as that key, never  *)
(* as a legacy one, whatever the length of its encoding.                   *)
PaddedKeysComeBack ==
  pc = "done" /\ entry = "new" =>
    \A e \in Encodings :
      Usable(CoseKeys[e]) /\ bytes = PadKey(e) => result = XChaChaKey(e)

(* The inductive invariant; from_raw_cose_key_bytes never gets to new's    *)
(* readings.                                                               *)
IInv ==
  /\ TypeOK /\ FirstAttemptFailed /\ KeyAsDeclared
  /\ entry = "raw_cose" => pc # "new"

(* How Payload sees the bytes. *)
Reading ==
  [name  |-> IF entry = "new" /\ IsLegacy(bytes) THEN bytes
             ELSE IF ParsesRaw(bytes) THEN CoseKeys[bytes].k
             ELSE IF ParsesPadded(bytes) THEN CoseKeys[Unpadded(bytes)].k ELSE bytes,
   kid   |-> IF ParsesRaw(bytes) THEN CoseKeys[bytes].kid
             ELSE IF ParsesPadded(bytes) THEN CoseKeys[Unpadded(bytes)].kid ELSE "",
   reads |-> {r \in {"legacy32", "legacy64", "raw_cose", "padded_cose"} :
                \/ r = "legacy32" /\ Len(bytes) = AesKeyLen
                \/ r = "legacy64" /\ Len(bytes) = SymmetricHmacKeyLen
                \/ r = "raw_cose" /\ ParsesRaw(bytes)
                \/ r = "padded_cose" /\ Len(bytes) >= MinCoseEncodedKeyLen /\ ParsesPadded(bytes)}]

(* The operators of Payload, which know bytes only by their readings,      *)
(* return the key that the code reads from the bytes.                      *)
ReadAsInPayload ==
  pc = "done" =>
    result = IF entry = "new" THEN KeyFromBytes(Reading) ELSE KeyFromRawCose(Reading)
=============================================================================
