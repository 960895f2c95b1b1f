------------------------- MODULE KeyMaterial_proofs -------------------------
(***************************************************************************)
(* For byte strings and keys of any length: the decoding of symmetric keys *)
(* finds the key the bytes were made from.  The argument: unpadding undoes *)
(* padding and nothing else (PaddingUndone), and because no encoding is a  *)
(* prefix of another, no bytes encode two keys (Unambiguous).              *)
(***************************************************************************)
EXTENDS KeyMaterial, SequenceTheorems, TLAPS

(* Unpadding succeeds on what was padded, and returns what was padded. *)
LEMMA PaddingUndone ==
  ASSUME NEW s \in Seq(Byte), NEW e \in Seq(Byte)
  PROVE  IsPadded(s, e) <=> Unpads(s) /\ Unpadded(s) = e
<1> USE LengthsAssumption
<1>1. ASSUME NEW n \in 1 .. MaxByte, s = e \o [i \in 1 .. n |-> n]
      PROVE  Unpads(s) /\ Unpadded(s) = e
  <2> DEFINE t == [i \in 1 .. n |-> n]
  <2>1. t \in Seq(Byte) /\ Len(t) = n
    BY DEF Byte
  <2>2. Len(s) = Len(e) + n /\ \A i \in 1 .. n : s[Len(e) + i] = n
    BY <1>1, <2>1
  <2>3. \A i \in 1 .. Len(e) : s[i] = e[i]
    BY <1>1, <2>1
  <2>4. s[Len(s)] = n
    BY <2>2
  <2>5. \A i \in Len(s) - n + 1 .. Len(s) : s[i] = n
    <3> SUFFICES ASSUME NEW i \in Len(s) - n + 1 .. Len(s) PROVE s[i] = n
      OBVIOUS
    <3>1. i - Len(e) \in 1 .. n /\ i = Len(e) + (i - Len(e))
      BY <2>2
    <3> QED BY <3>1, <2>2
  <2>6. Unpads(s)
    BY <2>2, <2>4, <2>5 DEF Unpads
  <2>7. Unpadded(s) = SubSeq(s, 1, Len(e))
    BY <2>2, <2>4 DEF Unpadded
  <2>8. SubSeq(s, 1, Len(e)) = e
    BY <2>2, <2>3
  <2> QED BY <2>6, <2>7, <2>8
<1>2. ASSUME Unpads(s), Unpadded(s) = e
      PROVE  IsPadded(s, e)
  <2> DEFINE n == s[Len(s)]
             t == [i \in 1 .. n |-> n]
  <2>1. n \in 1 .. MaxByte /\ n <= Len(s) /\ Len(s) \in Nat
    BY <1>2 DEF Unpads, Byte
  <2>2. t \in Seq(Byte) /\ Len(t) = n
    BY <2>1 DEF Byte
  <2>3. Len(e) = Len(s) - n /\ \A i \in 1 .. Len(e) : e[i] = s[i]
    BY <1>2, <2>1 DEF Unpadded
  <2>4. \A i \in Len(e) + 1 .. Len(s) : s[i] = n
    BY <1>2, <2>1, <2>3 DEF Unpads
  <2>5. e \o t \in Seq(Byte) /\ Len(e \o t) = Len(s)
    BY <2>1, <2>2, <2>3
  <2>6. ASSUME NEW i \in 1 .. Len(s) PROVE s[i] = (e \o t)[i]
    <3>1. CASE i \in 1 .. Len(e)
      BY <3>1, <2>2, <2>3
    <3>2. CASE i \in Len(e) + 1 .. Len(s)
      <4>1. i - Len(e) \in 1 .. n
        BY <3>2, <2>1, <2>3
      <4>2. (e \o t)[i] = t[i - Len(e)]
        BY <3>2, <2>1, <2>2, <2>3
      <4> QED BY <4>1, <4>2, <3>2, <2>4
    <3> QED BY <3>1, <3>2, <2>1, <2>3
  <2>7. s = e \o t
    BY <2>5, <2>6, SeqEqual
  <2> QED BY <2>1, <2>7 DEF IsPadded
<1> QED BY <1>1, <1>2 DEF IsPadded

(* No bytes encode two keys. *)
LEMMA Unambiguous ==
  ASSUME NEW s \in Seq(Byte), NEW e, NEW f, Encodes(s, e), Encodes(s, f)
  PROVE  e = f
<1>1. e \in Seq(Byte) /\ f \in Seq(Byte) /\ e \in Encodings /\ f \in Encodings
  BY CborAssumption DEF Encodes
<1>2. \A x \in Encodings : IsPadded(s, x) => x = Unpadded(s) /\ Len(x) < Len(s)
                                              /\ SubSeq(s, 1, Len(x)) = x
  <2> SUFFICES ASSUME NEW x \in Encodings, IsPadded(s, x)
               PROVE  x = Unpadded(s) /\ Len(x) < Len(s) /\ SubSeq(s, 1, Len(x)) = x
    OBVIOUS
  <2>1. x \in Seq(Byte) /\ Unpads(s) /\ x = Unpadded(s)
    BY PaddingUndone, CborAssumption
  <2>2. Len(s) \in Nat /\ s[Len(s)] \in Nat /\ s[Len(s)] > 0 /\ s[Len(s)] <= Len(s)
    BY <2>1, LengthsAssumption DEF Unpads, Byte
  <2>3. Len(x) = Len(s) - s[Len(s)]
    BY <2>1, <2>2 DEF Unpadded
  <2>4. SubSeq(s, 1, Len(x)) = x
    BY <2>1, <2>3 DEF Unpadded
  <2> QED BY <2>1, <2>2, <2>3, <2>4
<1>3. CASE s = e /\ s = f
  BY <1>3
<1>4. CASE IsPadded(s, e) /\ IsPadded(s, f)
  BY <1>1, <1>2, <1>4
<1>5. CASE s = e /\ IsPadded(s, f)
  BY <1>1, <1>2, <1>5, CborAssumption
<1>6. CASE IsPadded(s, e) /\ s = f
  BY <1>1, <1>2, <1>6, CborAssumption
<1> QED BY <1>3, <1>4, <1>5, <1>6 DEF Encodes

(* The two forms of a key, as the code recognises them. *)
LEMMA Recognised ==
  ASSUME IInv
  PROVE  /\ \A e \in Encodings : Encodes(bytes, e) <=>
              \/ ParsesRaw(bytes) /\ e = bytes
              \/ /\ entry = "new" /\ Len(bytes) >= MinCoseEncodedKeyLen
                 /\ ParsesPadded(bytes) /\ e = Unpadded(bytes)
         /\ ParsesRaw(bytes) => bytes \in Encodings
         /\ ParsesPadded(bytes) => Unpadded(bytes) \in Encodings
<1>1. bytes \in Seq(Byte)
  BY InputsAssumption DEF IInv, TypeOK
<1>2. \A e \in Encodings : IsPadded(bytes, e) <=> Unpads(bytes) /\ Unpadded(bytes) = e
  BY <1>1, PaddingUndone, CborAssumption
<1> QED BY <1>2 DEF Encodes, ParsesRaw, ParsesPadded

LEMMA InitIInv == Init => IInv
<1> SUFFICES ASSUME Init PROVE IInv
  OBVIOUS
<1>1. pc \in {"new", "raw"} /\ (entry = "raw_cose" => pc = "raw")
  BY DEF Init
<1>2. WellFormed(result) /\ result.form = "none"
  BY DEF Init, WellFormed, NoKey
<1> QED BY <1>1, <1>2 DEF Init, IInv, TypeOK, FirstAttemptFailed, KeyAsDeclared

(* What is returned is well-formed: legacy keys by the length they are     *)
(* recognised by, COSE keys because unusable ones are not read.            *)
LEMMA KeysWellFormed ==
  /\ WellFormed(NoKey)
  /\ entry = "new" /\ IsLegacy(bytes) => WellFormed(LegacyKey(bytes))
  /\ \A e \in Encodings : Usable(CoseKeys[e]) => WellFormed(XChaChaKey(e))
<1>1. WellFormed(NoKey)
  BY DEF WellFormed, NoKey
<1>2. ASSUME entry = "new", IsLegacy(bytes) PROVE WellFormed(LegacyKey(bytes))
  BY <1>2, LengthsAssumption DEF WellFormed, LegacyKey, IsLegacy
<1>3. ASSUME NEW e \in Encodings, Usable(CoseKeys[e]) PROVE WellFormed(XChaChaKey(e))
  BY <1>3 DEF WellFormed, XChaChaKey, Usable
<1> QED BY <1>1, <1>2, <1>3

LEMMA NextIInv == IInv /\ [Next]_vars => IInv'
<1> SUFFICES ASSUME IInv, [Next]_vars PROVE IInv'
  OBVIOUS
<1>1. ASSUME NEW k, Return(k),
             IF entry = "new" /\ IsLegacy(bytes) THEN k = LegacyKey(bytes)
             ELSE \/ \E e \in Encodings : Encodes(bytes, e) /\ k = XChaChaKey(e)
                  \/ (\A e \in Encodings : ~ Encodes(bytes, e)) /\ k = NoKey
      PROVE  IInv'
  <2>1. WellFormed(k)
    BY <1>1, KeysWellFormed DEF Encodes
  <2>2. TypeOK' /\ FirstAttemptFailed'
    BY <1>1, <2>1 DEF Return, IInv, TypeOK, WellFormed, FirstAttemptFailed
  <2>3. KeyAsDeclared'
    BY <1>1 DEF Return, KeyAsDeclared, Encodes
  <2> QED BY <1>1, <2>2, <2>3 DEF IInv, Return
<1>2. CASE TakeLegacy
  BY <1>1, <1>2 DEF TakeLegacy, IInv, TypeOK
<1>3. CASE TakePadded
  <2>1. entry = "new"
    BY <1>3 DEF TakePadded, IInv, TypeOK
  <2> QED BY <1>1, <1>3, <2>1, Recognised DEF TakePadded
<1>4. CASE GoOnUnpadded
  BY <1>4 DEF GoOnUnpadded, IInv, TypeOK, WellFormed, FirstAttemptFailed, KeyAsDeclared
<1>5. CASE TakeRaw
  BY <1>1, <1>5, Recognised DEF TakeRaw, IInv, FirstAttemptFailed
<1>6. CASE Reject
  BY <1>1, <1>6, Recognised DEF Reject, IInv, FirstAttemptFailed
<1>7. CASE UNCHANGED vars
  BY <1>7 DEF vars, IInv, TypeOK, WellFormed, FirstAttemptFailed, KeyAsDeclared, Encodes
<1> QED BY <1>2, <1>3, <1>4, <1>5, <1>6, <1>7 DEF Next

(* Whatever the bytes, the key read from them is the one they were made    *)
(* from, and no key is made up.                                            *)
THEOREM KeysReadAsDeclared == Spec => []KeyAsDeclared
<1>1. IInv => KeyAsDeclared
  BY DEF IInv
<1> QED BY <1>1, InitIInv, NextIInv, PTL DEF Spec

(* Every usable COSE key survives being padded, sent and read. *)
THEOREM PaddedKeysSurvive == Spec => []PaddedKeysComeBack
<1>1. IInv => PaddedKeysComeBack
  <2> SUFFICES ASSUME IInv, pc = "done", entry = "new",
                      NEW e \in Encodings, Usable(CoseKeys[e]), bytes = PadKey(e)
               PROVE  result = XChaChaKey(e)
    BY DEF PaddedKeysComeBack
  <2> USE LengthsAssumption
  <2>1. bytes \in Seq(Byte) /\ e \in Seq(Byte) /\ Len(e) \in Nat
    BY InputsAssumption, CborAssumption DEF IInv, TypeOK
  <2> DEFINE n == IF Len(e) < SymmetricHmacKeyLen THEN SymmetricHmacKeyLen + 1 - Len(e) ELSE 1
             t == [i \in 1 .. n |-> n]
  <2>2. n \in Nat /\ n > 0 /\ bytes = e \o t
    BY <2>1 DEF PadKey
  <2> HIDE DEF n
  <2>3. t \in Seq(Nat) /\ Len(t) = n
    BY <2>2
  <2>4. Len(bytes) = Len(e) + n /\ bytes[Len(e) + n] = n
    BY <2>1, <2>2, <2>3
  <2>5. n \in 1 .. MaxByte
    <3>1. Len(e) + n \in 1 .. Len(bytes)
      BY <2>1, <2>2, <2>4
    <3>2. bytes[Len(e) + n] \in Byte
      BY <3>1, <2>1
    <3> QED BY <3>2, <2>2, <2>4 DEF Byte
  <2>6. Len(bytes) >= MinCoseEncodedKeyLen
    BY <2>1, <2>4 DEF n, MinCoseEncodedKeyLen
  <2>7. Encodes(bytes, e)
    BY <2>2, <2>5, <2>6 DEF Encodes, IsPadded
  <2>8. ~ IsLegacy(bytes)
    BY <2>6 DEF IsLegacy, MinCoseEncodedKeyLen
  <2> QED BY <2>1, <2>7, <2>8, Unambiguous DEF IInv, KeyAsDeclared
<1> QED BY <1>1, InitIInv, NextIInv, PTL DEF Spec

(* For byte strings and encodings of any length, a key that comes back has *)
(* the bytes its kind needs, 32 or 64, a COSE key has an id, and           *)
(* from_raw_cose_key_bytes makes no legacy key.                            *)
THEOREM TypeCorrect == Spec => []TypeOK
<1>1. IInv => TypeOK
  BY DEF IInv
<1> QED BY <1>1, InitIInv, NextIInv, PTL DEF Spec

(* KeyFromBytes by cases, for bytes of at most one legacy length. *)
LEMMA KeyFromReadings ==
  ASSUME NEW b, ~ ({"legacy32", "legacy64"} \subseteq b.reads)
  PROVE  /\ "legacy32" \in b.reads =>
              KeyFromBytes(b) = [form |-> "legacy32", secret |-> b.name, kid |-> ""]
         /\ "legacy64" \in b.reads =>
              KeyFromBytes(b) = [form |-> "legacy64", secret |-> b.name, kid |-> ""]
         /\ "legacy32" \notin b.reads /\ "legacy64" \notin b.reads =>
              /\ "raw_cose" \in b.reads \/ "padded_cose" \in b.reads =>
                   KeyFromBytes(b) = [form |-> "xchacha", secret |-> b.name, kid |-> b.kid]
              /\ "raw_cose" \notin b.reads /\ "padded_cose" \notin b.reads =>
                   KeyFromBytes(b) = NoKey
BY DEF KeyFromBytes

(* What Payload derives from the ways bytes can be read is the key that is *)
(* read from the bytes, whatever their length.                             *)
THEOREM PayloadReadsAlike == Spec => []ReadAsInPayload
<1>1. IInv => ReadAsInPayload
  <2> SUFFICES ASSUME IInv, pc = "done"
               PROVE  result = IF entry = "new" THEN KeyFromBytes(Reading)
                               ELSE KeyFromRawCose(Reading)
    BY DEF ReadAsInPayload
  <2> DEFINE padded == Len(bytes) >= MinCoseEncodedKeyLen /\ ParsesPadded(bytes)
  <2>1. bytes \in Seq(Byte) /\ Len(bytes) \in Nat
    BY InputsAssumption DEF IInv, TypeOK
  <2>2. /\ "legacy32" \in Reading.reads <=> Len(bytes) = AesKeyLen
        /\ "legacy64" \in Reading.reads <=> Len(bytes) = SymmetricHmacKeyLen
        /\ "raw_cose" \in Reading.reads <=> ParsesRaw(bytes)
        /\ "padded_cose" \in Reading.reads <=> padded
    BY DEF Reading
  <2>3. ~ ({"legacy32", "legacy64"} \subseteq Reading.reads)
    BY <2>2, LengthsAssumption
  <2>4. ASSUME NEW e \in Encodings, Encodes(bytes, e), ~ (entry = "new" /\ IsLegacy(bytes))
        PROVE  result = XChaChaKey(e)
    <3>1. \A f \in Encodings : Encodes(bytes, f) => f = e
      BY <2>1, <2>4, Unambiguous
    <3> QED BY <2>4, <3>1 DEF IInv, KeyAsDeclared
  <2>5. CASE entry = "new" /\ IsLegacy(bytes)
    <3>1. result = LegacyKey(bytes) /\ Reading.name = bytes
      BY <2>5 DEF IInv, KeyAsDeclared, Reading
    <3> QED BY <2>2, <2>5, <2>3, <3>1, KeyFromReadings DEF LegacyKey, IsLegacy
  <2>6. CASE ~ (entry = "new" /\ IsLegacy(bytes)) /\ ParsesRaw(bytes)
    <3>1. result = XChaChaKey(bytes)
      BY <2>6, <2>4, Recognised
    <3>2. Reading.name = CoseKeys[bytes].k /\ Reading.kid = CoseKeys[bytes].kid
      BY <2>6 DEF Reading
    <3>3. "raw_cose" \in Reading.reads
      BY <2>2, <2>6
    <3>4. CASE entry = "new"
      BY <2>2, <2>6, <2>3, <3>1, <3>2, <3>3, <3>4, KeyFromReadings DEF XChaChaKey, IsLegacy
    <3>5. CASE entry # "new"
      BY <3>1, <3>2, <3>3, <3>5 DEF XChaChaKey, KeyFromRawCose
    <3> QED BY <3>4, <3>5
  <2>7. CASE entry = "new" /\ ~ IsLegacy(bytes) /\ ~ ParsesRaw(bytes) /\ padded
    <3>1. result = XChaChaKey(Unpadded(bytes))
      BY <2>7, <2>4, Recognised
    <3>2. /\ Reading.name = CoseKeys[Unpadded(bytes)].k
          /\ Reading.kid = CoseKeys[Unpadded(bytes)].kid
      BY <2>7 DEF Reading
    <3>3. "padded_cose" \in Reading.reads
      BY <2>2, <2>7
    <3> QED BY <2>2, <2>7, <2>3, <3>1, <3>2, <3>3, KeyFromReadings DEF XChaChaKey, IsLegacy
  <2>8. CASE /\ ~ (entry = "new" /\ IsLegacy(bytes)) /\ ~ ParsesRaw(bytes)
             /\ ~ (entry = "new" /\ padded)
    <3>1. result = NoKey
      BY <2>8, Recognised DEF IInv, KeyAsDeclared, Encodes
    <3>2. CASE entry = "new"
      BY <2>2, <2>8, <2>3, <3>1, <3>2, KeyFromReadings DEF IsLegacy
    <3>3. CASE entry # "new"
      BY <2>2, <2>8, <3>1, <3>3 DEF KeyFromRawCose
    <3> QED BY <3>2, <3>3
  <2> QED BY <2>5, <2>6, <2>7, <2>8
<1> QED BY <1>1, InitIInv, NextIInv, PTL DEF Spec
=============================================================================
