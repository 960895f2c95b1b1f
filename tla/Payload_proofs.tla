--------------------------- MODULE Payload_proofs ---------------------------
(***************************************************************************)
(* What is known of a string that opened, and of one that must: the checks *)
(* of Payload and ItemMeaning taken together, for strings, items and keys  *)
(* of any kind.                                                            *)
(***************************************************************************)
EXTENDS ItemMeaning, WellFoundedInduction, TLAPS

(* If no error comes of a list of checks, none of them fails; and no check *)
(* that fails passes for success.                                          *)
LEMMA Checked ==
  ASSUME NEW checks, Len(checks) \in Nat,
         \A i \in 1 .. Len(checks) : checks[i][1] => checks[i][2] \notin {"none", "ok"}
  PROVE  /\ FirstFault(checks) # "ok"
         /\ FirstFault(checks) = "none" => \A i \in 1 .. Len(checks) : ~ checks[i][1]
<1> DEFINE failing == {i \in 1 .. Len(checks) : checks[i][1]}
<1>1. CASE failing = {}
  BY <1>1 DEF FirstFault
<1>2. CASE failing # {}
  <2>1. \E i \in failing : \A j \in failing : ~ (j < i)
    <3> DEFINE less == {p \in Nat \X Nat : p[1] < p[2]}
    <3>1. IsWellFoundedOn(less, Nat)
      BY NatLessThanWellFounded DEF OpToRel
    <3>2. failing \subseteq Nat
      OBVIOUS
    <3>3. \E i \in failing : \A j \in failing : <<j, i>> \notin less
      <4> HIDE DEF less, failing
      <4> QED BY <1>2, <3>1, <3>2, WFMin
    <3> QED BY <3>2, <3>3
  <2>2. \E i \in 1 .. Len(checks) : checks[i][1] /\ \A j \in 1 .. i - 1 : ~ checks[j][1]
    BY <2>1
  <2> QED BY <2>2 DEF FirstFault
<1> QED BY <1>1, <1>2

(* And the other way round: no check fails, no error; and the first that   *)
(* fails decides.                                                          *)
LEMMA NoneFails ==
  ASSUME NEW checks, \A i \in 1 .. Len(checks) : ~ checks[i][1]
  PROVE  FirstFault(checks) = "none"
BY DEF FirstFault

LEMMA FirstDecides ==
  ASSUME NEW checks, Len(checks) \in Nat, NEW i \in 1 .. Len(checks),
         checks[i][1], \A j \in 1 .. i - 1 : ~ checks[j][1]
  PROVE  FirstFault(checks) = checks[i][2]
<1> DEFINE First(h) == checks[h][1] /\ \A j \in 1 .. h - 1 : ~ checks[j][1]
           f == CHOOSE h \in 1 .. Len(checks) : First(h)
<1>1. f \in 1 .. Len(checks) /\ First(f)
  OBVIOUS
<1>2. f = i
  <2> HIDE DEF f
  <2>1. ~ f < i /\ ~ i < f
    BY <1>1
  <2> QED BY <1>1, <2>1
<1>3. FirstFault(checks) = checks[f][2]
  BY DEF FirstFault
<1> QED BY <1>2, <1>3

(* An error is that of a check that fails where all before it passed. *)
LEMMA ErrorOfCheck ==
  ASSUME NEW checks, Len(checks) \in Nat, FirstFault(checks) # "none"
  PROVE  \E i \in 1 .. Len(checks) :
           /\ checks[i][1] /\ checks[i][2] = FirstFault(checks)
           /\ \A j \in 1 .. i - 1 : ~ checks[j][1]
<1> DEFINE failing == {i \in 1 .. Len(checks) : checks[i][1]}
           less == {p \in Nat \X Nat : p[1] < p[2]}
<1>1. failing # {} /\ failing \subseteq Nat
  BY DEF FirstFault
<1>2. IsWellFoundedOn(less, Nat)
  BY NatLessThanWellFounded DEF OpToRel
<1>3. \E i \in failing : \A j \in failing : <<j, i>> \notin less
  <2> HIDE DEF less, failing
  <2> QED BY <1>1, <1>2, WFMin
<1>4. \E i \in failing : \A j \in failing : ~ (j < i)
  BY <1>1, <1>3
<1>5. PICK i \in 1 .. Len(checks) : checks[i][1] /\ \A j \in 1 .. i - 1 : ~ checks[j][1]
  BY <1>4
<1>6. FirstFault(checks) = checks[i][2]
  BY <1>5, FirstDecides
<1> QED BY <1>5, <1>6

LEMMA AesOpened ==
  ASSUME NEW c, NEW k
  PROVE  /\ AesFault(c, k) # "ok"
         /\ AesFault(c, k) = "none" => k.form = "legacy64" /\ Authentic(c, k)
<1> DEFINE C1 == k.form # "legacy64"
           C2 == ~ Authentic(c, k)
           C3 == "padding" \in c.defects
           checks == << <<C1, "InvalidKeyLength">>, <<C2, "AuthenticationFailed">>,
                        <<C3, "DecryptionFailed">> >>
<1>1. AesFault(c, k) = FirstFault(checks)
  BY DEF AesFault
<1> HIDE DEF C1, C2, C3
<1>2. Len(checks) = 3
  OBVIOUS
<1>3. \A i \in 1 .. 3 : checks[i][2] \notin {"none", "ok"}
  OBVIOUS
<1>4. /\ FirstFault(checks) # "ok"
      /\ FirstFault(checks) = "none" => \A i \in 1 .. 3 : ~ checks[i][1]
  <2> HIDE DEF checks
  <2> QED BY <1>2, <1>3, Checked
<1>5. FirstFault(checks) = "none" => ~ C1 /\ ~ C2
  BY <1>4
<1> QED BY <1>1, <1>4, <1>5 DEF C1, C2

LEMMA CoseOpened ==
  ASSUME NEW c, NEW k
  PROVE  /\ CoseFault(c, k) # "ok"
         /\ CoseFault(c, k) = "none" =>
              /\ k.form = "xchacha" /\ Authentic(c, k)
              /\ c.kid # "" /\ c.kid = k.kid
              /\ c.format \notin {"absent", "unknown"}
<1> DEFINE C1 == c.alg # "xchacha"
           C2 == k.form # "xchacha"
           C3 == c.kid = "" \/ c.kid # k.kid
           C4 == "nonce" \in c.defects
           C5 == c.format = "absent"
           C6 == c.format = "unknown"
           C7 == "no_ciphertext" \in c.defects
           C8 == ~ Authentic(c, k)
           C9 == c.format = "padded_utf8" /\ "padding" \in c.defects
           checks == <<
             <<C1, "UnsupportedEncryptionType">>, <<C2, "InvalidKeyLength">>,
             <<C3, "AuthenticationFailed">>, <<C4, "InvalidIvLength">>,
             <<C5, "InvalidEncryptedString">>, <<C6, "UnsupportedEncryptionType">>,
             <<C7, "InvalidEncryptedString">>, <<C8, "AuthenticationFailed">>,
             <<C9, "DecryptionFailed">> >>
<1>1. CoseFault(c, k) = FirstFault(checks)
  BY DEF CoseFault
<1> HIDE DEF C1, C2, C3, C4, C5, C6, C7, C8, C9
<1>2. Len(checks) = 9
  OBVIOUS
<1>3. \A i \in 1 .. 9 : checks[i][2] \notin {"none", "ok"}
  OBVIOUS
<1>4. /\ FirstFault(checks) # "ok"
      /\ FirstFault(checks) = "none" => \A i \in 1 .. Len(checks) : ~ checks[i][1]
  <2> HIDE DEF checks
  <2>1. \A i \in 1 .. Len(checks) : checks[i][2] \notin {"none", "ok"}
    BY <1>2, <1>3
  <2>2. Len(checks) \in Nat
    BY <1>2
  <2> QED BY <2>1, <2>2, Checked
<1>5. FirstFault(checks) = "none" => ~ C2 /\ ~ C3 /\ ~ C5 /\ ~ C6 /\ ~ C8
  BY <1>2, <1>4
<1> QED BY <1>1, <1>4, <1>5 DEF C2, C3, C5, C6, C8

(* Nothing opens under another secret, or altered. *)
LEMMA PayloadOpened ==
  ASSUME NEW c, NEW k
  PROVE  /\ PayloadFault(c, k) # "ok"
         /\ PayloadFault(c, k) = "none" =>
              /\ Authentic(c, k) /\ k.form \in {"legacy64", "xchacha"}
              /\ FormatOf(c) \notin {"absent", "unknown"}
BY AesOpened, CoseOpened DEF PayloadFault, FormatOf

LEMMA AesErrors ==
  ASSUME NEW c, NEW k
  PROVE  /\ AesFault(c, k) \in {"none", "InvalidKeyLength", "AuthenticationFailed", "DecryptionFailed"}
         /\ AesFault(c, k) = "DecryptionFailed" => Authentic(c, k)
         /\ AesFault(c, k) = "InvalidKeyLength" => k.form # "legacy64"
<1> DEFINE C1 == k.form # "legacy64"
           C2 == ~ Authentic(c, k)
           C3 == "padding" \in c.defects
           checks == << <<C1, "InvalidKeyLength">>, <<C2, "AuthenticationFailed">>,
                        <<C3, "DecryptionFailed">> >>
<1>1. AesFault(c, k) = FirstFault(checks)
  BY DEF AesFault
<1> HIDE DEF C1, C2, C3
<1>2. Len(checks) = 3 /\ (checks[1][1] <=> C1) /\ (checks[2][1] <=> C2)
  OBVIOUS
<1>3. /\ checks[1][2] = "InvalidKeyLength" /\ checks[2][2] = "AuthenticationFailed"
      /\ checks[3][2] = "DecryptionFailed"
  OBVIOUS
<1>4. FirstFault(checks) = "none" \/
      \E i \in 1 .. 3 : /\ checks[i][1] /\ checks[i][2] = FirstFault(checks)
                        /\ \A j \in 1 .. i - 1 : ~ checks[j][1]
  <2> HIDE DEF checks
  <2>1. Len(checks) \in Nat
    BY <1>2
  <2> QED BY <1>2, <2>1, ErrorOfCheck
<1> HIDE DEF checks
<1> QED BY <1>1, <1>2, <1>3, <1>4 DEF C1, C2

LEMMA CoseErrors ==
  ASSUME NEW c, NEW k
  PROVE  /\ CoseFault(c, k) \in
              {"none", "UnsupportedEncryptionType", "InvalidKeyLength", "AuthenticationFailed",
               "InvalidIvLength", "InvalidEncryptedString", "DecryptionFailed"}
         /\ CoseFault(c, k) = "DecryptionFailed" => Authentic(c, k)
         /\ CoseFault(c, k) = "InvalidKeyLength" => k.form # "xchacha"
<1> DEFINE C1 == c.alg # "xchacha"
           C2 == k.form # "xchacha"
           C3 == c.kid = "" \/ c.kid # k.kid
           C4 == "nonce" \in c.defects
           C5 == c.format = "absent"
           C6 == c.format = "unknown"
           C7 == "no_ciphertext" \in c.defects
           C8 == ~ Authentic(c, k)
           C9 == c.format = "padded_utf8" /\ "padding" \in c.defects
           checks == <<
             <<C1, "UnsupportedEncryptionType">>, <<C2, "InvalidKeyLength">>,
             <<C3, "AuthenticationFailed">>, <<C4, "InvalidIvLength">>,
             <<C5, "InvalidEncryptedString">>, <<C6, "UnsupportedEncryptionType">>,
             <<C7, "InvalidEncryptedString">>, <<C8, "AuthenticationFailed">>,
             <<C9, "DecryptionFailed">> >>
<1>1. CoseFault(c, k) = FirstFault(checks)
  BY DEF CoseFault
<1> HIDE DEF C1, C2, C3, C4, C5, C6, C7, C8, C9
<1>2. Len(checks) = 9 /\ (checks[2][1] <=> C2) /\ (checks[8][1] <=> C8)
  OBVIOUS
<1>3. /\ checks[1][2] = "UnsupportedEncryptionType" /\ checks[2][2] = "InvalidKeyLength"
      /\ checks[3][2] = "AuthenticationFailed" /\ checks[4][2] = "InvalidIvLength"
      /\ checks[5][2] = "InvalidEncryptedString" /\ checks[6][2] = "UnsupportedEncryptionType"
      /\ checks[7][2] = "InvalidEncryptedString" /\ checks[8][2] = "AuthenticationFailed"
      /\ checks[9][2] = "DecryptionFailed"
  OBVIOUS
<1> HIDE DEF checks
<1>4. FirstFault(checks) = "none" \/
      \E i \in 1 .. 9 : /\ checks[i][1] /\ checks[i][2] = FirstFault(checks)
                        /\ \A j \in 1 .. i - 1 : ~ checks[j][1]
  <2>1. Len(checks) \in Nat
    BY <1>2
  <2> QED BY <1>2, <2>1, ErrorOfCheck
<1> DEFINE e == FirstFault(checks)
<1>5. CASE e = "none"
  BY <1>1, <1>5
<1>6. ASSUME NEW i \in 1 .. 9, checks[i][1], checks[i][2] = e,
             \A j \in 1 .. i - 1 : ~ checks[j][1]
      PROVE  /\ e \in {"UnsupportedEncryptionType", "InvalidKeyLength", "AuthenticationFailed",
                       "InvalidIvLength", "InvalidEncryptedString", "DecryptionFailed"}
             /\ e = "DecryptionFailed" => i = 9
             /\ e = "InvalidKeyLength" => i = 2
  BY <1>3, <1>6
<1>7. ASSUME NEW i \in 1 .. 9, checks[i][1], checks[i][2] = e,
             \A j \in 1 .. i - 1 : ~ checks[j][1]
      PROVE  (e = "DecryptionFailed" => ~ C8) /\ (e = "InvalidKeyLength" => C2)
  <2>1. 8 \in 1 .. 9 - 1
    OBVIOUS
  <2> QED BY <1>2, <1>6, <1>7, <2>1
<1> HIDE DEF e
<1> QED BY <1>1, <1>4, <1>5, <1>6, <1>7 DEF C2, C8, e

(* An error about the content of a string means the string is genuine. *)
LEMMA PayloadErrors ==
  ASSUME NEW c, NEW k
  PROVE  /\ PayloadFault(c, k) \notin {"InvalidUtf8", "DuplicateFieldName"}
         /\ PayloadFault(c, k) = "DecryptionFailed" => Authentic(c, k)
         /\ PayloadFault(c, k) = "InvalidKeyLength" =>
              k.form # (IF c.scheme = "aes" THEN "legacy64" ELSE "xchacha")
BY AesErrors, CoseErrors DEF PayloadFault

LEMMA KeyErrors ==
  ASSUME NEW c, NEW k
  PROVE  /\ KeyFault(c, k) \notin {"InvalidUtf8", "DuplicateFieldName"}
         /\ KeyFault(c, k) = "DecryptionFailed" => Authentic(c, k)
         /\ KeyFault(c, k) = "InvalidKeyLength" =>
              Authentic(c, k) \/ k.form # (IF c.scheme = "aes" THEN "legacy64" ELSE "xchacha")
<1> DEFINE F == PayloadFault(c, k)
           C1 == F # "none"
           C2 == FormatOf(c) \notin {"untyped", "legacy_key", "cose_key"}
           C3 == KeyIn(c) = NoKey
           checks == << <<C1, F>>, <<C2, "UnsupportedEncryptionType">>, <<C3, "InvalidKeyLength">> >>
<1>1. KeyFault(c, k) = FirstFault(checks)
  BY DEF KeyFault
<1>2. F = "none" => Authentic(c, k)
  BY PayloadOpened
<1> HIDE DEF F, C1, C2, C3
<1>3. /\ Len(checks) = 3 /\ (checks[1][1] <=> C1) /\ checks[1][2] = F
      /\ checks[2][2] = "UnsupportedEncryptionType" /\ checks[3][2] = "InvalidKeyLength"
  OBVIOUS
<1> HIDE DEF checks
<1>4. FirstFault(checks) = "none" \/
      \E i \in 1 .. 3 : /\ checks[i][1] /\ checks[i][2] = FirstFault(checks)
                        /\ \A j \in 1 .. i - 1 : ~ checks[j][1]
  <2>1. Len(checks) \in Nat
    BY <1>3
  <2> QED BY <1>3, <2>1, ErrorOfCheck
<1>5. /\ F \notin {"InvalidUtf8", "DuplicateFieldName"}
      /\ F = "DecryptionFailed" => Authentic(c, k)
      /\ F = "InvalidKeyLength" => k.form # (IF c.scheme = "aes" THEN "legacy64" ELSE "xchacha")
  BY PayloadErrors DEF F
<1> QED BY <1>1, <1>2, <1>3, <1>4, <1>5 DEF C1

LEMMA FieldErrors ==
  ASSUME NEW c, NEW k
  PROVE  /\ FieldFault(c, k) # "DuplicateFieldName"
         /\ FieldFault(c, k) \in {"DecryptionFailed", "InvalidUtf8"} => Authentic(c, k)
         /\ FieldFault(c, k) = "InvalidKeyLength" =>
              k.form # (IF c.scheme = "aes" THEN "legacy64" ELSE "xchacha")
<1> DEFINE F == PayloadFault(c, k)
           C1 == F # "none"
           C2 == FormatOf(c) \notin {"untyped", "padded_utf8"}
           C3 == "utf8" \notin c.body.reads
           checks == << <<C1, F>>, <<C2, "UnsupportedEncryptionType">>, <<C3, "InvalidUtf8">> >>
<1>1. FieldFault(c, k) = FirstFault(checks)
  BY DEF FieldFault
<1>2. F = "none" => Authentic(c, k)
  BY PayloadOpened
<1> HIDE DEF F, C1, C2, C3
<1>3. /\ Len(checks) = 3 /\ (checks[1][1] <=> C1) /\ checks[1][2] = F
      /\ checks[2][2] = "UnsupportedEncryptionType" /\ checks[3][2] = "InvalidUtf8"
  OBVIOUS
<1> HIDE DEF checks
<1>4. FirstFault(checks) = "none" \/
      \E i \in 1 .. 3 : /\ checks[i][1] /\ checks[i][2] = FirstFault(checks)
                        /\ \A j \in 1 .. i - 1 : ~ checks[j][1]
  <2>1. Len(checks) \in Nat
    BY <1>3
  <2> QED BY <1>3, <2>1, ErrorOfCheck
<1>5. /\ F \notin {"InvalidUtf8", "DuplicateFieldName"}
      /\ F = "DecryptionFailed" => Authentic(c, k)
      /\ F = "InvalidKeyLength" => k.form # (IF c.scheme = "aes" THEN "legacy64" ELSE "xchacha")
  BY PayloadErrors DEF F
<1> QED BY <1>1, <1>2, <1>3, <1>4, <1>5 DEF C1

(* A key comes from a string that is authentic and said to hold a key, or  *)
(* that does not say what it holds, and is the key in it.                  *)
LEMMA KeyOpened ==
  ASSUME NEW c, NEW k
  PROVE  /\ KeyFault(c, k) # "ok"
         /\ KeyFault(c, k) = "none" =>
              /\ Authentic(c, k) /\ k.form \in {"legacy64", "xchacha"}
              /\ FormatOf(c) \in {"untyped", "legacy_key", "cose_key"}
              /\ KeyIn(c) # NoKey /\ KeyIn(c).secret = c.body.name
<1> DEFINE F == PayloadFault(c, k)
           C1 == F # "none"
           C2 == FormatOf(c) \notin {"untyped", "legacy_key", "cose_key"}
           C3 == KeyIn(c) = NoKey
           checks == << <<C1, F>>, <<C2, "UnsupportedEncryptionType">>, <<C3, "InvalidKeyLength">> >>
<1>1. F # "ok" /\ (C1 => F # "none")
  BY PayloadOpened
<1> HIDE DEF F, C1, C2, C3
<1>2. Len(checks) = 3
  OBVIOUS
<1>3. \A i \in 1 .. 3 : checks[i][1] => checks[i][2] \notin {"none", "ok"}
  BY <1>1
<1>4. /\ FirstFault(checks) # "ok"
      /\ FirstFault(checks) = "none" => \A i \in 1 .. 3 : ~ checks[i][1]
  <2> HIDE DEF checks
  <2> QED BY <1>2, <1>3, Checked
<1>5. FirstFault(checks) = "none" => ~ C1 /\ ~ C2 /\ ~ C3
  BY <1>4
<1>6. KeyFault(c, k) = FirstFault(checks)
  BY DEF KeyFault, F, C1, C2, C3
<1>7. KeyIn(c) # NoKey => KeyIn(c).secret = c.body.name
  BY DEF KeyIn, KeyFromBytes, KeyFromRawCose
<1> QED BY <1>4, <1>5, <1>6, <1>7, PayloadOpened DEF F, C1, C2, C3

(* A field comes from a string that is authentic and said to hold text, or *)
(* that does not say what it holds.                                        *)
LEMMA FieldOpened ==
  ASSUME NEW c, NEW k
  PROVE  /\ FieldFault(c, k) # "ok"
         /\ FieldFault(c, k) = "none" =>
              /\ Authentic(c, k) /\ k.form \in {"legacy64", "xchacha"}
              /\ FormatOf(c) \in {"untyped", "padded_utf8"}
<1> DEFINE F == PayloadFault(c, k)
           C1 == F # "none"
           C2 == FormatOf(c) \notin {"untyped", "padded_utf8"}
           C3 == "utf8" \notin c.body.reads
           checks == << <<C1, F>>, <<C2, "UnsupportedEncryptionType">>, <<C3, "InvalidUtf8">> >>
<1>1. F # "ok" /\ (C1 => F # "none")
  BY PayloadOpened
<1> HIDE DEF F, C1, C2, C3
<1>2. Len(checks) = 3
  OBVIOUS
<1>3. \A i \in 1 .. 3 : checks[i][1] => checks[i][2] \notin {"none", "ok"}
  BY <1>1
<1>4. /\ FirstFault(checks) # "ok"
      /\ FirstFault(checks) = "none" => \A i \in 1 .. 3 : ~ checks[i][1]
  <2> HIDE DEF checks
  <2> QED BY <1>2, <1>3, Checked
<1>5. FirstFault(checks) = "none" => ~ C1 /\ ~ C2 /\ ~ C3
  BY <1>4
<1>6. FieldFault(c, k) = FirstFault(checks)
  BY DEF FieldFault, F, C1, C2, C3
<1> QED BY <1>4, <1>5, <1>6, PayloadOpened DEF F, C1, C2

-----------------------------------------------------------------------------

(* A string with nothing wrong opens.                                      *)
LEMMA AesOpens ==
  ASSUME NEW c, NEW k, k.form = "legacy64", Authentic(c, k), "padding" \notin c.defects
  PROVE  AesFault(c, k) = "none"
<1> DEFINE C1 == k.form # "legacy64"
           C2 == ~ Authentic(c, k)
           C3 == "padding" \in c.defects
           checks == << <<C1, "InvalidKeyLength">>, <<C2, "AuthenticationFailed">>,
                        <<C3, "DecryptionFailed">> >>
<1>1. AesFault(c, k) = FirstFault(checks)
  BY DEF AesFault
<1>2. ~ C1 /\ ~ C2 /\ ~ C3
  OBVIOUS
<1> HIDE DEF C1, C2, C3
<1>3. Len(checks) = 3 /\ \A i \in 1 .. 3 : ~ checks[i][1]
  BY <1>2
<1> HIDE DEF checks
<1> QED BY <1>1, <1>3, NoneFails

(* Under a wrong key of the right length the MAC does not verify, whatever *)
(* else is wrong.                                                          *)
LEMMA WrongAesKey ==
  ASSUME NEW c, NEW k, k.form = "legacy64", ~ Authentic(c, k)
  PROVE  AesFault(c, k) = "AuthenticationFailed"
<1> DEFINE C1 == k.form # "legacy64"
           C2 == ~ Authentic(c, k)
           C3 == "padding" \in c.defects
           checks == << <<C1, "InvalidKeyLength">>, <<C2, "AuthenticationFailed">>,
                        <<C3, "DecryptionFailed">> >>
<1>1. AesFault(c, k) = FirstFault(checks)
  BY DEF AesFault
<1>2. ~ C1 /\ C2
  OBVIOUS
<1> HIDE DEF C1, C2, C3
<1>3. /\ Len(checks) = 3 /\ checks[2][1] /\ checks[2][2] = "AuthenticationFailed"
      /\ \A j \in 1 .. 2 - 1 : ~ checks[j][1]
  BY <1>2
<1> HIDE DEF checks
<1> QED BY <1>1, <1>3, FirstDecides

LEMMA NineChecks ==
  \A i \in 1 .. 9 : i = 1 \/ i = 2 \/ i = 3 \/ i = 4 \/ i = 5 \/ i = 6 \/ i = 7 \/ i = 8 \/ i = 9
OBVIOUS

LEMMA CoseOpens ==
  ASSUME NEW c, NEW k,
         c.alg = "xchacha", k.form = "xchacha", c.kid # "", c.kid = k.kid,
         c.format \notin {"absent", "unknown"}, Authentic(c, k), c.defects = {}
  PROVE  CoseFault(c, k) = "none"
<1> DEFINE C1 == c.alg # "xchacha"
           C2 == k.form # "xchacha"
           C3 == c.kid = "" \/ c.kid # k.kid
           C4 == "nonce" \in c.defects
           C5 == c.format = "absent"
           C6 == c.format = "unknown"
           C7 == "no_ciphertext" \in c.defects
           C8 == ~ Authentic(c, k)
           C9 == c.format = "padded_utf8" /\ "padding" \in c.defects
           checks == <<
             <<C1, "UnsupportedEncryptionType">>, <<C2, "InvalidKeyLength">>,
             <<C3, "AuthenticationFailed">>, <<C4, "InvalidIvLength">>,
             <<C5, "InvalidEncryptedString">>, <<C6, "UnsupportedEncryptionType">>,
             <<C7, "InvalidEncryptedString">>, <<C8, "AuthenticationFailed">>,
             <<C9, "DecryptionFailed">> >>
<1>1. CoseFault(c, k) = FirstFault(checks)
  BY DEF CoseFault
<1>2. ~ C1 /\ ~ C2 /\ ~ C3 /\ ~ C4 /\ ~ C5 /\ ~ C6 /\ ~ C7 /\ ~ C8 /\ ~ C9
  OBVIOUS
<1> HIDE DEF C1, C2, C3, C4, C5, C6, C7, C8, C9
<1>3. Len(checks) = 9 /\ \A i \in 1 .. 9 : ~ checks[i][1]
  <2>1. Len(checks) = 9
    OBVIOUS
  <2>2. ~ checks[1][1] /\ ~ checks[2][1] /\ ~ checks[3][1]
    BY <1>2
  <2>3. ~ checks[4][1] /\ ~ checks[5][1] /\ ~ checks[6][1]
    BY <1>2
  <2>4. ~ checks[7][1] /\ ~ checks[8][1] /\ ~ checks[9][1]
    BY <1>2
  <2> HIDE DEF checks
  <2> QED BY <2>1, <2>2, <2>3, <2>4, NineChecks, Zenon
<1> HIDE DEF checks
<1> QED BY <1>1, <1>3, NoneFails

LEMMA KeyOpens ==
  ASSUME NEW c, NEW k, PayloadFault(c, k) = "none",
         FormatOf(c) \in {"untyped", "legacy_key", "cose_key"}, KeyIn(c) # NoKey
  PROVE  KeyFault(c, k) = "none"
<1> DEFINE F == PayloadFault(c, k)
           C1 == F # "none"
           C2 == FormatOf(c) \notin {"untyped", "legacy_key", "cose_key"}
           C3 == KeyIn(c) = NoKey
           checks == << <<C1, F>>, <<C2, "UnsupportedEncryptionType">>, <<C3, "InvalidKeyLength">> >>
<1>1. KeyFault(c, k) = FirstFault(checks)
  BY DEF KeyFault
<1>2. ~ C1 /\ ~ C2 /\ ~ C3
  OBVIOUS
<1> HIDE DEF F, C1, C2, C3
<1>3. Len(checks) = 3 /\ \A i \in 1 .. 3 : ~ checks[i][1]
  BY <1>2
<1> HIDE DEF checks
<1> QED BY <1>1, <1>3, NoneFails

(* A key is not opened with a wrong key, and the error is the payload's.   *)
LEMMA KeyFaultOfPayload ==
  ASSUME NEW c, NEW k, PayloadFault(c, k) # "none"
  PROVE  KeyFault(c, k) = PayloadFault(c, k)
<1> DEFINE F == PayloadFault(c, k)
           C1 == F # "none"
           C2 == FormatOf(c) \notin {"untyped", "legacy_key", "cose_key"}
           C3 == KeyIn(c) = NoKey
           checks == << <<C1, F>>, <<C2, "UnsupportedEncryptionType">>, <<C3, "InvalidKeyLength">> >>
<1>1. KeyFault(c, k) = FirstFault(checks)
  BY DEF KeyFault
<1>2. C1
  OBVIOUS
<1> HIDE DEF C1, C2, C3
<1>3. Len(checks) = 3 /\ checks[1][1] /\ checks[1][2] = F /\ 1 .. 1 - 1 = {}
  BY <1>2
<1> HIDE DEF checks
<1>4. FirstFault(checks) = checks[1][2]
  BY <1>3, FirstDecides
<1> QED BY <1>1, <1>3, <1>4

LEMMA FieldOpens ==
  ASSUME NEW c, NEW k, PayloadFault(c, k) = "none",
         FormatOf(c) \in {"untyped", "padded_utf8"}, "utf8" \in c.body.reads
  PROVE  FieldFault(c, k) = "none"
<1> DEFINE F == PayloadFault(c, k)
           C1 == F # "none"
           C2 == FormatOf(c) \notin {"untyped", "padded_utf8"}
           C3 == "utf8" \notin c.body.reads
           checks == << <<C1, F>>, <<C2, "UnsupportedEncryptionType">>, <<C3, "InvalidUtf8">> >>
<1>1. FieldFault(c, k) = FirstFault(checks)
  BY DEF FieldFault
<1>2. ~ C1 /\ ~ C2 /\ ~ C3
  OBVIOUS
<1> HIDE DEF F, C1, C2, C3
<1>3. Len(checks) = 3 /\ \A i \in 1 .. 3 : ~ checks[i][1]
  BY <1>2
<1> HIDE DEF checks
<1> QED BY <1>1, <1>3, NoneFails

(* An item that opens with a key ring was sealed for it.                   *)
LEMMA OpensSealed ==
  ASSUME NEW it, NEW ks, Opens(it, ks)
  PROVE  SealedAlongItsKeys(it, ks)
<1> DEFINE root == WrappingKey(it, ks).secret
           leaf == IF it.itemKey = NoItemKey THEN root ELSE it.itemKey.body.name
<1>1. /\ it.itemKey # NoItemKey =>
           /\ Authentic(it.itemKey, WrappingKey(it, ks))
           /\ FormatOf(it.itemKey) \notin {"padded_utf8", "pkcs8"}
      /\ FieldKey(it, ks).secret = leaf
  BY KeyOpened DEF Opens, HasFieldKey, FieldKey
<1>2. \A i \in 1 .. Len(it.fields) :
        /\ Authentic(it.fields[i].value, FieldKey(it, ks))
        /\ FormatOf(it.fields[i].value) \notin {"legacy_key", "cose_key", "pkcs8"}
  BY FieldOpened DEF Opens, Faulty, FieldFaultAt
<1> QED BY <1>1, <1>2 DEF SealedAlongItsKeys, Authentic
=============================================================================
