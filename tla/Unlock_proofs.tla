---------------------------- MODULE Unlock_proofs ----------------------------
(***************************************************************************)
(* For every vault, every set of credentials and any number of calls: the  *)
(* KDF parameters validate accepts are never refused further on, and a     *)
(* session gets at nothing but along the seals of its vault.               *)
(***************************************************************************)
EXTENDS Unlock, Payload_proofs

(* SymmetricKey::new on 32 and on 64 bytes. *)
LEMMA LegacyKeys ==
  ASSUME NEW b
  PROVE  /\ b.reads = {"legacy32"} =>
              KeyFromBytes(b).form = "legacy32" /\ KeyFromBytes(b).secret = b.name
         /\ b.reads = {"legacy64"} =>
              KeyFromBytes(b).form = "legacy64" /\ KeyFromBytes(b).secret = b.name
<1> DEFINE k == KeyFromBytes(b)
<1>1. CASE b.reads = {"legacy32"}
  <2>1. "legacy32" \in b.reads /\ "legacy64" \notin b.reads /\ b.reads # {"legacy64"}
    BY <1>1
  <2>2. k = [form |-> "legacy32", secret |-> b.name, kid |-> ""]
    BY <2>1, Zenon DEF KeyFromBytes
  <2> HIDE DEF k
  <2>3. k.form = "legacy32" /\ k.secret = b.name
    BY <2>2
  <2> QED BY <2>1, <2>3 DEF k
<1>2. CASE b.reads = {"legacy64"}
  <2>1. /\ "legacy64" \in b.reads /\ "legacy32" \notin b.reads /\ b.reads # {"legacy32"}
        /\ b.reads \cap {"legacy32", "legacy64"} # {}
    BY <1>2
  <2>2. k = [form |-> "legacy64", secret |-> b.name, kid |-> ""]
    BY <2>1, Zenon DEF KeyFromBytes
  <2> HIDE DEF k
  <2>3. k.form = "legacy64" /\ k.secret = b.name
    BY <2>2
  <2> QED BY <2>1, <2>3 DEF k
<1> QED BY <1>1, <1>2

(* Keys made by derive_master_key and stretch_key. *)
LEMMA KeyForms ==
  /\ NoKey.form = "none"
  /\ \A c : /\ KeyOf(c).form = "legacy32"
            /\ KeyOf(c).secret = Derived[<<c.password, Normalized[c.salt], c.kdf>>]
  /\ \A k : StretchedKey(k).form = "legacy64" /\ StretchedKey(k).secret = Stretched[k.secret]
<1>1. NoKey.form = "none"
  BY DEF NoKey
<1> DEFINE B(n, r) == [name |-> n, reads |-> r, kid |-> ""]
<1>2. \A n, r : B(n, r).name = n /\ B(n, r).reads = r
  OBVIOUS
<1>3. /\ \A c : KeyOf(c) =
                 KeyFromBytes(B(Derived[<<c.password, Normalized[c.salt], c.kdf>>], {"legacy32"}))
      /\ \A k : StretchedKey(k) = KeyFromBytes(B(Stretched[k.secret], {"legacy64"}))
  BY DEF KeyOf, StretchedKey
<1> HIDE DEF B
<1>4. ASSUME NEW n
      PROVE  /\ KeyFromBytes(B(n, {"legacy32"})).form = "legacy32"
             /\ KeyFromBytes(B(n, {"legacy32"})).secret = n
  <2>1. B(n, {"legacy32"}).reads = {"legacy32"} /\ B(n, {"legacy32"}).name = n
    BY <1>2
  <2> QED BY <2>1, LegacyKeys, Zenon
<1>5. ASSUME NEW n
      PROVE  /\ KeyFromBytes(B(n, {"legacy64"})).form = "legacy64"
             /\ KeyFromBytes(B(n, {"legacy64"})).secret = n
  <2>1. B(n, {"legacy64"}).reads = {"legacy64"} /\ B(n, {"legacy64"}).name = n
    BY <1>2
  <2> QED BY <2>1, LegacyKeys, Zenon
<1> QED BY <1>1, <1>3, <1>4, <1>5, Zenon

(* Behind the ranges of validate no multiplication and no limit of Argon2  *)
(* is left to fail.                                                        *)
LEMMA RangesSuffice ==
  ASSUME NEW k, InRange(k), k.kind = "argon2id"
  PROVE  ~ k.memory_mib > MaxMultiplicand /\ ParamsFit(k)
<1> DEFINE t == k.iterations
           m == k.memory_mib
           p == k.parallelism
<1>1. t \in 2 .. 10 /\ m \in 16 .. 1024 /\ p \in 1 .. 16
  BY SMT DEF InRange, ARGON2ID_PRELOGIN_MIN_ITERATIONS, ARGON2ID_PRELOGIN_MAX_ITERATIONS,
             ARGON2ID_PRELOGIN_MIN_MEMORY_MIB, ARGON2ID_PRELOGIN_MAX_MEMORY_MIB,
             ARGON2ID_PRELOGIN_MIN_PARALLELISM, ARGON2ID_PRELOGIN_MAX_PARALLELISM
<1> HIDE DEF t, m, p
<1>2. ~ m > MaxMultiplicand
  BY <1>1, SMT DEF MaxMultiplicand
<1>3. m * 1024 >= 8 /\ m * 1024 >= 8 * p /\ t >= 1 /\ p >= 1 /\ p <= 16777215
  BY <1>1, SMT
<1>4. ParamsFit(k)
  BY <1>3, SMT DEF ParamsFit, t, m, p
<1> QED BY <1>2, <1>4 DEF m

(* Argon2's steps are only taken for Argon2's parameters. *)
KdfIInv ==
  /\ KdfTypeOK
  /\ RefusedByRangeOrLength
  /\ dpc \in {"multiply", "params"} => cred.kdf.kind = "argon2id"

LEMMA KdfInitIInv == KdfInit => KdfIInv
<1>1. 0 \in 0 .. MaxDerivations
  BY KdfAssumption
<1> QED BY <1>1, KeyForms DEF KdfInit, KdfIInv, KdfTypeOK, RefusedByRangeOrLength

LEMMA KdfStepIInv == KdfIInv /\ [KdfNext]_kdfVars => KdfIInv'
<1> SUFFICES ASSUME KdfIInv, [KdfNext]_kdfVars PROVE KdfIInv'
  OBVIOUS
<1> DEFINE masters == {KeyOf(c) : c \in {d \in typed : Accepted(d)}}
           stretcheds == {StretchedKey(KeyOf(c)) : c \in {d \in typed : Accepted(d)}}
<1>a. \A k \in masters : StretchedKey(k) \in stretcheds
  OBVIOUS
<1>b. cred \in typed /\ Accepted(cred) => KeyOf(cred) \in masters
  OBVIOUS
<1>c. typed' = typed => masters' = masters /\ stretcheds' = stretcheds
  OBVIOUS
<1>d. typed \subseteq typed' => masters \subseteq masters' /\ stretcheds \subseteq stretcheds'
  OBVIOUS
<1>e. /\ KdfTypeOK <=>
          /\ dpc \in {"idle", "validate", "multiply", "params", "hash", "done", "refused"}
          /\ typed \subseteq Credentials
          /\ cred \in typed \cup {NoCredential}
          /\ dpc # "idle" => cred \in typed
          /\ master \in {NoKey} \cup masters /\ stretched \in {NoKey} \cup stretcheds
          /\ derivations \in 0 .. MaxDerivations
      /\ KdfTypeOK' <=>
          /\ dpc' \in {"idle", "validate", "multiply", "params", "hash", "done", "refused"}
          /\ typed' \subseteq Credentials
          /\ cred' \in typed' \cup {NoCredential}
          /\ dpc' # "idle" => cred' \in typed'
          /\ master' \in {NoKey} \cup masters' /\ stretched' \in {NoKey} \cup stretcheds'
          /\ derivations' \in 0 .. MaxDerivations
  BY DEF KdfTypeOK
<1> HIDE DEF masters, stretcheds
<1> USE DEF KdfIInv, RefusedByRangeOrLength
<1>1. ASSUME NEW c \in Credentials, Derive(c) PROVE KdfIInv'
  BY <1>1, <1>d, <1>e, KdfAssumption DEF Derive
<1>2. CASE Validate
  BY <1>2, <1>c, <1>e DEF Validate, Goto
<1>3. CASE Multiply
  BY <1>3, <1>c, <1>e, RangesSuffice DEF Multiply, Goto
<1>4. CASE BuildParams
  BY <1>4, <1>c, <1>e, RangesSuffice DEF BuildParams, Goto
<1>5. CASE Hash
  <2>1. InRange(cred.kdf) /\ cred \in typed
    BY <1>5, <1>e DEF Hash
  <2>2. CASE ~ HashTakes(cred) /\ Goto("refused")
    BY <1>c, <1>e, <2>1, <2>2 DEF Goto, HashTakes
  <2>3. CASE HashTakes(cred) /\ Return(KeyOf(cred))
    BY <1>b, <1>c, <1>e, <2>1, <2>3, KeyForms DEF Return, HashTakes, Accepted, StretchFault
  <2> QED BY <1>5, <2>2, <2>3 DEF Hash
<1>6. CASE Stretch
  <2>1. master \in masters /\ stretched'.form = "legacy64"
    BY <1>6, <1>e, KeyForms DEF Stretch
  <2> QED BY <1>6, <1>a, <1>c, <1>e, <2>1 DEF Stretch
<1>7. CASE UNCHANGED kdfVars
  BY <1>7, <1>c, <1>e DEF kdfVars
<1> QED BY <1>1, <1>2, <1>3, <1>4, <1>5, <1>6, <1>7 DEF KdfNext, KdfStep

(* derive_master_key and stretch_key, however often and in whatever order  *)
(* they are called: a key in hand is that of credentials which were typed  *)
(* and which passed every check, never one of a refused derivation.        *)
THEOREM KdfTypeCorrect == KdfSpec => []KdfTypeOK
<1>1. KdfIInv => KdfTypeOK
  BY DEF KdfIInv
<1> QED BY <1>1, KdfInitIInv, KdfStepIInv, PTL DEF KdfSpec

(* derive_master_key refuses parameters out of validate's ranges, passwords *)
(* too long for argon2, and nothing else, whatever the server sends:       *)
(* checked_mul and Params::new never fail behind validate, of              *)
(* hash_password_into's errors only the one about the password is left,    *)
(* and every derived key can be stretched.                                 *)
THEOREM RangesDecide == KdfSpec => []RefusedByRangeOrLength
<1>1. KdfIInv => RefusedByRangeOrLength
  BY DEF KdfIInv
<1> QED BY <1>1, KdfInitIInv, KdfStepIInv, PTL DEF KdfSpec

-----------------------------------------------------------------------------
(* What the parts of a vault are opened with. *)

(* The secret of a key is what its bytes are called.                       *)
LEMMA SecretOfKey ==
  ASSUME NEW c, KeyIn(c) # NoKey
  PROVE  KeyIn(c).secret = c.body.name
BY DEF KeyIn, KeyFromBytes, KeyFromRawCose

LEMMA PrivateKeyOpened ==
  ASSUME NEW c, NEW k, PrivateKeyFault(c, k) = "none"
  PROVE  Authentic(c, k) /\ FormatOf(c) \in {"untyped", "pkcs8"}
<1> DEFINE F == PayloadFault(c, k)
           C1 == F # "none"
           C2 == FormatOf(c) \notin {"untyped", "pkcs8"}
           C3 == "rsa" \notin c.body.reads
           checks == << <<C1, F>>, <<C2, "UnsupportedEncryptionType">>, <<C3, "InvalidPrivateKey">> >>
<1>1. F # "ok" /\ (C1 => F # "none")
  BY PayloadOpened
<1>2. FirstFault(checks) = "none"
  BY DEF PrivateKeyFault
<1> HIDE DEF F, C1, C2, C3
<1>3. Len(checks) = 3
  OBVIOUS
<1>4. \A i \in 1 .. 3 : checks[i][1] => checks[i][2] \notin {"none", "ok"}
  BY <1>1
<1>5. \A i \in 1 .. 3 : ~ checks[i][1]
  <2> HIDE DEF checks
  <2> QED BY <1>2, <1>3, <1>4, Checked
<1>6. ~ C1 /\ ~ C2
  BY <1>5
<1> QED BY <1>6, PayloadOpened DEF C1, C2, F

LEMMA OrganizationKeyOpened ==
  ASSUME NEW c, NEW p, OrganizationKeyFault(c, p) = "none"
  PROVE  /\ c.to = p /\ "altered" \notin c.defects
         /\ KeyFromBytes(c.body).secret = c.body.name
<1> DEFINE C1 == c.to # p \/ c.digest # DigestOf(c.type) \/ "altered" \in c.defects
           C2 == KeyFromBytes(c.body) = NoKey
           checks == << <<C1, "DecryptionFailed">>, <<C2, "InvalidKeyLength">> >>
<1>1. FirstFault(checks) = "none"
  BY DEF OrganizationKeyFault
<1> HIDE DEF C1, C2
<1>2. Len(checks) = 2
  OBVIOUS
<1>3. \A i \in 1 .. 2 : checks[i][2] \notin {"none", "ok"}
  OBVIOUS
<1>4. \A i \in 1 .. 2 : ~ checks[i][1]
  <2> HIDE DEF checks
  <2> QED BY <1>1, <1>2, <1>3, Checked
<1>5. ~ C1 /\ ~ C2
  BY <1>4
<1>6. KeyFromBytes(c.body) # NoKey => KeyFromBytes(c.body).secret = c.body.name
  BY DEF KeyFromBytes
<1> QED BY <1>5, <1>6 DEF C1, C2

(* Without repeated names, every text is the one of its field. *)
LEMMA TextsHold ==
  ASSUME NEW it, NEW ks, Len(it.fields) \in Nat, Opens(it, ks)
  PROVE  HoldsFields(it, Texts(it), Len(it.fields))
<1> DEFINE n == Len(it.fields)
           name(j) == it.fields[j].name
<1>1. \A i, j \in 1 .. n : name(i) = name(j) => i = j
  <2> SUFFICES ASSUME NEW i \in 1 .. n, NEW j \in 1 .. n, name(i) = name(j), i < j PROVE FALSE
    OBVIOUS
  <2>1. i \in 1 .. j - 1
    OBVIOUS
  <2> QED BY <2>1 DEF Opens, Faulty, Repeated
<1>2. ASSUME NEW i \in 1 .. n
      PROVE  Texts(it)[name(i)] = it.fields[i].value.body
  <2> DEFINE j == CHOOSE h \in 1 .. n : name(h) = name(i)
  <2>1. j \in 1 .. n /\ name(j) = name(i)
    OBVIOUS
  <2>2. j = i
    <3> HIDE DEF j
    <3> QED BY <2>1, <1>1
  <2>3. Texts(it)[name(i)] = it.fields[j].value.body
    BY DEF Texts
  <2> QED BY <2>2, <2>3
<1>3. DOMAIN Texts(it) = {name(i) : i \in 1 .. n}
  BY DEF Texts
<1> QED BY <1>2, <1>3 DEF HoldsFields

(* An opened item's texts lie one or two seals below the key ring.         *)
LEMMA ItemOpened ==
  ASSUME NEW it, NEW ks, Opens(it, ks), NEW j \in 1 .. Len(it.fields)
  PROVE  LET k == WrappingKey(it, ks)
             v == it.fields[j].value
         IN \/ it.itemKey = NoItemKey /\ v.by = k.secret
            \/ /\ it.itemKey # NoItemKey
               /\ it.itemKey.by = k.secret /\ v.by = it.itemKey.body.name
<1> DEFINE k == WrappingKey(it, ks)
           v == it.fields[j].value
<1>1. FieldFault(v, FieldKey(it, ks)) = "none"
  BY DEF Opens, Faulty, FieldFaultAt
<1>2. v.by = FieldKey(it, ks).secret
  BY <1>1, FieldOpened DEF Authentic
<1>3. CASE it.itemKey = NoItemKey
  BY <1>2, <1>3 DEF FieldKey
<1>4. CASE it.itemKey # NoItemKey
  <2>1. KeyFault(it.itemKey, k) = "none"
    BY <1>4 DEF Opens, HasFieldKey
  <2>2. it.itemKey.by = k.secret /\ KeyIn(it.itemKey).secret = it.itemKey.body.name
    BY <2>1, KeyOpened DEF Authentic
  <2>3. FieldKey(it, ks) = KeyIn(it.itemKey)
    BY <1>4 DEF FieldKey
  <2> QED BY <1>2, <1>4, <2>2, <2>3
<1> QED BY <1>3, <1>4

-----------------------------------------------------------------------------
(* Each slot holds what lies sealed for it in this vault, or nothing: what *)
(* the proofs below need to know of the assignments to the slots.          *)
SlotsHold ==
  /\ vault \in Vaults
  /\ account \in {NoKey, KeyIn(vault.accountKey)}
  /\ private \in {NoPrivate, vault.privateKey.body.name}
  /\ DOMAIN orgs \subseteq DOMAIN vault.orgKeys
  /\ \A o \in DOMAIN orgs : orgs[o] = KeyFromBytes(vault.orgKeys[o].body)
  /\ DOMAIN opened \subseteq DOMAIN vault.items
  /\ \A i \in DOMAIN opened : HoldsFields(vault.items[i], opened[i], Len(vault.items[i].fields))

(* The inductive invariant of a session: the keys of Kdf and those slots.  *)
IInv == KdfIInv /\ SlotsHold

LEMMA InitIInv == Init => IInv
BY KdfInitIInv DEF Init, IInv, SlotsHold

LEMMA StepIInv == IInv /\ [Next]_unlockVars => IInv'
<1> SUFFICES ASSUME IInv, [Next]_unlockVars PROVE IInv'
  OBVIOUS
<1>1. ASSUME NEW c \in Credentials, Type(c) PROVE IInv'
  <2>1. KdfIInv'
    BY <1>1, KdfStepIInv DEF Type, KdfNext, IInv
  <2> QED BY <1>1, <2>1 DEF Type, handVars, IInv, SlotsHold
<1>2. CASE Compute
  <2>1. KdfIInv'
    BY <1>2, KdfStepIInv DEF Compute, KdfNext, IInv
  <2> QED BY <1>2, <2>1 DEF Compute, handVars, IInv, SlotsHold
<1>3. UNCHANGED kdfVars => KdfIInv'
  BY KdfStepIInv DEF IInv
<1>4. CASE DecryptAccountKey
  BY <1>3, <1>4 DEF DecryptAccountKey, IInv, SlotsHold
<1>5. CASE DecryptPrivateKey
  BY <1>3, <1>5 DEF DecryptPrivateKey, IInv, SlotsHold
<1>6. ASSUME NEW o \in OrgIds, DecryptOrganizationKey(o) PROVE IInv'
  BY <1>3, <1>6 DEF DecryptOrganizationKey, Put, IInv, SlotsHold
<1>7. ASSUME NEW i \in ItemIds, DecryptItem(i) PROVE IInv'
  <2>1. CASE opened' = opened
    BY <1>3, <1>7, <2>1 DEF DecryptItem, IInv, SlotsHold
  <2>2. CASE Opens(vault.items[i], KeyRing) /\ opened' = Put(opened, i, Texts(vault.items[i]))
    <3>1. HoldsFields(vault.items[i], Texts(vault.items[i]), Len(vault.items[i].fields))
      BY <1>7, <2>2, TextsHold, VaultsAssumption DEF DecryptItem, IInv, SlotsHold
    <3> QED BY <1>3, <1>7, <2>2, <3>1 DEF DecryptItem, Put, IInv, SlotsHold
  <2> QED BY <1>7, <2>1, <2>2 DEF DecryptItem
<1>8. CASE UNCHANGED unlockVars
  BY <1>3, <1>8 DEF unlockVars, handVars, IInv, SlotsHold
<1> QED BY <1>1, <1>2, <1>4, <1>5, <1>6, <1>7, <1>8 DEF Next

-----------------------------------------------------------------------------
(* Genuineness: what is in hand leads up to the owner's password. *)

(* A stretched key is that of credentials which were typed and accepted.   *)
LEMMA StretchedOfTyped ==
  ASSUME IInv, stretched.form # "none"
  PROVE  /\ stretched.form = "legacy64"
         /\ \E c \in typed :
              /\ c \in Credentials /\ Accepted(c) /\ stretched = StretchedKey(KeyOf(c))
              /\ stretched.secret = Stretched[Derived[<<c.password, Normalized[c.salt], c.kdf>>]]
<1>1. stretched.form = "legacy64" /\ stretched # NoKey
  BY KeyForms DEF IInv, KdfIInv, RefusedByRangeOrLength
<1>2. PICK c \in typed : Accepted(c) /\ stretched = StretchedKey(KeyOf(c))
  BY <1>1 DEF IInv, KdfIInv, KdfTypeOK
<1>3. c \in Credentials
  BY <1>2 DEF IInv, KdfIInv, KdfTypeOK
<1> QED BY <1>1, <1>2, <1>3, KeyForms

(* The hashes being injective, the account key opens with nothing but what *)
(* the owner types.                                                        *)
LEMMA OwnerOpens ==
  ASSUME IInv, DecryptAccountKey, KeyFault(vault.accountKey, stretched) = "none"
  PROVE  /\ vault.accountKey.by = OwnerSecret(vault)
         /\ \E c \in typed : Right(c) /\ Accepted(c) /\ stretched = StretchedKey(KeyOf(c))
<1>1. PICK c \in typed :
        /\ c \in Credentials /\ Accepted(c) /\ stretched = StretchedKey(KeyOf(c))
        /\ stretched.secret = Stretched[Derived[<<c.password, Normalized[c.salt], c.kdf>>]]
  BY StretchedOfTyped DEF DecryptAccountKey
<1> DEFINE x == <<c.password, Normalized[c.salt], c.kdf>>
           y == <<vault.owner.password, vault.owner.salt, vault.owner.kdf>>
<1>2. vault \in Vaults /\ vault.accountKey.by = Stretched[Derived[x]]
  BY <1>1, KeyOpened DEF Authentic, IInv, SlotsHold
<1>3. x \in DOMAIN Derived /\ Derived[x] \in DOMAIN Stretched
  BY <1>1, KdfAssumption
<1>4. /\ y \in DOMAIN Derived /\ Derived[y] \in DOMAIN Stretched
      /\ vault.accountKey.by = Stretched[Derived[y]]
  BY <1>2, <1>3, VaultsAssumption DEF OwnerSecret
<1> HIDE DEF x, y
<1>5. x = y
  BY <1>2, <1>3, <1>4, VaultsAssumption
<1>6. Right(c)
  BY <1>1, <1>5, KdfAssumption DEF x, y, Right
<1> QED BY <1>1, <1>4, <1>6 DEF y, OwnerSecret

(* An item is decrypted with the keys its vault prescribes.                *)
LEMMA RingInHand ==
  ASSUME IInv, account.form # "none",
         NEW i \in DOMAIN vault.items, HasWrappingKey(vault.items[i], KeyRing)
  PROVE  /\ WrappingKey(vault.items[i], KeyRing) = WrappingKey(vault.items[i], RingOf(vault))
         /\ FieldKey(vault.items[i], KeyRing) = FieldKey(vault.items[i], RingOf(vault))
<1>1. account = KeyIn(vault.accountKey)
  BY KeyForms DEF IInv, SlotsHold
<1>2. \A o \in DOMAIN orgs : o \in DOMAIN vault.orgKeys /\ orgs[o] = KeyFromBytes(vault.orgKeys[o].body)
  BY DEF IInv, SlotsHold
<1>3. /\ KeyRing.account = account /\ KeyRing.orgs = orgs
      /\ RingOf(vault).account = KeyIn(vault.accountKey)
      /\ \A o \in DOMAIN vault.orgKeys : RingOf(vault).orgs[o] = KeyFromBytes(vault.orgKeys[o].body)
  BY DEF KeyRing, RingOf
<1>4. WrappingKey(vault.items[i], KeyRing) = WrappingKey(vault.items[i], RingOf(vault))
  BY <1>1, <1>2, <1>3 DEF HasWrappingKey, WrappingKey
<1> QED BY <1>4 DEF FieldKey

LEMMA StepGenuine == IInv /\ OnlyGenuineOpens /\ [Next]_unlockVars => OnlyGenuineOpens'
<1> SUFFICES ASSUME IInv, OnlyGenuineOpens, [Next]_unlockVars PROVE OnlyGenuineOpens'
  OBVIOUS
<1>1. CASE UNCHANGED handVars
  BY <1>1 DEF handVars, OnlyGenuineOpens
<1>2. CASE DecryptAccountKey
  <2>1. CASE account' = account
    BY <1>2, <2>1 DEF DecryptAccountKey, OnlyGenuineOpens
  <2>2. CASE KeyFault(vault.accountKey, stretched) = "none" /\ account' = KeyIn(vault.accountKey)
    <3>1. vault.accountKey.by = OwnerSecret(vault)
      BY <1>2, <2>2, OwnerOpens
    <3>2. /\ account' # NoKey /\ "altered" \notin vault.accountKey.defects
          /\ FormatOf(vault.accountKey) \notin {"padded_utf8", "pkcs8"}
      BY <2>2, KeyOpened DEF Authentic
    <3> QED BY <1>2, <3>1, <3>2 DEF DecryptAccountKey, OnlyGenuineOpens
  <2> QED BY <1>2, <2>1, <2>2 DEF DecryptAccountKey
<1>3. CASE DecryptPrivateKey
  <2>1. CASE private' = private
    BY <1>3, <2>1 DEF DecryptPrivateKey, OnlyGenuineOpens
  <2>2. CASE PrivateKeyFault(vault.privateKey, account) = "none"
    <3>1. account # NoKey /\ account = KeyIn(vault.accountKey)
      BY <1>3, KeyForms DEF DecryptPrivateKey, IInv, SlotsHold
    <3>2. account.secret = vault.accountKey.body.name
      BY <3>1, SecretOfKey
    <3>3. /\ vault.privateKey.by = vault.accountKey.body.name
          /\ "altered" \notin vault.privateKey.defects
          /\ FormatOf(vault.privateKey) \notin {"padded_utf8", "legacy_key", "cose_key"}
      BY <2>2, <3>2, PrivateKeyOpened DEF Authentic
    <3>4. private # NoPrivate => private' = private
      BY <1>3, <2>2 DEF DecryptPrivateKey, IInv, SlotsHold
    <3>5. UNCHANGED <<vault, account, orgs, opened>>
      BY <1>3 DEF DecryptPrivateKey
    <3> QED BY <3>1, <3>3, <3>4, <3>5 DEF OnlyGenuineOpens
  <2> QED BY <1>3, <2>1, <2>2 DEF DecryptPrivateKey
<1>4. ASSUME NEW o \in OrgIds, DecryptOrganizationKey(o) PROVE OnlyGenuineOpens'
  <2> DEFINE c == vault.orgKeys[o]
  <2>1. CASE orgs' = orgs
    BY <1>4, <2>1 DEF DecryptOrganizationKey, OnlyGenuineOpens
  <2>2. CASE OrganizationKeyFault(c, private) = "none" /\ orgs' = Put(orgs, o, KeyFromBytes(c.body))
    <3>1. c.to = private /\ "altered" \notin c.defects
      BY <2>2, OrganizationKeyOpened
    <3>2. private # NoPrivate /\ private = vault.privateKey.body.name
      BY <1>4 DEF DecryptOrganizationKey, IInv, SlotsHold
    <3>3. DOMAIN orgs' = DOMAIN orgs \cup {o}
      BY <2>2 DEF Put
    <3> QED BY <1>4, <3>1, <3>2, <3>3 DEF DecryptOrganizationKey, OnlyGenuineOpens
  <2> QED BY <1>4, <2>1, <2>2 DEF DecryptOrganizationKey
<1>5. ASSUME NEW i \in ItemIds, DecryptItem(i) PROVE OnlyGenuineOpens'
  <2> DEFINE it == vault.items[i]
  <2>1. CASE opened' = opened
    BY <1>5, <2>1 DEF DecryptItem, OnlyGenuineOpens
  <2>2. CASE Opens(it, KeyRing) /\ opened' = Put(opened, i, Texts(it))
    <3>1. account.form # "none" /\ account # NoKey /\ i \in DOMAIN vault.items
      BY <1>5, KeyForms DEF DecryptItem
    <3>2. HasWrappingKey(it, KeyRing)
      BY <2>2 DEF Opens
    <3>3. it.org \in {NoOrg} \cup DOMAIN orgs
      BY <3>2 DEF HasWrappingKey, KeyRing
    <3>4. SealedAlongItsKeys(it, RingOf(vault))
      BY <2>2, <3>1, <3>2, OpensSealed, RingInHand DEF SealedAlongItsKeys
    <3>5. DOMAIN opened' = DOMAIN opened \cup {i}
      BY <2>2 DEF Put
    <3>6. UNCHANGED <<vault, account, private, orgs>>
      BY <1>5 DEF DecryptItem
    <3> QED BY <3>1, <3>3, <3>4, <3>5, <3>6 DEF OnlyGenuineOpens
  <2> QED BY <1>5, <2>1, <2>2 DEF DecryptItem
<1>6. CASE UNCHANGED unlockVars
  BY <1>1, <1>6 DEF unlockVars
<1> QED BY <1>1, <1>2, <1>3, <1>4, <1>5, <1>6 DEF Next, Type, Compute

(* In every vault, however its parts were damaged, mixed up or exchanged,  *)
(* what is in hand was sealed by the owner's clients for this vault.       *)
THEOREM EverythingInHandIsGenuine == Spec => []OnlyGenuineOpens
<1>1. Init => OnlyGenuineOpens
  BY DEF Init, OnlyGenuineOpens
<1> QED BY <1>1, InitIInv, StepIInv, StepGenuine, PTL DEF Spec

(* No call yields an account key unless the owner's credentials were typed *)
(* and accepted in this session and their stretched key is the one it is   *)
(* made with, whatever other keys earlier derivations left.                *)
THEOREM OnlyTheOwner == Spec => OnlyTheOwnerGetsIn
<1> DEFINE Owned == \E c \in typed : Right(c) /\ Accepted(c) /\ stretched = StretchedKey(KeyOf(c))
<1>1. IInv /\ [Next]_unlockVars => [account' # account => Owned]_unlockVars
  <2> SUFFICES ASSUME IInv, Next, account' # account PROVE Owned
    OBVIOUS
  <2>1. DecryptAccountKey /\ KeyFault(vault.accountKey, stretched) = "none"
    BY DEF Next, Type, Compute, DecryptAccountKey, DecryptPrivateKey, DecryptOrganizationKey,
           DecryptItem, handVars
  <2> QED BY <2>1, OwnerOpens
<1> QED BY <1>1, InitIInv, StepIInv, PTL DEF Spec, OnlyTheOwnerGetsIn

-----------------------------------------------------------------------------
(* Failures: what is sealed as it should be opens with the right key. *)

LEMMA SealedOpens ==
  ASSUME NEW c, NEW k, SealedWith(c, k), FormatOf(c) \notin {"absent", "unknown"}
  PROVE  PayloadFault(c, k) = "none"
<1>1. Authentic(c, k) /\ c.defects = {}
  BY DEF SealedWith, Authentic
<1>2. CASE c.scheme = "aes"
  BY <1>1, <1>2, AesOpens DEF SealedWith, PayloadFault
<1>3. CASE c.scheme # "aes"
  BY <1>1, <1>3, CoseOpens DEF SealedWith, PayloadFault, FormatOf
<1> QED BY <1>2, <1>3

LEMMA SealedKeyOpens ==
  ASSUME NEW c, NEW k, SealedWith(c, k), HoldsKey(c)
  PROVE  KeyFault(c, k) = "none"
BY SealedOpens, KeyOpens DEF HoldsKey

LEMMA SealedTextOpens ==
  ASSUME NEW c, NEW k, SealedWith(c, k), HoldsText(c)
  PROVE  FieldFault(c, k) = "none"
BY SealedOpens, FieldOpens DEF HoldsText

LEMMA SealedPrivateKeyOpens ==
  ASSUME NEW c, NEW k, SealedWith(c, k), HoldsPrivateKey(c)
  PROVE  PrivateKeyFault(c, k) = "none"
<1> DEFINE F == PayloadFault(c, k)
           C1 == F # "none"
           C2 == FormatOf(c) \notin {"untyped", "pkcs8"}
           C3 == "rsa" \notin c.body.reads
           checks == << <<C1, F>>, <<C2, "UnsupportedEncryptionType">>, <<C3, "InvalidPrivateKey">> >>
<1>1. PrivateKeyFault(c, k) = FirstFault(checks)
  BY DEF PrivateKeyFault
<1>2. ~ C1 /\ ~ C2 /\ ~ C3
  BY SealedOpens DEF HoldsPrivateKey
<1> HIDE DEF F, C1, C2, C3
<1>3. Len(checks) = 3 /\ \A i \in 1 .. 3 : ~ checks[i][1]
  BY <1>2
<1> HIDE DEF checks
<1> QED BY <1>1, <1>3, NoneFails

LEMMA SoundOrganizationKeyOpens ==
  ASSUME NEW v, NEW o, SoundOrgKey(v, o)
  PROVE  OrganizationKeyFault(v.orgKeys[o], v.privateKey.body.name) = "none"
<1> DEFINE c == v.orgKeys[o]
           p == v.privateKey.body.name
           C1 == c.to # p \/ c.digest # DigestOf(c.type) \/ "altered" \in c.defects
           C2 == KeyFromBytes(c.body) = NoKey
           checks == << <<C1, "DecryptionFailed">>, <<C2, "InvalidKeyLength">> >>
<1>1. OrganizationKeyFault(c, p) = FirstFault(checks)
  BY DEF OrganizationKeyFault
<1>2. ~ C1 /\ ~ C2
  BY DEF SoundOrgKey, DigestOf
<1> HIDE DEF C1, C2
<1>3. Len(checks) = 2 /\ \A i \in 1 .. 2 : ~ checks[i][1]
  BY <1>2
<1> HIDE DEF checks, c, p
<1>4. OrganizationKeyFault(c, p) = "none"
  BY <1>1, <1>3, NoneFails
<1> QED BY <1>4 DEF c, p

(* The account key, with the owner's or with other credentials.            *)
LEMMA SoundAccountKeyOpens ==
  ASSUME IInv, stretched.form # "none", SoundAccountKey(vault)
  PROVE  \/ KeyFault(vault.accountKey, stretched) = "none"
         \/ /\ KeyFault(vault.accountKey, stretched) = "AuthenticationFailed"
            /\ \E c \in typed : ~ Right(c) /\ stretched = StretchedKey(KeyOf(c))
<1> DEFINE a == vault.accountKey
<1>1. /\ a.scheme = "aes" /\ a.by = OwnerSecret(vault) /\ a.defects = {}
      /\ HoldsKey(a) /\ FormatOf(a) = "untyped"
  BY DEF SoundAccountKey, SealedWith, OwnerKey, FormatOf
<1>2. stretched.form = "legacy64"
  BY StretchedOfTyped
<1>3. CASE stretched.secret = OwnerSecret(vault)
  <2>1. SealedWith(a, stretched)
    BY <1>1, <1>2, <1>3 DEF SealedWith
  <2> QED BY <1>1, <2>1, SealedKeyOpens
<1>4. CASE stretched.secret # OwnerSecret(vault)
  <2>1. ~ Authentic(a, stretched)
    BY <1>1, <1>4 DEF Authentic
  <2>2. PayloadFault(a, stretched) = "AuthenticationFailed"
    BY <1>1, <1>2, <2>1, WrongAesKey DEF PayloadFault
  <2>3. PICK c \in typed :
          /\ stretched = StretchedKey(KeyOf(c))
          /\ stretched.secret = Stretched[Derived[<<c.password, Normalized[c.salt], c.kdf>>]]
    BY StretchedOfTyped
  <2>4. ~ Right(c)
    BY <1>4, <2>3 DEF Right, OwnerSecret
  <2> QED BY <2>2, <2>3, <2>4, KeyFaultOfPayload
<1> QED BY <1>3, <1>4

LEMMA SoundItemOpens ==
  ASSUME IInv, account.form # "none", NEW i \in DOMAIN vault.items,
         SoundItem(vault, i), HasWrappingKey(vault.items[i], KeyRing)
  PROVE  Opens(vault.items[i], KeyRing)
<1> DEFINE it == vault.items[i]
<1>1. HasFieldKey(it, KeyRing)
  BY RingInHand, SealedKeyOpens DEF SoundItem, HasFieldKey
<1>2. ASSUME NEW j \in 1 .. Len(it.fields)
      PROVE  ~ Faulty(it, KeyRing, j)
  BY RingInHand, SealedTextOpens DEF SoundItem, Faulty, FieldFaultAt
<1> QED BY <1>1, <1>2 DEF Opens

(* An item that opens does not fail.                                       *)
LEMMA OpensOrFails ==
  ASSUME NEW it, NEW ks, NEW e, FailsWith(it, ks, e), HasWrappingKey(it, ks)
  PROVE  ~ Opens(it, ks)
BY DEF FailsWith, Opens

LEMMA StepReason == IInv /\ FailuresHaveAReason /\ [Next]_unlockVars => FailuresHaveAReason'
<1> SUFFICES ASSUME IInv, FailuresHaveAReason, [Next]_unlockVars PROVE FailuresHaveAReason'
  OBVIOUS
<1>1. ASSUME NEW c \in Credentials, Type(c) PROVE FailuresHaveAReason'
  BY <1>1 DEF Type, Called, FailuresHaveAReason
<1>2. CASE Compute
  <2>1. typed' = typed
    BY <1>2 DEF Compute, KdfStep, Validate, Multiply, BuildParams, Hash, Return, Stretch, Goto
  <2> QED BY <1>2, <2>1 DEF Compute, handVars, FailuresHaveAReason, Right
<1>3. CASE DecryptAccountKey
  <2>1. /\ last'.call = "account" /\ last'.error = KeyFault(vault.accountKey, stretched)
        /\ last'.of = stretched.secret
        /\ stretched.form # "none" /\ vault' = vault /\ typed' = typed
    BY <1>3 DEF DecryptAccountKey, Called, kdfVars
  <2> QED BY <2>1, SoundAccountKeyOpens DEF FailuresHaveAReason, Right
<1>4. CASE DecryptPrivateKey
  <2>1. /\ last'.call = "private" /\ last'.error = PrivateKeyFault(vault.privateKey, account)
        /\ vault' = vault
    BY <1>4 DEF DecryptPrivateKey, Called
  <2>2. account = KeyIn(vault.accountKey)
    BY <1>4, KeyForms DEF DecryptPrivateKey, IInv, SlotsHold
  <2> QED BY <2>1, <2>2, SealedPrivateKeyOpens DEF FailuresHaveAReason, SoundPrivateKey
<1>5. ASSUME NEW o \in OrgIds, DecryptOrganizationKey(o) PROVE FailuresHaveAReason'
  <2>1. /\ last'.call = "org" /\ last'.of = o
        /\ last'.error = OrganizationKeyFault(vault.orgKeys[o], private)
        /\ vault' = vault
    BY <1>5 DEF DecryptOrganizationKey, Called
  <2>2. private = vault.privateKey.body.name
    BY <1>5 DEF DecryptOrganizationKey, IInv, SlotsHold
  <2> QED BY <2>1, <2>2, SoundOrganizationKeyOpens DEF FailuresHaveAReason
<1>6. ASSUME NEW i \in ItemIds, DecryptItem(i) PROVE FailuresHaveAReason'
  <2>1. account.form # "none" /\ i \in DOMAIN vault.items /\ vault' = vault /\ orgs' = orgs
    BY <1>6 DEF DecryptItem
  <2>2. CASE Called("item", i, "none")
    BY <2>2 DEF Called, FailuresHaveAReason
  <2>3. ASSUME NEW e, FailsWith(vault.items[i], KeyRing, e), Called("item", i, e)
        PROVE  FailuresHaveAReason'
    <3>1. last'.call = "item" /\ last'.of = i /\ last'.error = e
      BY <2>3 DEF Called
    <3>2. CASE HasWrappingKey(vault.items[i], KeyRing)
      BY <2>1, <2>3, <3>1, <3>2, OpensOrFails, SoundItemOpens DEF FailuresHaveAReason
    <3>3. CASE ~ HasWrappingKey(vault.items[i], KeyRing)
      <4>1. e = "MissingOrganizationKey"
        BY <2>3, <3>3 DEF FailsWith
      <4>2. vault.items[i].org \notin {NoOrg} \cup DOMAIN orgs
        BY <3>3 DEF HasWrappingKey, KeyRing
      <4> QED BY <2>1, <3>1, <4>1, <4>2 DEF FailuresHaveAReason
    <3> QED BY <3>2, <3>3
  <2> QED BY <1>6, <2>2, <2>3 DEF DecryptItem
<1>7. CASE UNCHANGED unlockVars
  BY <1>7 DEF unlockVars, kdfVars, handVars, FailuresHaveAReason, Right
<1> QED BY <1>1, <1>2, <1>3, <1>4, <1>5, <1>6, <1>7 DEF Next

(* In every vault and after any calls, a call that fails was made on a     *)
(* part that is itself unsound, with the wrong credentials, or before the  *)
(* item's organization key was there; the error tells these last two.      *)
THEOREM FailuresExplained == Spec => []FailuresHaveAReason
<1>1. Init => FailuresHaveAReason
  BY DEF Init, FailuresHaveAReason
<1> QED BY <1>1, InitIInv, StepIInv, StepReason, PTL DEF Spec

-----------------------------------------------------------------------------
(* The refinement of Access: one lemma per kind of step. *)

LEMMA InitRefines == Init => Hierarchy!Init
<1> SUFFICES ASSUME Init PROVE absKnown = {}
  BY DEF Hierarchy!Init
<1>1. SecretsOf(master) = {} /\ SecretsOf(stretched) = {} /\ SecretsOf(account) = {}
  BY KeyForms DEF Init, KdfInit, SecretsOf
<1>2. {private} \ {NoPrivate} = {} /\ DOMAIN orgs = {} /\ DOMAIN opened = {}
  BY DEF Init
<1>3. {orgs[o].secret : o \in DOMAIN orgs} = {}
  BY <1>2
<1>4. UNION {{opened[i][n].name : n \in DOMAIN opened[i]} : i \in DOMAIN opened} = {}
  BY <1>2
<1> QED BY <1>1, <1>2, <1>3, <1>4 DEF absKnown

(* Of the steps that leave the vault and what was opened in it alone, only *)
(* hashing and stretching add a secret.                                    *)
LEMMA KdfRefines ==
  ASSUME IInv, KdfNext, UNCHANGED handVars
  PROVE  [Hierarchy!Next]_(Hierarchy!absVars)
<1>1. absSeals' = absSeals
  BY DEF absSeals, handVars
<1> DEFINE rest == SecretsOf(account) \cup ({private} \ {NoPrivate})
                     \cup {orgs[o].secret : o \in DOMAIN orgs}
                     \cup UNION {{opened[i][n].name : n \in DOMAIN opened[i]} : i \in DOMAIN opened}
<1>2. rest' = rest
  BY DEF handVars
<1>3. absKnown = SecretsOf(master) \cup SecretsOf(stretched) \cup rest
  BY DEF absKnown
<1>4. absKnown' = SecretsOf(master') \cup SecretsOf(stretched') \cup rest
  BY <1>2 DEF absKnown, SecretsOf
<1> HIDE DEF rest
<1>5. SecretsOf(NoKey) = {}
  BY KeyForms DEF SecretsOf
<1>6. ASSUME NEW c \in Credentials, Derive(c)
      PROVE  UNCHANGED Hierarchy!absVars
  BY <1>1, <1>3, <1>4, <1>6 DEF Derive, Hierarchy!absVars
<1>7. CASE Validate \/ Multiply \/ BuildParams \/ UNCHANGED <<master, stretched>>
  BY <1>1, <1>3, <1>4, <1>7 DEF Validate, Multiply, BuildParams, Goto, Hierarchy!absVars
<1>8. CASE Hash /\ Return(KeyOf(cred))
  <2>1. KeyOf(cred).secret \in TypableSecrets
    BY <1>8, KeyForms, KdfAssumption DEF Hash, TypableSecrets, IInv, KdfIInv, KdfTypeOK
  <2>2. SecretsOf(master') = {KeyOf(cred).secret} /\ stretched' = stretched
    BY <1>8, KeyForms DEF Return, SecretsOf
  <2> QED BY <1>1, <1>3, <1>4, <2>1, <2>2 DEF Hierarchy!Next, Hierarchy!Enter, Hierarchy!New
<1>9. CASE Stretch
  <2>1. PICK c \in typed : master = KeyOf(c) /\ c \in Credentials
    BY <1>9, KeyForms DEF Stretch, IInv, KdfIInv, KdfTypeOK
  <2>2. master.secret \in DOMAIN Stretched
    BY <2>1, KeyForms, KdfAssumption
  <2>3. /\ stretched' = StretchedKey(master) /\ master' = master
        /\ SecretsOf(stretched') = {Stretched[master.secret]}
        /\ SecretsOf(master) = {master.secret}
    BY <1>9, KeyForms DEF Stretch, SecretsOf
  <2>4. <<master.secret, Stretched[master.secret]>> \in absSeals
    BY <2>2 DEF absSeals
  <2>5. Stretched[master.secret] \in Hierarchy!Below(absKnown)
    BY <1>3, <2>3, <2>4 DEF Hierarchy!Below
  <2> QED BY <1>1, <1>3, <1>4, <2>3, <2>5 DEF Hierarchy!Next, Hierarchy!Learn, Hierarchy!New
<1>10. Hash => Return(KeyOf(cred)) \/ UNCHANGED <<master, stretched>>
  BY DEF Hash, Goto
<1> QED BY <1>6, <1>7, <1>8, <1>9, <1>10 DEF KdfNext, KdfStep

(* Opening something sealed under a secret in hand is a Learn.             *)
LEMMA LearnOne ==
  ASSUME UNCHANGED vault,
         NEW s \in absKnown, NEW x, <<s, x>> \in absSeals,
         absKnown' \subseteq absKnown \cup {x}
  PROVE  Hierarchy!Next
<1>1. absSeals' = absSeals
  BY DEF absSeals
<1>2. x \in Hierarchy!Below(absKnown)
  BY DEF Hierarchy!Below
<1> QED BY <1>1, <1>2 DEF Hierarchy!Next, Hierarchy!Learn, Hierarchy!New

LEMMA AccountKeyRefines ==
  ASSUME IInv, DecryptAccountKey
  PROVE  [Hierarchy!Next]_(Hierarchy!absVars)
<1> DEFINE c == vault.accountKey
<1>1. UNCHANGED <<master, stretched, vault, private, orgs, opened>>
  BY DEF DecryptAccountKey, kdfVars
<1>2. CASE account' = account
  BY <1>1, <1>2 DEF absKnown, absSeals, SecretsOf, Hierarchy!absVars
<1>3. CASE KeyFault(c, stretched) = "none" /\ account' = KeyIn(c)
  <2>1. c.by = stretched.secret /\ KeyIn(c).secret = c.body.name /\ KeyIn(c) # NoKey
    BY <1>3, KeyOpened DEF Authentic
  <2>2. stretched.secret \in absKnown
    BY DEF DecryptAccountKey, absKnown, SecretsOf
  <2>3. <<stretched.secret, c.body.name>> \in absSeals
    BY <2>1 DEF absSeals
  <2>4. SecretsOf(account) \subseteq SecretsOf(account')
    BY <1>3, KeyForms DEF IInv, SlotsHold, SecretsOf
  <2>5. SecretsOf(account') \subseteq {c.body.name}
    BY <1>3, <2>1 DEF SecretsOf
  <2>6. absKnown \subseteq absKnown' /\ absKnown' \subseteq absKnown \cup {c.body.name}
    BY <1>1, <2>4, <2>5 DEF absKnown, SecretsOf
  <2> QED BY <1>1, <2>2, <2>3, <2>6, LearnOne
<1> QED BY <1>2, <1>3 DEF DecryptAccountKey

LEMMA PrivateKeyRefines ==
  ASSUME IInv, DecryptPrivateKey
  PROVE  [Hierarchy!Next]_(Hierarchy!absVars)
<1> DEFINE c == vault.privateKey
<1>1. UNCHANGED <<master, stretched, vault, account, orgs, opened>>
  BY DEF DecryptPrivateKey, kdfVars
<1>2. CASE private' = private
  BY <1>1, <1>2 DEF absKnown, absSeals, SecretsOf, Hierarchy!absVars
<1>3. CASE PrivateKeyFault(c, account) = "none" /\ private' = c.body.name
  <2>1. c.by = account.secret
    BY <1>3, PrivateKeyOpened DEF Authentic
  <2>2. account.secret \in absKnown
    BY DEF DecryptPrivateKey, absKnown, SecretsOf
  <2>3. <<account.secret, c.body.name>> \in absSeals
    BY <2>1 DEF absSeals
  <2>4. private \in {NoPrivate, private'}
    BY <1>3 DEF IInv, SlotsHold
  <2>5. absKnown \subseteq absKnown' /\ absKnown' \subseteq absKnown \cup {c.body.name}
    BY <1>1, <1>3, <2>4 DEF absKnown, SecretsOf
  <2> QED BY <1>1, <2>2, <2>3, <2>5, LearnOne
<1> QED BY <1>2, <1>3 DEF DecryptPrivateKey

LEMMA OrganizationKeyRefines ==
  ASSUME IInv, NEW o, DecryptOrganizationKey(o)
  PROVE  [Hierarchy!Next]_(Hierarchy!absVars)
<1> DEFINE c == vault.orgKeys[o]
           secrets == {orgs[q].secret : q \in DOMAIN orgs}
<1>1. UNCHANGED <<master, stretched, vault, account, private, opened>>
  BY DEF DecryptOrganizationKey, kdfVars
<1>2. CASE orgs' = orgs
  BY <1>1, <1>2 DEF absKnown, absSeals, SecretsOf, Hierarchy!absVars
<1>3. CASE OrganizationKeyFault(c, private) = "none" /\ orgs' = Put(orgs, o, KeyFromBytes(c.body))
  <2>1. c.to = private /\ KeyFromBytes(c.body).secret = c.body.name
    BY <1>3, OrganizationKeyOpened
  <2>2. private \in absKnown
    BY DEF DecryptOrganizationKey, absKnown
  <2>3. <<private, c.body.name>> \in absSeals
    BY <2>1 DEF DecryptOrganizationKey, absSeals
  <2>4. DOMAIN orgs' = DOMAIN orgs \cup {o}
    BY <1>3 DEF Put
  <2>5. \A q \in DOMAIN orgs : orgs'[q] = orgs[q]
    BY <1>3 DEF Put, IInv, SlotsHold
  <2>6. orgs'[o].secret = c.body.name
    BY <1>3, <2>1 DEF Put
  <2>7. secrets \subseteq secrets' /\ secrets' \subseteq secrets \cup {c.body.name}
    BY <2>4, <2>5, <2>6
  <2>8. absKnown \subseteq absKnown' /\ absKnown' \subseteq absKnown \cup {c.body.name}
    <3> DEFINE rest == SecretsOf(master) \cup SecretsOf(stretched) \cup SecretsOf(account)
                         \cup ({private} \ {NoPrivate})
                         \cup UNION {{opened[i][n].name : n \in DOMAIN opened[i]} : i \in DOMAIN opened}
    <3>1. absKnown = rest \cup secrets
      BY DEF absKnown
    <3>2. absKnown' = rest \cup secrets'
      BY <1>1 DEF absKnown, SecretsOf
    <3> HIDE DEF rest, secrets
    <3> QED BY <2>7, <3>1, <3>2
  <2> QED BY <1>1, <2>2, <2>3, <2>8, LearnOne
<1> QED BY <1>2, <1>3 DEF DecryptOrganizationKey

(* The key a chain of an item starts from is in hand.                      *)
LEMMA WrappingKeyInHand ==
  ASSUME NEW it, HasWrappingKey(it, KeyRing), account.form # "none"
  PROVE  WrappingKey(it, KeyRing).secret \in absKnown
BY DEF HasWrappingKey, WrappingKey, KeyRing, absKnown, SecretsOf

(* What a map of texts names, and what the fields of an item name.         *)
NamesIn(fs) == {fs[n].name : n \in DOMAIN fs}
NamesSealed(it) == {it.fields[j].value.body.name : j \in 1 .. Len(it.fields)}

(* A map of texts that holds an item's fields names their texts and no     *)
(* others.                                                                 *)
LEMMA NamesHeld ==
  ASSUME NEW it, NEW fs, HoldsFields(it, fs, Len(it.fields))
  PROVE  NamesIn(fs) = NamesSealed(it)
<1> DEFINE J == 1 .. Len(it.fields)
           held == {fs[n].name : n \in DOMAIN fs}
           sealed == {it.fields[j].value.body.name : j \in J}
<1>1. DOMAIN fs = {it.fields[j].name : j \in J}
  BY DEF HoldsFields
<1>2. \A j \in J : fs[it.fields[j].name].name = it.fields[j].value.body.name
  BY DEF HoldsFields
<1> HIDE DEF J
<1>3. ASSUME NEW x \in held PROVE x \in sealed
  <2>1. PICK n \in DOMAIN fs : x = fs[n].name
    BY <1>3
  <2>2. PICK j \in J : n = it.fields[j].name
    BY <1>1, <2>1
  <2> QED BY <1>2, <2>1, <2>2
<1>4. ASSUME NEW x \in sealed PROVE x \in held
  <2>1. PICK j \in J : x = it.fields[j].value.body.name
    BY <1>4
  <2> QED BY <1>1, <1>2, <2>1
<1>5. held = sealed
  <2> HIDE DEF held, sealed
  <2> QED BY <1>3, <1>4
<1> QED BY <1>5 DEF J, NamesIn, NamesSealed

LEMMA ItemRefines ==
  ASSUME IInv, NEW i, DecryptItem(i)
  PROVE  [Hierarchy!Next]_(Hierarchy!absVars)
<1> DEFINE it == vault.items[i]
           texts == UNION {NamesIn(opened[h]) : h \in DOMAIN opened}
           new == NamesSealed(it)
           rest == SecretsOf(master) \cup SecretsOf(stretched) \cup SecretsOf(account)
                     \cup ({private} \ {NoPrivate}) \cup {orgs[o].secret : o \in DOMAIN orgs}
<1>1. UNCHANGED <<master, stretched, vault, account, private, orgs>> /\ i \in DOMAIN vault.items
  BY DEF DecryptItem, kdfVars
<1>2. CASE opened' = opened
  BY <1>1, <1>2 DEF absKnown, absSeals, SecretsOf, Hierarchy!absVars
<1>3. CASE Opens(it, KeyRing) /\ opened' = Put(opened, i, Texts(it))
  <2>1. HoldsFields(it, Texts(it), Len(it.fields))
    BY <1>1, <1>3, TextsHold, VaultsAssumption DEF IInv, SlotsHold
  <2>2. texts \subseteq texts' /\ texts' \subseteq texts \cup new
    <3>1. DOMAIN opened' = DOMAIN opened \cup {i} /\ opened'[i] = Texts(it)
      BY <1>3 DEF Put
    <3>2. \A h \in DOMAIN opened \ {i} : opened'[h] = opened[h]
      BY <1>3 DEF Put
    <3>3. NamesIn(Texts(it)) = new
      BY <2>1, NamesHeld
    <3>4. ASSUME i \in DOMAIN opened
          PROVE  NamesIn(opened[i]) = new
      <4>1. HoldsFields(it, opened[i], Len(it.fields))
        BY <3>4 DEF IInv, SlotsHold
      <4> QED BY <4>1, NamesHeld
    <3> HIDE DEF new
    <3> QED BY <3>1, <3>2, <3>3, <3>4
  <2>3. absKnown = rest \cup texts
    BY DEF absKnown, NamesIn
  <2>4. absKnown' = rest \cup texts'
    BY <1>1 DEF absKnown, SecretsOf, NamesIn
  <2>5. new \subseteq Hierarchy!Below(absKnown) \cup Hierarchy!Below(Hierarchy!Below(absKnown))
    <3> SUFFICES ASSUME NEW j \in 1 .. Len(it.fields)
                 PROVE  it.fields[j].value.body.name \in
                          Hierarchy!Below(absKnown) \cup Hierarchy!Below(Hierarchy!Below(absKnown))
      BY DEF NamesSealed
    <3> DEFINE v == it.fields[j].value
               k == WrappingKey(it, KeyRing)
    <3>1. k.secret \in absKnown
      BY <1>3, WrappingKeyInHand DEF Opens, DecryptItem
    <3>2. SealsOf(it) \subseteq absSeals
      BY <1>1 DEF absSeals
    <3>3. <<v.by, v.body.name>> \in absSeals
      BY <3>2 DEF SealsOf
    <3>4. it.itemKey # NoItemKey => <<it.itemKey.by, it.itemKey.body.name>> \in absSeals
      BY <3>2 DEF SealsOf
    <3>5. \/ v.by = k.secret
          \/ it.itemKey # NoItemKey /\ it.itemKey.by = k.secret /\ v.by = it.itemKey.body.name
      BY <1>3, ItemOpened
    <3>6. ASSUME NEW s, NEW x, NEW K, s \in K, <<s, x>> \in absSeals
          PROVE  x \in Hierarchy!Below(K)
      BY <3>6 DEF Hierarchy!Below
    <3> HIDE DEF v, k
    <3> QED BY <3>1, <3>3, <3>4, <3>5, <3>6 DEF v
  <2>6. absSeals' = absSeals
    BY <1>1 DEF absSeals
  <2> HIDE DEF rest, texts, new
  <2> QED BY <2>2, <2>3, <2>4, <2>5, <2>6 DEF Hierarchy!Next, Hierarchy!Learn, Hierarchy!New
<1> QED BY <1>2, <1>3 DEF DecryptItem

LEMMA StepRefines == IInv /\ [Next]_unlockVars => [Hierarchy!Next]_(Hierarchy!absVars)
<1> SUFFICES ASSUME IInv, [Next]_unlockVars PROVE [Hierarchy!Next]_(Hierarchy!absVars)
  OBVIOUS
<1>1. ASSUME NEW c \in Credentials, Type(c) PROVE [Hierarchy!Next]_(Hierarchy!absVars)
  BY <1>1, KdfRefines DEF Type, KdfNext
<1>2. CASE Compute
  BY <1>2, KdfRefines DEF Compute, KdfNext
<1>3. CASE UNCHANGED unlockVars
  BY <1>3 DEF unlockVars, kdfVars, handVars, absKnown, absSeals, SecretsOf, Hierarchy!absVars
<1> QED BY <1>1, <1>2, <1>3, AccountKeyRefines, PrivateKeyRefines, OrganizationKeyRefines,
           ItemRefines DEF Next

(* The functions of crypto.rs together implement Access: from a typed      *)
(* password on, every secret and every text in hand was sealed under       *)
(* something in hand before.  No wrong password, foreign string or damaged *)
(* part gets a caller anything that is not below what it holds.            *)
THEOREM SessionsImplementAccess == Spec => OnlyAlongSeals
<1> QED BY InitRefines, InitIInv, StepIInv, StepRefines, PTL
        DEF Spec, OnlyAlongSeals, Hierarchy!Spec

-----------------------------------------------------------------------------
(* What follows from the abstract specification alone. *)

LEMMA LearntStaysInside ==
  ASSUME NEW S, Hierarchy!Closed(S), absKnown \subseteq S,
         [Hierarchy!Next]_(Hierarchy!absVars)
  PROVE  Hierarchy!Closed(S)' /\ absKnown' \subseteq S
<1> DEFINE K == absKnown
           E == absSeals
<1>1. E' = E
  BY DEF Hierarchy!Next, Hierarchy!absVars
<1>2. Hierarchy!Closed(S)'
  <2> HIDE DEF E
  <2> QED BY <1>1 DEF Hierarchy!Closed, Hierarchy!Below, TypableSecrets, E
<1>3. \A T : T \subseteq S => Hierarchy!Below(T) \subseteq S
  BY DEF Hierarchy!Closed, Hierarchy!Below
<1>4. \A s \in TypableSecrets : s \in S
  BY DEF Hierarchy!Closed
<1>5. Hierarchy!Below(K) \subseteq S /\ Hierarchy!Below(Hierarchy!Below(K)) \subseteq S
  BY <1>3
<1>6. CASE UNCHANGED Hierarchy!absVars
  BY <1>2, <1>6 DEF Hierarchy!absVars
<1>7. CASE Hierarchy!Enter
  BY <1>2, <1>4, <1>7 DEF Hierarchy!Enter, Hierarchy!New
<1>8. CASE Hierarchy!Learn
  <2>1. K' \subseteq K \cup Hierarchy!Below(K) \cup Hierarchy!Below(Hierarchy!Below(K))
    BY <1>8 DEF Hierarchy!Learn, Hierarchy!New
  <2> HIDE DEF K
  <2>2. K \subseteq S
    BY DEF K
  <2>3. K' \subseteq S
    BY <1>5, <2>1, <2>2
  <2> QED BY <1>2, <2>3 DEF K
<1> QED BY <1>6, <1>7, <1>8 DEF Hierarchy!Next

(* What is out of reach stays there: if S has whatever hashing can give,   *)
(* and all that the vault seals under members of S lies in S, then no      *)
(* order of calls to crypto.rs, with any passwords, puts a secret or a     *)
(* text from outside S in hand.                                            *)
THEOREM NothingBeyondReach ==
  ASSUME NEW S
  PROVE  Spec /\ Hierarchy!Closed(S) => [](absKnown \subseteq S)
<1>1. Hierarchy!Init /\ Hierarchy!Closed(S) => Hierarchy!Closed(S) /\ absKnown \subseteq S
  BY DEF Hierarchy!Init
<1>2. /\ Hierarchy!Closed(S) /\ absKnown \subseteq S
      /\ [Hierarchy!Next]_(Hierarchy!absVars)
      => Hierarchy!Closed(S)' /\ (absKnown \subseteq S)'
  BY LearntStaysInside
<1> QED BY <1>1, <1>2, SessionsImplementAccess, PTL DEF OnlyAlongSeals, Hierarchy!Spec
=============================================================================
