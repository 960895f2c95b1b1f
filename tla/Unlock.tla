-------------------------------- MODULE Unlock --------------------------------
(***************************************************************************)
(* A session of the crypto core: a caller types a master password, and     *)
(* opens a vault down its key hierarchy with the functions of              *)
(* crates/bwu-core/src/crypto.rs, as tests/encrypted_fixtures.rs calls     *)
(* them.  A call is made as soon as the keys it takes are in hand, in any  *)
(* order and again after it failed; passwords may be wrong and be typed    *)
(* again; parts of the vault may be damaged, mixed up or malformed.  Every *)
(* key in hand is in a slot of its own; a call that fails fills none, and  *)
(* the keys of an earlier password stay until a later call replaces them.  *)
(*                                                                         *)
(* The two loops over an item are in VaultItem, whose steps compute what   *)
(* ItemMeaning says; here a call of decrypt_vault_item is one step.        *)
(*                                                                         *)
(* A vault is [owner, accountKey, privateKey, orgKeys, items]: the owner's *)
(* password, normalized salt and KDF parameters, and what is sealed.       *)
(* An RSA string is [type, to, digest, body, defects]: the key pair and    *)
(* the digest it was encrypted with, and what its type says.               *)
(***************************************************************************)
EXTENDS Kdf, ItemMeaning

CONSTANTS
  Vaults,        (* the vaults a session may meet                          *)
  NoPrivate      (* no private key in hand                                 *)

VARIABLES
  vault,         (* the vault of this session                              *)
  account,       (* the account key in hand, or NoKey                      *)
  private,       (* the RSA private key in hand, or NoPrivate              *)
  orgs,          (* orgs[o]: the key of organization o, where in hand      *)
  opened,        (* opened[i]: the texts of item i, where decrypted        *)
  last           (* the last call and its error                            *)

handVars == <<vault, account, private, orgs, opened>>
unlockVars == <<kdfVars, handVars, last>>

(* The name of the stretched key of a vault's owner. *)
OwnerSecret(v) == Stretched[Derived[<<v.owner.password, v.owner.salt, v.owner.kdf>>]]

(* The hash functions are ideal, other inputs giving other keys, and the   *)
(* owner is who knows the credentials the account key was sealed with, if  *)
(* anybody does.                                                           *)
ASSUME VaultsAssumption ==
  /\ \A v \in Vaults : \A i \in DOMAIN v.items : Len(v.items[i].fields) \in Nat
  /\ \A x, y \in DOMAIN Derived : Derived[x] = Derived[y] => x = y
  /\ \A x, y \in DOMAIN Stretched : Stretched[x] = Stretched[y] => x = y
  /\ \A v \in Vaults :
       LET x == <<v.owner.password, v.owner.salt, v.owner.kdf>>
       IN  /\ x \in DOMAIN Derived /\ Derived[x] \in DOMAIN Stretched
           /\ \/ v.accountKey.by = OwnerSecret(v)
              \/ \A s \in DOMAIN Stretched : v.accountKey.by # Stretched[s]

OrgIds  == UNION {DOMAIN v.orgKeys : v \in Vaults}
ItemIds == UNION {DOMAIN v.items : v \in Vaults}

CryptoErrors ==
  {"InvalidKeyLength", "InvalidEncryptedString", "UnsupportedEncryptionType",
   "InvalidIvLength", "AuthenticationFailed", "DecryptionFailed", "InvalidUtf8",
   "InvalidPrivateKey", "MissingOrganizationKey", "DuplicateFieldName"}

Put(f, x, y) == [z \in DOMAIN f \cup {x} |-> IF z = x THEN y ELSE f[z]]

(* Seeded fault: bytes under the header of another content are tried, too. *)
PrivateKeyFaultAnyContent(c, k) ==
  FirstFault(<<
    <<PayloadFault(c, k) # "none", PayloadFault(c, k)>>,
    <<"rsa" \notin c.body.reads,   "InvalidPrivateKey">> >>)

(* decrypt_private_key: the bytes are parsed here, so parsing them again   *)
(* for every organization cannot fail.                                     *)
PrivateKeyFault(c, k) ==
  FirstFault(<<
    <<PayloadFault(c, k) # "none", PayloadFault(c, k)>>,
    <<FormatOf(c) \notin {"untyped", "pkcs8"}, "UnsupportedEncryptionType">>,
    <<"rsa" \notin c.body.reads,   "InvalidPrivateKey">> >>)

(* Seeded fault: the types with a MAC get the other digest. *)
DigestOfSwapped(t) == IF t \in {3, 6} THEN "sha256" ELSE "sha1"

DigestOf(t) == IF t \in {3, 5} THEN "sha256" ELSE "sha1"

(* decrypt_organization_key.  The MAC of types 5 and 6 plays no part.      *)
OrganizationKeyFault(c, p) ==
  FirstFault(<<
    <<c.to # p \/ c.digest # DigestOf(c.type) \/ "altered" \in c.defects, "DecryptionFailed">>,
    <<KeyFromBytes(c.body) = NoKey, "InvalidKeyLength">> >>)

-----------------------------------------------------------------------------

Called(call, of, error) == last' = [call |-> call, of |-> of, error |-> error]

Init ==
  /\ KdfInit
  /\ vault \in Vaults
  /\ account = NoKey /\ private = NoPrivate
  /\ orgs = [o \in {} |-> NoKey] /\ opened = [i \in {} |-> NoKey]
  /\ last = [call |-> "none", of |-> "none", error |-> "none"]

Type(c) == Derive(c) /\ Called("none", "none", "none") /\ UNCHANGED handVars

Compute == KdfStep /\ UNCHANGED <<handVars, last>>

DecryptAccountKey ==
  /\ stretched.form # "none"
  /\ LET f == KeyFault(vault.accountKey, stretched) IN
     /\ Called("account", stretched.secret, f)
     /\ account' = IF f = "none" THEN KeyIn(vault.accountKey) ELSE account
  /\ UNCHANGED <<kdfVars, vault, private, orgs, opened>>

DecryptPrivateKey ==
  /\ account.form # "none"
  /\ LET f == PrivateKeyFault(vault.privateKey, account) IN
     /\ Called("private", "none", f)
     /\ private' = IF f = "none" THEN vault.privateKey.body.name ELSE private
  /\ UNCHANGED <<kdfVars, vault, account, orgs, opened>>

DecryptOrganizationKey(o) ==
  /\ private # NoPrivate /\ o \in DOMAIN vault.orgKeys
  /\ LET c == vault.orgKeys[o]  f == OrganizationKeyFault(c, private) IN
     /\ Called("org", o, f)
     /\ orgs' = IF f = "none" THEN Put(orgs, o, KeyFromBytes(c.body)) ELSE orgs
  /\ UNCHANGED <<kdfVars, vault, account, private, opened>>

KeyRing == [account |-> account, orgs |-> orgs]

DecryptItem(i) ==
  /\ account.form # "none" /\ i \in DOMAIN vault.items
  /\ LET it == vault.items[i] IN
     \/ /\ Opens(it, KeyRing)
        /\ Called("item", i, "none")
        /\ opened' = Put(opened, i, Texts(it))
     \/ /\ \E e \in CryptoErrors : FailsWith(it, KeyRing, e) /\ Called("item", i, e)
        /\ UNCHANGED opened
  /\ UNCHANGED <<kdfVars, vault, account, private, orgs>>

Next ==
  \/ \E c \in Credentials : Type(c)
  \/ Compute
  \/ DecryptAccountKey
  \/ DecryptPrivateKey
  \/ \E o \in OrgIds : DecryptOrganizationKey(o)
  \/ \E i \in ItemIds : DecryptItem(i)

Spec == Init /\ [][Next]_unlockVars

(* The functions are synchronous and wait for nothing; a caller that holds *)
(* the keys a call takes makes it some time.                               *)
Fairness ==
  /\ WF_unlockVars(Compute)
  /\ WF_unlockVars(DecryptAccountKey)
  /\ WF_unlockVars(DecryptPrivateKey)
  /\ \A o \in OrgIds : WF_unlockVars(DecryptOrganizationKey(o))
  /\ \A i \in ItemIds : WF_unlockVars(DecryptItem(i))

FairSpec == Spec /\ Fairness

-----------------------------------------------------------------------------
(* A vault as its owner's clients seal it; only the properties below look  *)
(* at this.                                                                *)

(* The keys of a vault whose parts hold what they should. *)
RingOf(v) ==
  [account |-> KeyIn(v.accountKey),
   orgs    |-> [o \in DOMAIN v.orgKeys |-> KeyFromBytes(v.orgKeys[o].body)]]

OwnerKey(v) == [form |-> "legacy64", secret |-> OwnerSecret(v), kid |-> ""]

(* A flawless string under key k: AES-CBC-HMAC under a key of the older    *)
(* kind, XChaCha20-Poly1305 under a COSE key and with its id.              *)
SealedWith(c, k) ==
  /\ c.by = k.secret /\ c.defects = {}
  /\ \/ c.scheme = "aes" /\ k.form = "legacy64"
     \/ /\ c.scheme = "cose" /\ k.form = "xchacha"
        /\ c.alg = "xchacha" /\ c.kid = k.kid /\ c.kid # ""

HoldsKey(c) == FormatOf(c) \in {"untyped", "legacy_key", "cose_key"} /\ KeyIn(c) # NoKey
HoldsText(c) == FormatOf(c) \in {"untyped", "padded_utf8"} /\ "utf8" \in c.body.reads
HoldsPrivateKey(c) == FormatOf(c) \in {"untyped", "pkcs8"} /\ "rsa" \in c.body.reads

SoundAccountKey(v) == SealedWith(v.accountKey, OwnerKey(v)) /\ HoldsKey(v.accountKey)

SoundPrivateKey(v) ==
  SealedWith(v.privateKey, KeyIn(v.accountKey)) /\ HoldsPrivateKey(v.privateKey)

SoundOrgKey(v, o) ==
  LET c == v.orgKeys[o] IN
  /\ c.to = v.privateKey.body.name /\ c.defects = {}
  /\ <<c.type, c.digest>> \in {<<3, "sha256">>, <<4, "sha1">>, <<5, "sha256">>, <<6, "sha1">>}
  /\ KeyFromBytes(c.body) # NoKey

SoundItem(v, i) ==
  LET it == v.items[i]  ks == RingOf(v) IN
  /\ it.org \in {NoOrg} \cup DOMAIN v.orgKeys
  /\ it.itemKey # NoItemKey => SealedWith(it.itemKey, WrappingKey(it, ks)) /\ HoldsKey(it.itemKey)
  /\ \A j \in 1 .. Len(it.fields) :
       /\ SealedWith(it.fields[j].value, FieldKey(it, ks)) /\ HoldsText(it.fields[j].value)
       /\ ~ Repeated(it, j)

(* The item and everything above it, up to credentials that can be hashed. *)
SoundChain(v, i) ==
  /\ i \in DOMAIN v.items /\ SoundAccountKey(v) /\ SoundItem(v, i)
  /\ Accepted(v.owner)
  /\ v.items[i].org # NoOrg => SoundPrivateKey(v) /\ SoundOrgKey(v, v.items[i].org)

-----------------------------------------------------------------------------

(* The owner's password and parameters, and the salt up to spaces around   *)
(* it and case.                                                            *)
Right(c) ==
  /\ c # NoCredential
  /\ c.password = vault.owner.password /\ Normalized[c.salt] = vault.owner.salt
  /\ c.kdf = vault.owner.kdf

(* Whatever is in hand is genuine, up to the owner's own password: each    *)
(* part was sealed, unaltered, with what the part above it holds, and as   *)
(* the kind of content it is used as, however the vault was tampered with. *)
(* A string that is altered, meant for another key pair, of another        *)
(* content, or of another organization stops the chain where it stands.    *)
OnlyGenuineOpens ==
  /\ account # NoKey =>
       /\ vault.accountKey.by = OwnerSecret(vault) /\ "altered" \notin vault.accountKey.defects
       /\ FormatOf(vault.accountKey) \notin {"padded_utf8", "pkcs8"}
  /\ private # NoPrivate =>
       /\ account # NoKey
       /\ vault.privateKey.by = vault.accountKey.body.name
       /\ "altered" \notin vault.privateKey.defects
       /\ FormatOf(vault.privateKey) \notin {"padded_utf8", "legacy_key", "cose_key"}
  /\ \A o \in DOMAIN orgs :
       /\ private # NoPrivate
       /\ vault.orgKeys[o].to = vault.privateKey.body.name
       /\ "altered" \notin vault.orgKeys[o].defects
  /\ \A i \in DOMAIN opened :
       /\ account # NoKey
       /\ vault.items[i].org \in {NoOrg} \cup DOMAIN orgs
       /\ SealedAlongItsKeys(vault.items[i], RingOf(vault))

(* A call fails for a reason of its own, whatever is wrong elsewhere in    *)
(* the vault and whatever failed before: the very part it was called on    *)
(* was not sealed as it should be; or the error says that the key it was   *)
(* called with comes from credentials that are not the owner's, or that    *)
(* the item's organization key has not been decrypted yet.  So             *)
(* AuthenticationFailed for a sound account key means a wrong password,    *)
(* though perhaps one typed before the last, and MissingOrganizationKey a  *)
(* later retry.                                                            *)
FailuresHaveAReason ==
  \/ last.error = "none"
  \/ /\ last.call = "account"
     /\ \/ ~ SoundAccountKey(vault)
        \/ /\ last.error = "AuthenticationFailed"
           /\ \E c \in typed : ~ Right(c) /\ last.of = StretchedKey(KeyOf(c)).secret
  \/ last.call = "private" /\ ~ SoundPrivateKey(vault)
  \/ last.call = "org" /\ ~ SoundOrgKey(vault, last.of)
  \/ /\ last.call = "item"
     /\ \/ ~ SoundItem(vault, last.of)
        \/ /\ last.error = "MissingOrganizationKey"
           /\ vault.items[last.of].org \notin {NoOrg} \cup DOMAIN orgs

(* An account key comes to hand only with a stretched key of the owner's   *)
(* own credentials, typed in this session and accepted when they were: no  *)
(* wrong password, salt or KDF parameters and no refused derivation lead   *)
(* to one, whatever keys of other derivations are still in hand.           *)
OnlyTheOwnerGetsIn ==
  [][account' # account =>
       \E c \in typed : Right(c) /\ Accepted(c) /\ stretched = StretchedKey(KeyOf(c))]_unlockVars

(* Once the owner's credentials are typed, however the salt is written,    *)
(* every soundly sealed item opens in the end, whatever failed before and  *)
(* whatever is wrong elsewhere in the vault; unless other credentials are  *)
(* typed meanwhile.                                                        *)
SoundItemsOpen ==
  \A i \in ItemIds :
    (SoundChain(vault, i) /\ dpc = "validate" /\ Right(cred))
      ~> (i \in DOMAIN opened \/ ~ Right(cred))

-----------------------------------------------------------------------------
(* Refinement of Access *)

SealsOf(it) ==
  {<<it.fields[j].value.by, it.fields[j].value.body.name>> : j \in 1 .. Len(it.fields)}
    \cup (IF it.itemKey = NoItemKey THEN {} ELSE {<<it.itemKey.by, it.itemKey.body.name>>})

absSeals ==
  {<<s, Stretched[s]>> : s \in DOMAIN Stretched}
    \cup {<<vault.accountKey.by, vault.accountKey.body.name>>,
          <<vault.privateKey.by, vault.privateKey.body.name>>}
    \cup {<<vault.orgKeys[o].to, vault.orgKeys[o].body.name>> : o \in DOMAIN vault.orgKeys}
    \cup UNION {SealsOf(vault.items[i]) : i \in DOMAIN vault.items}

SecretsOf(k) == IF k.form = "none" THEN {} ELSE {k.secret}

absKnown ==
  SecretsOf(master) \cup SecretsOf(stretched) \cup SecretsOf(account)
    \cup ({private} \ {NoPrivate})
    \cup {orgs[o].secret : o \in DOMAIN orgs}
    \cup UNION {{opened[i][n].name : n \in DOMAIN opened[i]} : i \in DOMAIN opened}

TypableSecrets == {Derived[x] : x \in DOMAIN Derived}

Hierarchy == INSTANCE Access WITH
  Typable <- TypableSecrets, known <- absKnown, seals <- absSeals

(* Nothing is ever in hand that was not typed, or sealed under something   *)
(* in hand before: the session implements Access, so a wrong password, or  *)
(* a key of another vault, leads to nothing at all.                        *)
OnlyAlongSeals == Hierarchy!Spec
=============================================================================
