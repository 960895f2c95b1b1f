------------------------------- MODULE Payload -------------------------------
(***************************************************************************)
(* Opening encrypted strings with symmetric keys                           *)
(* (crates/bwu-core/src/crypto.rs, decrypt_payload and the functions that  *)
(* read its result as a key or as a field).  Ciphers are ideal: a string   *)
(* opens only under the secret it was sealed with, and only unaltered.     *)
(*                                                                         *)
(* Plaintext bytes are [name, reads, kid]: reads are the ways the bytes    *)
(* can be read ("utf8"; "legacy32" and "legacy64" by their mere length;    *)
(* "raw_cose", "padded_cose" with key id kid).                             *)
(* A key is [form, secret, kid].                                           *)
(* An encrypted string is [scheme, by, kid, alg, format, body, defects]:   *)
(* by is the secret it was sealed with, the rest is what its headers say   *)
(* and what is wrong with it.  Both schemes have all fields; "aes" strings *)
(* have no headers.                                                        *)
(***************************************************************************)
EXTENDS Integers, Sequences

NoKey   == [form |-> "none", secret |-> "none", kid |-> ""]

(* The checks of a function in their order, each with the error it yields; *)
(* the first that fails decides.                                           *)
FirstFault(checks) ==
  IF \E i \in 1 .. Len(checks) : checks[i][1]
  THEN checks[CHOOSE i \in 1 .. Len(checks) :
                checks[i][1] /\ \A j \in 1 .. i - 1 : ~ checks[j][1]][2]
  ELSE "none"

(* The string was sealed with the secret of k and is unaltered. *)
Authentic(c, k) == c.by = k.secret /\ "altered" \notin c.defects

(* Seeded fault: the MAC is not looked at. *)
AesFaultWithoutMac(c, k) ==
  FirstFault(<<
    <<k.form # "legacy64",        "InvalidKeyLength">>,
    <<"padding" \in c.defects,    "DecryptionFailed">> >>)

(* Seeded fault: decrypted first, verified afterwards. *)
AesFaultDecryptFirst(c, k) ==
  FirstFault(<<
    <<k.form # "legacy64",        "InvalidKeyLength">>,
    <<"padding" \in c.defects,    "DecryptionFailed">>,
    <<~ Authentic(c, k),          "AuthenticationFailed">> >>)

(* AES-CBC-HMAC: the MAC is verified before anything is decrypted. *)
AesFault(c, k) ==
  FirstFault(<<
    <<k.form # "legacy64",        "InvalidKeyLength">>,
    <<~ Authentic(c, k),          "AuthenticationFailed">>,
    <<"padding" \in c.defects,    "DecryptionFailed">> >>)

(* decrypt_cose_encrypt0_bytes. *)
CoseFault(c, k) ==
  FirstFault(<<
    <<c.alg # "xchacha",             "UnsupportedEncryptionType">>,
    <<k.form # "xchacha",            "InvalidKeyLength">>,
    <<c.kid = "" \/ c.kid # k.kid,   "AuthenticationFailed">>,
    <<"nonce" \in c.defects,         "InvalidIvLength">>,
    <<c.format = "absent",           "InvalidEncryptedString">>,
    <<c.format = "unknown",          "UnsupportedEncryptionType">>,
    <<"no_ciphertext" \in c.defects, "InvalidEncryptedString">>,
    <<~ Authentic(c, k),             "AuthenticationFailed">>,
    <<c.format = "padded_utf8" /\ "padding" \in c.defects, "DecryptionFailed">> >>)

PayloadFault(c, k) == IF c.scheme = "aes" THEN AesFault(c, k) ELSE CoseFault(c, k)

FormatOf(c) == IF c.scheme = "aes" THEN "untyped" ELSE c.format

-----------------------------------------------------------------------------

(* Seeded fault: what reads as a COSE key is one even at a legacy length. *)
KeyFromBytesCoseFirst(b) ==
  CASE b.reads \cap {"raw_cose", "padded_cose"} # {}
         -> [form |-> "xchacha", secret |-> b.name, kid |-> b.kid]
    [] b.reads \cap {"raw_cose", "padded_cose"} = {} /\ "legacy32" \in b.reads
         -> [form |-> "legacy32", secret |-> b.name, kid |-> ""]
    [] b.reads \cap {"raw_cose", "padded_cose"} = {} /\ "legacy64" \in b.reads
         -> [form |-> "legacy64", secret |-> b.name, kid |-> ""]
    [] OTHER -> NoKey

(* SymmetricKey::new: 32 and 64 bytes are legacy keys, whatever they hold. *)
KeyFromBytes(b) ==
  CASE "legacy32" \in b.reads -> [form |-> "legacy32", secret |-> b.name, kid |-> ""]
    [] "legacy64" \in b.reads -> [form |-> "legacy64", secret |-> b.name, kid |-> ""]
    [] b.reads \cap {"legacy32", "legacy64"} = {} /\ b.reads \cap {"raw_cose", "padded_cose"} # {}
         -> [form |-> "xchacha", secret |-> b.name, kid |-> b.kid]
    [] OTHER -> NoKey

(* from_raw_cose_key_bytes: no unpadding, no legacy reading. *)
KeyFromRawCose(b) ==
  IF "raw_cose" \in b.reads THEN [form |-> "xchacha", secret |-> b.name, kid |-> b.kid]
  ELSE NoKey

KeyIn(c) == IF FormatOf(c) = "cose_key" THEN KeyFromRawCose(c.body) ELSE KeyFromBytes(c.body)

(* decrypt_symmetric_key, behind decrypt_account_key and decrypt_item_key. *)
KeyFault(c, k) ==
  FirstFault(<<
    <<PayloadFault(c, k) # "none",  PayloadFault(c, k)>>,
    <<FormatOf(c) \notin {"untyped", "legacy_key", "cose_key"}, "UnsupportedEncryptionType">>,
    <<KeyIn(c) = NoKey,             "InvalidKeyLength">> >>)

(* decrypt_field. *)
FieldFault(c, k) ==
  FirstFault(<<
    <<PayloadFault(c, k) # "none",  PayloadFault(c, k)>>,
    <<FormatOf(c) \notin {"untyped", "padded_utf8"}, "UnsupportedEncryptionType">>,
    <<"utf8" \notin c.body.reads,   "InvalidUtf8">> >>)
=============================================================================
