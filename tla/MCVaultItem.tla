----------------------------- MODULE MCVaultItem -----------------------------
(* Items of an account and of an organization, with and without item keys,   *)
(* and fields that open, fail in each way, or repeat a name.                  *)
EXTENDS VaultItem

CONSTANT MaxFields

Legacy(s)      == [form |-> "legacy64", secret |-> s, kid |-> ""]
XChaCha(s, id) == [form |-> "xchacha", secret |-> s, kid |-> id]

MCKeys == {Legacy("account"), XChaCha("org", "org-id"), XChaCha("account", "account-id")}

(* The account key is of the older or of the newer kind; the key of the    *)
(* organization is there or not.                                           *)
MCKeyRings ==
  {[account |-> a, orgs |-> o] :
     a \in {Legacy("account"), XChaCha("account", "account-id")},
     o \in {[x \in {} |-> NoKey], [x \in {"acme"} |-> XChaCha("org", "org-id")]}}

Bytes(n, r, id) == [name |-> n, reads |-> r, kid |-> id]

Aes(by, body, defects) ==
  [scheme |-> "aes", by |-> by, kid |-> "", alg |-> "", format |-> "untyped",
   body |-> body, defects |-> defects]
Cose(by, id, format, body, defects) ==
  [scheme |-> "cose", by |-> by, kid |-> id, alg |-> "xchacha", format |-> format,
   body |-> body, defects |-> defects]

LegacyItemKey == Bytes("item", {"legacy64"}, "")
CoseItemKey   == Bytes("item", {"raw_cose"}, "item-id")
PaddedItemKey == Bytes("item", {"padded_cose"}, "item-id")
Text          == Bytes("text", {"utf8"}, "")

MCItemKeys ==
  {NoItemKey,
   Aes("account", LegacyItemKey, {}),
   Aes("account", PaddedItemKey, {"altered", "padding"}),
   Aes("account", PaddedItemKey, {}),
   Cose("org", "org-id", "cose_key", CoseItemKey, {}),
   Cose("org", "org-id", "cose_key", PaddedItemKey, {}),
   Cose("account", "account-id", "legacy_key", LegacyItemKey, {}),
   Cose("account", "account-id", "padded_utf8", LegacyItemKey, {})}

MCValues ==
  {Aes("item", Text, {}),
   Aes("account", Text, {}),
   Cose("item", "item-id", "padded_utf8", Text, {}),
   Cose("org", "org-id", "padded_utf8", Text, {}),
   Cose("item", "item-id", "cose_key", Bytes("key", {"raw_cose", "utf8"}, "k"), {}),
   Aes("item", Text, {"altered", "padding"}),
   Cose("item", "item-id", "padded_utf8", Text, {"padding"}),
   Aes("item", Bytes("binary", {}, ""), {})}

MCFields == {[name |-> n, value |-> v] : n \in {"password", "notes"}, v \in MCValues}

MCItems ==
  {[org |-> o, itemKey |-> k, fields |-> f] :
     o \in {NoOrg, "acme"}, k \in MCItemKeys,
     f \in UNION {[1 .. n -> MCFields] : n \in 0 .. MaxFields}}
=============================================================================
