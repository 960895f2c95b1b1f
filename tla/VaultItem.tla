------------------------------ MODULE VaultItem ------------------------------
(***************************************************************************)
(* Decryption of one vault item (crates/bwu-core/src/crypto.rs,            *)
(* decrypt_vault_item): choose the wrapping key, unwrap the item key if    *)
(* there is one, and decrypt the fields one by one into a map, giving up   *)
(* at the first fault.                                                     *)
(***************************************************************************)
EXTENDS ItemMeaning

CONSTANTS
  Items,         (* [org, itemKey, fields]: items to decrypt               *)
  KeyRings,      (* [account, orgs]: keys of an unlocked vault             *)
  Keys,          (* symmetric keys there may be                            *)
  Fields         (* [name, value]: encrypted fields there may be           *)

ASSUME ItemsAssumption ==
  /\ \A it \in Items : it.fields \in Seq(Fields)
  /\ \A ks \in KeyRings : ks.account \in Keys /\ \A o \in DOMAIN ks.orgs : ks.orgs[o] \in Keys

VARIABLES
  item,          (* the item                                               *)
  keys,          (* the key ring                                           *)
  pc,            (* "wrapping", "item_key", "fields" or "done"             *)
  key,           (* wrapping_key, then field_key                           *)
  at,            (* next field                                             *)
  fields,        (* fields decrypted so far, by name                       *)
  result         (* "running", "ok" or the error                           *)

vars == <<item, keys, pc, key, at, fields, result>>

Init ==
  /\ item \in Items
  /\ keys \in KeyRings
  /\ pc = "wrapping"
  /\ key = NoKey
  /\ at = 1
  /\ fields = << >>
  /\ result = "running"

Fail(e) ==
  /\ pc' = "done"
  /\ result' = e
  /\ UNCHANGED <<item, keys, key, at, fields>>

(* Seeded fault: without the organization key the account key is tried. *)
FallBackOnAccountKey ==
  /\ pc = "wrapping"
  /\ key' = IF item.org \in DOMAIN keys.orgs THEN keys.orgs[item.org] ELSE keys.account
  /\ pc' = "item_key"
  /\ UNCHANGED <<item, keys, at, fields, result>>

(* An organization item never falls back on the account key. *)
ChooseWrappingKey ==
  /\ pc = "wrapping"
  /\ item.org = NoOrg \/ item.org \in DOMAIN keys.orgs
  /\ key' = IF item.org = NoOrg THEN keys.account ELSE keys.orgs[item.org]
  /\ pc' = "item_key"
  /\ UNCHANGED <<item, keys, at, fields, result>>

MissingOrganizationKey ==
  /\ pc = "wrapping"
  /\ item.org # NoOrg /\ item.org \notin DOMAIN keys.orgs
  /\ Fail("MissingOrganizationKey")

UnwrapItemKey ==
  /\ pc = "item_key" /\ item.itemKey # NoItemKey
  /\ KeyFault(item.itemKey, key) = "none"
  /\ key' = KeyIn(item.itemKey)
  /\ pc' = "fields"
  /\ UNCHANGED <<item, keys, at, fields, result>>

ItemKeyFault ==
  /\ pc = "item_key" /\ item.itemKey # NoItemKey
  /\ KeyFault(item.itemKey, key) # "none"
  /\ Fail(KeyFault(item.itemKey, key))

NoItemKeyNeeded ==
  /\ pc = "item_key" /\ item.itemKey = NoItemKey
  /\ pc' = "fields"
  /\ UNCHANGED <<item, keys, key, at, fields, result>>

Field == item.fields[at]

FieldFails ==
  /\ pc = "fields" /\ at <= Len(item.fields)
  /\ FieldFault(Field.value, key) # "none"
  /\ Fail(FieldFault(Field.value, key))

(* The name is looked up only after the value was decrypted. *)
DuplicateField ==
  /\ pc = "fields" /\ at <= Len(item.fields)
  /\ FieldFault(Field.value, key) = "none"
  /\ Field.name \in DOMAIN fields
  /\ Fail("DuplicateFieldName")

(* Seeded fault: a field replaces an earlier one of its name. *)
ReplaceField ==
  /\ pc = "fields" /\ at <= Len(item.fields)
  /\ FieldFault(Field.value, key) = "none"
  /\ fields' = [n \in DOMAIN fields \cup {Field.name} |->
                  IF n = Field.name THEN Field.value.body ELSE fields[n]]
  /\ at' = at + 1
  /\ UNCHANGED <<item, keys, pc, key, result>>

AddField ==
  /\ pc = "fields" /\ at <= Len(item.fields)
  /\ FieldFault(Field.value, key) = "none"
  /\ Field.name \notin DOMAIN fields
  /\ fields' = [n \in DOMAIN fields \cup {Field.name} |->
                  IF n = Field.name THEN Field.value.body ELSE fields[n]]
  /\ at' = at + 1
  /\ UNCHANGED <<item, keys, pc, key, result>>

Finish ==
  /\ pc = "fields" /\ at > Len(item.fields)
  /\ pc' = "done"
  /\ result' = "ok"
  /\ UNCHANGED <<item, keys, key, at, fields>>

Next ==
  \/ ChooseWrappingKey \/ MissingOrganizationKey
  \/ UnwrapItemKey \/ ItemKeyFault \/ NoItemKeyNeeded
  \/ FieldFails \/ DuplicateField \/ AddField
  \/ Finish

Spec == Init /\ [][Next]_vars

-----------------------------------------------------------------------------

TypeOK ==
  /\ item \in Items
  /\ keys \in KeyRings
  /\ pc \in {"wrapping", "item_key", "fields", "done"}
  /\ at \in 1 .. Len(item.fields) + 1
  /\ pc # "done" => result = "running"

(* Decryption is all or nothing: an item comes back only with every field  *)
(* under its own name, opened with the key the item prescribes; otherwise  *)
(* the error is that of the missing organization key, else of the item     *)
(* key, else of the first field that cannot be opened or repeats an        *)
(* earlier name, a repeated name being reported only for a field that      *)
(* would open.                                                             *)
ItemAsDeclared ==
  pc = "done" =>
    \/ FailsWith(item, keys, result)
    \/ /\ Opens(item, keys)
       /\ result = "ok"
       /\ HoldsFields(item, fields, Len(item.fields))

(* An item that came back was sealed for this vault: unaltered, the item   *)
(* key under the secret of the account or of the item's own organization,  *)
(* every field under the secret inside the item key (or, without one,      *)
(* under that of the account or organization); and what was declared to be *)
(* a key never comes back as a field, nor a text or a private key as key.  *)
OpenedUnderItsKeys == result = "ok" => SealedAlongItsKeys(item, keys)

(* The string a step of the item key or of a field is about. *)
Current == IF pc = "item_key" THEN item.itemKey ELSE Field.value

KeyFormFor(c) == IF c.scheme = "aes" THEN "legacy64" ELSE "xchacha"

(* Nothing is reported of the content of a string before the string is     *)
(* known to be genuine.  That it is badly padded, no text, no key or       *)
(* repeats a name is said only of one that was sealed, unaltered, under    *)
(* the key in hand: an error about content is never an artefact of a       *)
(* damaged string or of a wrong key.                                       *)
OnlyGenuineContentIsJudged ==
  [][/\ result' \in {"DecryptionFailed", "InvalidUtf8", "DuplicateFieldName"} =>
          Authentic(Current, key)
     /\ result' = "InvalidKeyLength" =>
          Authentic(Current, key) \/ key.form # KeyFormFor(Current)]_vars

(* What the loop has done so far: key is the key the item prescribes for   *)
(* what comes next, and the fields passed were all fine.                   *)
PrefixOpened ==
  /\ pc = "wrapping" => at = 1 /\ fields = << >>
  /\ pc = "item_key" =>
       /\ HasWrappingKey(item, keys) /\ key = WrappingKey(item, keys)
       /\ at = 1 /\ fields = << >>
  /\ pc = "fields" =>
       /\ HasWrappingKey(item, keys) /\ HasFieldKey(item, keys)
       /\ key = FieldKey(item, keys)
       /\ \A i \in 1 .. at - 1 : ~ Faulty(item, keys, i)
       /\ HoldsFields(item, fields, at - 1)

(* The inductive invariant. *)
IInv == TypeOK /\ PrefixOpened /\ ItemAsDeclared
=============================================================================
