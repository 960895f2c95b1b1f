----------------------------- MODULE ItemMeaning -----------------------------
(***************************************************************************)
(* What decrypting a vault item with a key ring means, without the loop of *)
(* decrypt_vault_item (crates/bwu-core/src/crypto.rs).  VaultItem has the  *)
(* steps, Unlock the sessions in which items are decrypted.                *)
(***************************************************************************)
EXTENDS Payload

CONSTANTS
  NoOrg,         (* org of an item of the account itself                   *)
  NoItemKey      (* itemKey of an item without one                         *)

HasWrappingKey(it, ks) == it.org = NoOrg \/ it.org \in DOMAIN ks.orgs
WrappingKey(it, ks) == IF it.org = NoOrg THEN ks.account ELSE ks.orgs[it.org]

HasFieldKey(it, ks) ==
  it.itemKey # NoItemKey => KeyFault(it.itemKey, WrappingKey(it, ks)) = "none"
FieldKey(it, ks) ==
  IF it.itemKey = NoItemKey THEN WrappingKey(it, ks) ELSE KeyIn(it.itemKey)

Repeated(it, i) == \E j \in 1 .. i - 1 : it.fields[j].name = it.fields[i].name

FieldFaultAt(it, ks, i) == FieldFault(it.fields[i].value, FieldKey(it, ks))

Faulty(it, ks, i) == FieldFaultAt(it, ks, i) # "none" \/ Repeated(it, i)

(* A repeated name is found out only after its value was decrypted. *)
FaultAt(it, ks, i) ==
  IF FieldFaultAt(it, ks, i) # "none" THEN FieldFaultAt(it, ks, i) ELSE "DuplicateFieldName"

(* fs holds the first n fields under their names and nothing else. *)
HoldsFields(it, fs, n) ==
  /\ DOMAIN fs = {it.fields[i].name : i \in 1 .. n}
  /\ \A i \in 1 .. n : fs[it.fields[i].name] = it.fields[i].value.body

(* The text of every field under its name. *)
Texts(it) ==
  [n \in {it.fields[i].name : i \in 1 .. Len(it.fields)} |->
     LET i == CHOOSE j \in 1 .. Len(it.fields) : it.fields[j].name = n
     IN  it.fields[i].value.body]

(* The item can be decrypted. *)
Opens(it, ks) ==
  /\ HasWrappingKey(it, ks) /\ HasFieldKey(it, ks)
  /\ \A i \in 1 .. Len(it.fields) : ~ Faulty(it, ks, i)

(* It cannot, and e is the error. *)
FailsWith(it, ks, e) ==
  \/ ~ HasWrappingKey(it, ks) /\ e = "MissingOrganizationKey"
  \/ /\ HasWrappingKey(it, ks) /\ ~ HasFieldKey(it, ks)
     /\ e = KeyFault(it.itemKey, WrappingKey(it, ks))
  \/ /\ HasWrappingKey(it, ks) /\ HasFieldKey(it, ks)
     /\ \E i \in 1 .. Len(it.fields) :
          /\ Faulty(it, ks, i) /\ (\A j \in 1 .. i - 1 : ~ Faulty(it, ks, j))
          /\ e = FaultAt(it, ks, i)

-----------------------------------------------------------------------------

(* The item was sealed for a vault with these keys: unaltered, the item    *)
(* key under the secret of the account or of the item's own organization,  *)
(* every field under the secret inside the item key (or, without one,      *)
(* under that of the account or organization); and nothing declared to be  *)
(* a key stands where a text is read, nor a text or a private key where a  *)
(* key is.                                                                 *)
SealedAlongItsKeys(it, ks) ==
  LET root == WrappingKey(it, ks).secret
      leaf == IF it.itemKey = NoItemKey THEN root ELSE it.itemKey.body.name
  IN  /\ it.itemKey # NoItemKey =>
           /\ it.itemKey.by = root /\ "altered" \notin it.itemKey.defects
           /\ FormatOf(it.itemKey) \notin {"padded_utf8", "pkcs8"}
      /\ \A i \in 1 .. Len(it.fields) :
           LET c == it.fields[i].value IN
           /\ c.by = leaf /\ "altered" \notin c.defects
           /\ FormatOf(c) \notin {"legacy_key", "cose_key", "pkcs8"}
=============================================================================
