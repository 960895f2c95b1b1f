-------------------------- MODULE VaultItem_proofs --------------------------
(***************************************************************************)
(* For items with any number of fields and any key ring: the steps of      *)
(* decrypt_vault_item compute what ItemMeaning says an item means, and an  *)
(* item comes back only if every part of it was sealed for this vault.     *)
(***************************************************************************)
EXTENDS VaultItem, Payload_proofs

LEMMA InitIInv == Init => IInv
<1> SUFFICES ASSUME Init PROVE IInv
  OBVIOUS
<1>1. item.fields \in Seq(Fields) /\ Len(item.fields) \in Nat
  BY ItemsAssumption DEF Init
<1> QED BY <1>1 DEF Init, IInv, TypeOK, PrefixOpened, ItemAsDeclared

(* What the invariant says of the data that no action changes. *)
LEMMA FieldsAreASequence ==
  ASSUME IInv
  PROVE  item.fields \in Seq(Fields) /\ Len(item.fields) \in Nat /\ at \in 1 .. Len(item.fields) + 1
BY ItemsAssumption DEF IInv, TypeOK

(* Giving up is right when the item has the fault reported. *)
LEMMA FailIInv ==
  ASSUME IInv, NEW e, Fail(e), FailsWith(item, keys, e)
  PROVE  IInv'
BY DEF Fail, IInv, TypeOK, PrefixOpened, ItemAsDeclared

(* The names of the fields passed are the names a repetition repeats. *)
LEMMA NameSeen ==
  ASSUME IInv, pc = "fields", at <= Len(item.fields)
  PROVE  Repeated(item, at) <=> Field.name \in DOMAIN fields
BY FieldsAreASequence DEF IInv, PrefixOpened, HoldsFields, Repeated, Field

(* The loop is at a faulty field, and all before it were fine. *)
LEMMA FirstFaultyField ==
  ASSUME IInv, pc = "fields", at <= Len(item.fields), Faulty(item, keys, at)
  PROVE  FailsWith(item, keys, FaultAt(item, keys, at))
BY FieldsAreASequence DEF IInv, PrefixOpened, FailsWith

LEMMA AddFieldIInv == IInv /\ AddField => IInv'
<1> SUFFICES ASSUME IInv, AddField PROVE IInv'
  OBVIOUS
<1>1. /\ Len(item.fields) \in Nat /\ at \in 1 .. Len(item.fields)
      /\ pc = "fields" /\ pc' = "fields" /\ at' = at + 1 /\ item' = item /\ keys' = keys
      /\ key' = key /\ result' = result
  BY FieldsAreASequence DEF AddField
<1>2. TypeOK'
  BY <1>1 DEF IInv, TypeOK
<1>3. ~ Faulty(item, keys, at)
  BY <1>1, NameSeen DEF Faulty, FieldFaultAt, AddField, Field, IInv, PrefixOpened
<1>4. \A i \in 1 .. at : ~ Faulty(item, keys, i)
  BY <1>1, <1>3 DEF IInv, PrefixOpened
<1>5. HoldsFields(item, fields', at)
  <2> DEFINE old == {item.fields[i].name : i \in 1 .. at - 1}
             new == {item.fields[i].name : i \in 1 .. at}
  <2>1. /\ DOMAIN fields = old
        /\ \A i \in 1 .. at - 1 : fields[item.fields[i].name] = item.fields[i].value.body
    BY <1>1 DEF IInv, PrefixOpened, HoldsFields
  <2>2. new = old \cup {item.fields[at].name}
    BY <1>1
  <2>3. /\ fields' = [n \in DOMAIN fields \cup {item.fields[at].name} |->
                        IF n = item.fields[at].name THEN item.fields[at].value.body
                        ELSE fields[n]]
        /\ item.fields[at].name \notin DOMAIN fields
    BY DEF AddField, Field
  <2>4. DOMAIN fields' = new
    BY <2>1, <2>2, <2>3
  <2>5. ASSUME NEW i \in 1 .. at
        PROVE  fields'[item.fields[i].name] = item.fields[i].value.body
    <3>1. CASE i = at
      BY <3>1, <2>3
    <3>2. CASE i \in 1 .. at - 1
      <4>1. item.fields[i].name \in DOMAIN fields
        BY <3>2, <2>1
      <4> QED BY <4>1, <3>2, <2>1, <2>3
    <3> QED BY <3>1, <3>2, <1>1
  <2> QED BY <2>4, <2>5 DEF HoldsFields
<1>6. PrefixOpened'
  <2>1. at' - 1 = at
    BY <1>1
  <2> QED BY <1>1, <1>4, <1>5, <2>1 DEF IInv, PrefixOpened
<1> QED BY <1>1, <1>2, <1>6 DEF IInv, ItemAsDeclared

LEMMA NextIInv == IInv /\ [Next]_vars => IInv'
<1> SUFFICES ASSUME IInv, [Next]_vars PROVE IInv'
  OBVIOUS
<1> USE FieldsAreASequence
<1>1. CASE ChooseWrappingKey
  BY <1>1 DEF ChooseWrappingKey, IInv, TypeOK, ItemAsDeclared, PrefixOpened,
              HasWrappingKey, WrappingKey
<1>2. CASE MissingOrganizationKey
  BY <1>2, FailIInv DEF MissingOrganizationKey, HasWrappingKey, FailsWith
<1>3. ASSUME pc = "item_key", pc' = "fields", UNCHANGED <<item, keys, at, fields, result>>,
             HasFieldKey(item, keys), key' = FieldKey(item, keys)
      PROVE  IInv'
  <2>1. TypeOK' /\ ItemAsDeclared'
    BY <1>3 DEF IInv, TypeOK, ItemAsDeclared
  <2>2. HasWrappingKey(item, keys) /\ at' = 1 /\ fields' = << >>
    BY <1>3 DEF IInv, PrefixOpened
  <2>3. HoldsFields(item, fields', at' - 1)
    <3>1. 1 .. at' - 1 = {} /\ DOMAIN fields' = {}
      BY <2>2
    <3> QED BY <3>1 DEF HoldsFields
  <2> QED BY <1>3, <2>1, <2>2, <2>3 DEF IInv, PrefixOpened
<1>4. CASE UnwrapItemKey
  BY <1>3, <1>4 DEF UnwrapItemKey, IInv, PrefixOpened, HasFieldKey, FieldKey
<1>5. CASE NoItemKeyNeeded
  BY <1>3, <1>5 DEF NoItemKeyNeeded, IInv, PrefixOpened, HasFieldKey, FieldKey
<1>6. CASE ItemKeyFault
  BY <1>6, FailIInv DEF ItemKeyFault, IInv, PrefixOpened, HasFieldKey, FailsWith
<1>7. CASE FieldFails
  <2>1. /\ Fail(FaultAt(item, keys, at)) /\ Faulty(item, keys, at)
        /\ pc = "fields" /\ at <= Len(item.fields)
    BY <1>7 DEF FieldFails, Field, Faulty, FaultAt, FieldFaultAt, IInv, PrefixOpened
  <2> QED BY <2>1, FirstFaultyField, FailIInv
<1>8. CASE DuplicateField
  <2>1. /\ Fail(FaultAt(item, keys, at)) /\ Faulty(item, keys, at)
        /\ pc = "fields" /\ at <= Len(item.fields)
    BY <1>8, NameSeen DEF DuplicateField, Field, Faulty, FaultAt, FieldFaultAt, IInv, PrefixOpened
  <2> QED BY <2>1, FirstFaultyField, FailIInv
<1>9. CASE AddField
  BY <1>9, AddFieldIInv
<1>10. CASE Finish
  <2>1. /\ pc = "fields" /\ pc' = "done" /\ result' = "ok"
        /\ UNCHANGED <<item, keys, key, at, fields>> /\ at - 1 = Len(item.fields)
    BY <1>10 DEF Finish
  <2>2. Opens(item, keys) /\ HoldsFields(item, fields, Len(item.fields))
    BY <2>1 DEF IInv, PrefixOpened, Opens
  <2> QED BY <2>1, <2>2 DEF IInv, TypeOK, PrefixOpened, ItemAsDeclared
<1>11. CASE UNCHANGED vars
  BY <1>11 DEF vars, IInv, TypeOK, PrefixOpened, ItemAsDeclared
<1> QED BY <1>1, <1>2, <1>4, <1>5, <1>6, <1>7, <1>8, <1>9, <1>10, <1>11 DEF Next

(* What has been decrypted so far is what ItemMeaning prescribes, at every *)
(* step of the loop.                                                       *)
THEOREM LoopOnCourse == Spec => []IInv
BY InitIInv, NextIInv, PTL DEF Spec

(* Decryption of an item is all or nothing and reports the first fault in  *)
(* the order of the code, for any items and key rings.                     *)
THEOREM AllOrNothing == Spec => []ItemAsDeclared
<1>1. IInv => ItemAsDeclared
  BY DEF IInv
<1> QED BY <1>1, LoopOnCourse, PTL

(* An error is never mistaken for success. *)
LEMMA FailureIsNoSuccess == ~ FailsWith(item, keys, "ok")
BY KeyOpened, FieldOpened DEF FailsWith, FaultAt, FieldFaultAt

(* What came back was sealed, unaltered, under the secrets of this vault   *)
(* and as the kind of content it was used as, for any items and key rings. *)
THEOREM NothingForeignOpens == Spec => []OpenedUnderItsKeys
<1>1. IInv => OpenedUnderItsKeys
  BY FailureIsNoSuccess, OpensSealed DEF IInv, TypeOK, ItemAsDeclared, OpenedUnderItsKeys
<1> QED BY <1>1, LoopOnCourse, PTL

(* An error about the content of an item key or of a field is returned     *)
(* only for a string that is authentic under the key it was tried with,    *)
(* for any items and key rings.                                            *)
THEOREM NoVerdictOnForeignContent == Spec => OnlyGenuineContentIsJudged
<1> DEFINE Judged ==
       /\ result' \in {"DecryptionFailed", "InvalidUtf8", "DuplicateFieldName"} =>
            Authentic(Current, key)
       /\ result' = "InvalidKeyLength" => Authentic(Current, key) \/ key.form # KeyFormFor(Current)
<1>1. IInv /\ [Next]_vars => [Judged]_vars
  <2> SUFFICES ASSUME IInv, Next PROVE Judged
    OBVIOUS
  <2>1. pc # "done" => result = "running"
    BY DEF IInv, TypeOK
  <2>2. CASE ItemKeyFault
    <3>1. Current = item.itemKey /\ result' = KeyFault(item.itemKey, key)
      BY <2>2 DEF ItemKeyFault, Fail, Current
    <3> QED BY <3>1, KeyErrors DEF KeyFormFor
  <2>3. CASE FieldFails
    <3>1. Current = Field.value /\ result' = FieldFault(Field.value, key)
      BY <2>3 DEF FieldFails, Fail, Current
    <3> QED BY <3>1, FieldErrors DEF KeyFormFor
  <2>4. CASE DuplicateField
    <3>1. /\ Current = Field.value /\ FieldFault(Field.value, key) = "none"
          /\ result' = "DuplicateFieldName"
      BY <2>4 DEF DuplicateField, Fail, Current
    <3> QED BY <3>1, FieldOpened
  <2>5. CASE MissingOrganizationKey
    BY <2>5 DEF MissingOrganizationKey, Fail
  <2>6. CASE ChooseWrappingKey \/ UnwrapItemKey \/ NoItemKeyNeeded \/ AddField \/ Finish
    BY <2>1, <2>6 DEF ChooseWrappingKey, UnwrapItemKey, NoItemKeyNeeded, AddField, Finish
  <2> QED BY <2>2, <2>3, <2>4, <2>5, <2>6 DEF Next
<1> QED BY <1>1, InitIInv, NextIInv, PTL DEF Spec, OnlyGenuineContentIsJudged
=============================================================================
