------------------------------- MODULE MCUnlock -------------------------------
(* Two sound vaults, one with keys of the older kind throughout and one with *)
(* COSE keys, and variants of them with one part damaged, mixed up or        *)
(* malformed, one of them with an owner whose KDF parameters are refused.    *)
(* Credentials: the owner's with the salt written in two ways, a wrong       *)
(* password, other and refused KDF parameters.                               *)
EXTENDS Unlock, TLC

Pbkdf2(n) == [kind |-> "pbkdf2", iterations |-> n]

Cred(p, s, n) == [password |-> p, salt |-> s, kdf |-> Pbkdf2(n)]

MCCredentials ==
  {Cred("right", "a@b", 600000), Cred("right", " A@B ", 600000), Cred("wrong", "a@b", 600000),
   Cred("right", "a@b", 5000), Cred("right", "a@b", 1)}
MCNormalized == [s \in {"a@b", " A@B "} |-> "a@b"]
MCDerived ==
  [x \in {<<c.password, MCNormalized[c.salt], c.kdf>> : c \in MCCredentials} |-> ToString(x)]
MCStretched == [s \in {MCDerived[x] : x \in DOMAIN MCDerived} |-> "stretched " \o s]

OwnerWith(n)  == [password |-> "right", salt |-> "a@b", kdf |-> Pbkdf2(n)]
TopKeyWith(n) == MCStretched[MCDerived[<<"right", "a@b", Pbkdf2(n)>>]]

Owner  == OwnerWith(600000)
TopKey == TopKeyWith(600000)

Bytes(n, r, id) == [name |-> n, reads |-> r, kid |-> id]

Aes(by, body) ==
  [scheme |-> "aes", by |-> by, kid |-> "", alg |-> "", format |-> "untyped",
   body |-> body, defects |-> {}]
Cose(by, id, format, body) ==
  [scheme |-> "cose", by |-> by, kid |-> id, alg |-> "xchacha", format |-> format,
   body |-> body, defects |-> {}]
Rsa(type, to, digest, body) ==
  [type |-> type, to |-> to, digest |-> digest, body |-> body, defects |-> {}]

Text(n) == Bytes(n, {"utf8"}, "")

Item(org, key, value) ==
  [org |-> org, itemKey |-> key, fields |-> << [name |-> "password", value |-> value] >>]

OldVault ==
  [owner      |-> Owner,
   accountKey |-> Aes(TopKey, Bytes("account", {"legacy64"}, "")),
   privateKey |-> Aes("account", Bytes("private", {"rsa"}, "")),
   orgKeys    |-> [o \in {"acme"} |-> Rsa(4, "private", "sha1", Bytes("org", {"legacy64"}, ""))],
   items      |-> [i \in {"login", "card"} |->
     IF i = "login" THEN Item(NoOrg, NoItemKey, Aes("account", Text("mail")))
     ELSE Item("acme", Aes("org", Bytes("item", {"legacy64"}, "")), Aes("item", Text("number")))]]

NewVault ==
  [owner      |-> Owner,
   accountKey |-> Aes(TopKey, Bytes("account", {"padded_cose"}, "account-id")),
   privateKey |-> Cose("account", "account-id", "pkcs8", Bytes("private", {"rsa"}, "")),
   orgKeys    |-> [o \in {"acme"} |-> Rsa(5, "private", "sha256", Bytes("org", {"padded_cose"}, "org-id"))],
   items      |-> [i \in {"login", "card"} |->
     IF i = "login"
     THEN Item(NoOrg, Cose("account", "account-id", "cose_key", Bytes("item", {"raw_cose"}, "item-id")),
               Cose("item", "item-id", "padded_utf8", Text("mail")))
     ELSE Item("acme", NoItemKey, Cose("org", "org-id", "padded_utf8", Text("number")))]]

WithOrgKey(v, c) == [v EXCEPT !.orgKeys = [o \in {"acme"} |-> c]]

MCVaults ==
  {OldVault, NewVault,
   [OldVault EXCEPT !.accountKey.defects = {"altered"}],
   [OldVault EXCEPT !.accountKey.by = "nobody's"],
   [OldVault EXCEPT !.owner = OwnerWith(1), !.accountKey.by = TopKeyWith(1)],
   [OldVault EXCEPT !.accountKey.body.reads = {"legacy32"}],
   [OldVault EXCEPT !.privateKey.body.reads = {"utf8"}],
   [NewVault EXCEPT !.privateKey.format = "padded_utf8"],
   [OldVault EXCEPT !.items["login"].fields[1].value.defects = {"altered"}],
   [NewVault EXCEPT !.items["card"].fields[1].value.by = "account"],
   [OldVault EXCEPT !.items["login"].fields = @ \o @],
   WithOrgKey(OldVault, Rsa(6, "private", "sha256", Bytes("org", {"legacy64"}, ""))),
   WithOrgKey(OldVault, Rsa(3, "other user", "sha256", Bytes("org", {"legacy64"}, ""))),
   WithOrgKey(OldVault, Rsa(4, "private", "sha1", Bytes("other org", {"legacy64"}, ""))),
   WithOrgKey(NewVault, Rsa(3, "private", "sha256", Bytes("org", {"utf8"}, "")))}
=============================================================================
