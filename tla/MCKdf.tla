-------------------------------- MODULE MCKdf --------------------------------
(* Parameters at, just inside and just outside every bound of validate, of   *)
(* the multiplication in u32 and of Argon2.  2097151 MiB is the most whose   *)
(* KiB TLC can compute, 4194304 the first that overflows in u32.             *)
EXTENDS Kdf, TLC

MCKdfs ==
  {[kind |-> "pbkdf2", iterations |-> i] : i \in {0, 4999, 5000, 2000000, 2000001}} \cup
  {[kind |-> "argon2id", iterations |-> i, memory_mib |-> m, parallelism |-> p] :
     i \in {0, 1, 2, 10, 11},
     m \in {0, 15, 16, 1024, 1025, 2097151, 4194304},
     p \in {0, 1, 16, 17, 16777216}}

(* An overlong password with parameters of both kinds, in and out of range. *)
LongWith ==
  {[kind |-> "pbkdf2", iterations |-> i] : i \in {4999, 5000}} \cup
  {[kind |-> "argon2id", iterations |-> 2, memory_mib |-> m, parallelism |-> 1] : m \in {15, 16}}

MCLongPasswords == {"overlong"}
MCCredentials ==
  {[password |-> "pw", salt |-> " A@B ", kdf |-> k] : k \in MCKdfs} \cup
  {[password |-> "overlong", salt |-> " A@B ", kdf |-> k] : k \in LongWith}
MCNormalized  == [s \in {" A@B "} |-> "a@b"]
MCDerived     ==
  [x \in {<<c.password, "a@b", c.kdf>> : c \in MCCredentials} |-> ToString(x)]
MCStretched   == [s \in {MCDerived[x] : x \in DOMAIN MCDerived} |-> "stretched " \o s]
=============================================================================
