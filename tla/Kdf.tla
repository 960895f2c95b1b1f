--------------------------------- MODULE Kdf ---------------------------------
(***************************************************************************)
(* From a typed master password to the stretched master key                *)
(* (crates/bwu-core/src/crypto.rs, KdfConfig::validate, derive_master_key  *)
(* and stretch_key), check by check.  The parameters come from a server;   *)
(* they are u32 and stand here with their numbers.  The hash functions are *)
(* ideal: other inputs, other keys.  The keys are the caller's: those of a *)
(* derivation stay in its hand until a later one replaces them.            *)
(***************************************************************************)
EXTENDS Payload

CONSTANTS
  Credentials,   (* [password, salt, kdf] a user may type and a server send *)
  Normalized,    (* Normalized[s]: salt s trimmed and in lower case        *)
  Derived,       (* Derived[<<password, salt, kdf>>]: the name of the hash *)
  Stretched,     (* Stretched[s]: the name of the 64 bytes made from s     *)
  LongPasswords, (* passwords of 2^32 bytes or more                        *)
  NoCredential,  (* before the first derivation                            *)
  MaxDerivations (* bound on the number of derivations                     *)

VARIABLES
  dpc,           (* what derive_master_key does next                       *)
  cred,          (* the credential it was called with                      *)
  master,        (* the caller's last master key, NoKey before the first   *)
  stretched,     (* its last stretched master key, or NoKey                *)
  derivations,   (* number of derivations begun                            *)
  typed          (* the credentials typed so far: for the properties only  *)

kdfVars == <<dpc, cred, master, stretched, derivations, typed>>

ASSUME KdfAssumption ==
  /\ \A c \in Credentials :
       \/ c.kdf.kind = "pbkdf2" /\ c.kdf.iterations \in Nat
       \/ /\ c.kdf.kind = "argon2id"
          /\ {c.kdf.iterations, c.kdf.memory_mib, c.kdf.parallelism} \subseteq Nat
  /\ \A c \in Credentials :
       LET x == <<c.password, Normalized[c.salt], c.kdf>>
       IN  x \in DOMAIN Derived /\ Derived[x] \in DOMAIN Stretched
  /\ NoCredential \notin Credentials
  /\ MaxDerivations \in Nat

-----------------------------------------------------------------------------

PBKDF2_PRELOGIN_MIN_ITERATIONS    == 5000
PBKDF2_PRELOGIN_MAX_ITERATIONS    == 2000000
ARGON2ID_PRELOGIN_MIN_ITERATIONS  == 2
ARGON2ID_PRELOGIN_MIN_MEMORY_MIB  == 16
ARGON2ID_PRELOGIN_MIN_PARALLELISM == 1
ARGON2ID_PRELOGIN_MAX_ITERATIONS  == 10
ARGON2ID_PRELOGIN_MAX_MEMORY_MIB  == 1024
ARGON2ID_PRELOGIN_MAX_PARALLELISM == 16

(* The minimums alone.  Seeded fault: validate checks no more. *)
AboveMinimums(k) ==
  \/ k.kind = "pbkdf2" /\ k.iterations >= PBKDF2_PRELOGIN_MIN_ITERATIONS
  \/ /\ k.kind = "argon2id"
     /\ k.iterations  >= ARGON2ID_PRELOGIN_MIN_ITERATIONS
     /\ k.memory_mib  >= ARGON2ID_PRELOGIN_MIN_MEMORY_MIB
     /\ k.parallelism >= ARGON2ID_PRELOGIN_MIN_PARALLELISM

(* KdfConfig::validate *)
InRange(k) ==
  \/ /\ k.kind = "pbkdf2"
     /\ k.iterations \in PBKDF2_PRELOGIN_MIN_ITERATIONS .. PBKDF2_PRELOGIN_MAX_ITERATIONS
  \/ /\ k.kind = "argon2id"
     /\ k.iterations  \in ARGON2ID_PRELOGIN_MIN_ITERATIONS .. ARGON2ID_PRELOGIN_MAX_ITERATIONS
     /\ k.memory_mib  \in ARGON2ID_PRELOGIN_MIN_MEMORY_MIB .. ARGON2ID_PRELOGIN_MAX_MEMORY_MIB
     /\ k.parallelism \in ARGON2ID_PRELOGIN_MIN_PARALLELISM .. ARGON2ID_PRELOGIN_MAX_PARALLELISM

(* u32::MAX \div 1024: the most MiB that checked_mul turns into KiB. *)
MaxMultiplicand == 4194303

(* argon2::Params::new: at least 8 KiB in all and 8 KiB per lane, at least *)
(* one pass, between one lane and 2^24 - 1.                                *)
ParamsFit(k) ==
  LET kib == k.memory_mib * 1024 IN
  /\ kib >= 8 /\ kib >= 8 * k.parallelism
  /\ k.iterations >= 1
  /\ k.parallelism >= 1 /\ k.parallelism <= 16777215

(* Argon2::hash_password_into.  Its salt is a SHA-256 digest and its output *)
(* AES_KEY_LEN bytes, so that of its limits only the password's is left.   *)
HashTakes(c) == c.kdf.kind = "argon2id" => c.password \notin LongPasswords

(* Credentials that pass every check of derive_master_key. *)
Accepted(c) == InRange(c.kdf) /\ HashTakes(c)

KeyOf(c) ==
  KeyFromBytes([name  |-> Derived[<<c.password, Normalized[c.salt], c.kdf>>],
                reads |-> {"legacy32"}, kid |-> ""])

(* stretch_key takes any key with 32 bytes of key material, *)
StretchFault(k) == IF k.form = "legacy64" THEN "InvalidKeyLength" ELSE "none"
(* and makes 64 bytes of it. *)
StretchedKey(k) ==
  KeyFromBytes([name |-> Stretched[k.secret], reads |-> {"legacy64"}, kid |-> ""])

-----------------------------------------------------------------------------

KdfInit ==
  /\ dpc = "idle" /\ cred = NoCredential
  /\ master = NoKey /\ stretched = NoKey
  /\ derivations = 0 /\ typed = {}

Derive(c) ==
  /\ dpc \in {"idle", "done", "refused"}
  /\ derivations < MaxDerivations
  /\ dpc' = "validate" /\ cred' = c
  /\ derivations' = derivations + 1 /\ typed' = typed \cup {c}
  /\ UNCHANGED <<master, stretched>>

Goto(to) == dpc' = to /\ UNCHANGED <<cred, master, stretched, derivations, typed>>

Validate ==
  /\ dpc = "validate"
  /\ \/ ~ InRange(cred.kdf) /\ Goto("refused")
     \/ InRange(cred.kdf) /\ cred.kdf.kind = "pbkdf2" /\ Goto("hash")
     \/ InRange(cred.kdf) /\ cred.kdf.kind = "argon2id" /\ Goto("multiply")

(* memory_mib.checked_mul(1024) *)
Multiply ==
  /\ dpc = "multiply"
  /\ Goto(IF cred.kdf.memory_mib > MaxMultiplicand THEN "refused" ELSE "params")

BuildParams ==
  /\ dpc = "params"
  /\ Goto(IF ParamsFit(cred.kdf) THEN "hash" ELSE "refused")

(* The caller replaces its master key. *)
Return(k) == dpc' = "done" /\ master' = k /\ UNCHANGED <<cred, stretched, derivations, typed>>

(* Seeded fault: argon2's error is dropped and the buffer of zeros returned. *)
HashErrorDropped ==
  /\ dpc = "hash"
  /\ Return(IF HashTakes(cred) THEN KeyOf(cred)
            ELSE [form |-> "legacy32", secret |-> "zeros", kid |-> ""])

Hash ==
  /\ dpc = "hash"
  /\ \/ ~ HashTakes(cred) /\ Goto("refused")
     \/ HashTakes(cred) /\ Return(KeyOf(cred))

(* The caller stretches the master key it holds. *)
Stretch ==
  /\ master.form # "none" /\ StretchFault(master) = "none"
  /\ stretched' = StretchedKey(master)
  /\ UNCHANGED <<dpc, cred, master, derivations, typed>>

KdfStep == Validate \/ Multiply \/ BuildParams \/ Hash \/ Stretch

KdfNext == KdfStep \/ \E c \in Credentials : Derive(c)

KdfSpec == KdfInit /\ [][KdfNext]_kdfVars

-----------------------------------------------------------------------------

(* The keys in a caller's hand are those of credentials it typed and that  *)
(* passed every check, whatever was refused before or after.               *)
KdfTypeOK ==
  /\ dpc \in {"idle", "validate", "multiply", "params", "hash", "done", "refused"}
  /\ typed \subseteq Credentials
  /\ cred \in typed \cup {NoCredential}
  /\ dpc # "idle" => cred \in typed
  /\ master \in {NoKey} \cup {KeyOf(c) : c \in {d \in typed : Accepted(d)}}
  /\ stretched \in {NoKey} \cup {StretchedKey(KeyOf(c)) : c \in {d \in typed : Accepted(d)}}
  /\ derivations \in 0 .. MaxDerivations

(* A derivation is refused exactly for parameters out of validate's ranges *)
(* and, with Argon2, for a password argon2 does not take: behind validate  *)
(* neither the multiplication in u32 nor Argon2's limits on parameters can *)
(* fail, and parameters out of range are refused before anything is        *)
(* hashed.  What was derived is the key of the credentials typed last, and *)
(* stretches into one that AES-CBC-HMAC strings can be opened with.        *)
RefusedByRangeOrLength ==
  /\ dpc = "refused" =>
       \/ ~ InRange(cred.kdf)
       \/ cred.kdf.kind = "argon2id" /\ cred.password \in LongPasswords
  /\ dpc \in {"multiply", "params", "hash", "done"} => InRange(cred.kdf)
  /\ dpc = "done" =>
       /\ cred.kdf.kind = "argon2id" => cred.password \notin LongPasswords
       /\ master = KeyOf(cred) /\ StretchFault(master) = "none"
  /\ stretched.form # "none" => stretched.form = "legacy64"
=============================================================================
