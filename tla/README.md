# A TLA+ model of bwu

bwu is an unofficial Bitwarden command-line client in Rust, at an early
milestone: three crates, of which `bwu-core` holds the logic and `bwu-cli` and
`bwu-agent` are thin binaries. What exists and can go wrong is the preparation
of private directories, by two binaries that may run at the same time, and the
read-only cryptographic core. This directory models both, from the argument vector
to the exit code and from the typed password to the text of an item, checks the
models with TLC, and proves the main results with TLAPS.

All paths below are relative to `src/crates/`.

## The system

| component | code | state | operations | interacts with |
|---|---|---|---|---|
| owner-only directory preparation | `bwu-core/src/paths.rs` 358-514, 106-118, 141-145 | the file system; none of its own between calls | `ensure_owner_only_dirs`, `ensure_owner_only_dir_with_ops`, `reject_symlinked_namespace_dir`, the seven calls of `DirOps` | other bwu processes and other tools, through the file system only: there is no lock |
| root override parsing | `paths.rs` 12-72, 235-263 | the iterator, what is kept and what is set | `extract_root_overrides` | called by both binaries |
| path resolution | `paths.rs` 89-139, 277-356 | none; reads the environment | `AppPaths::resolve`, `RuntimePaths::resolve` | called before anything is created |
| bwu and bwu-agent dispatch | `bwu-cli/src/lib.rs` 46-82, `bwu-agent/src/lib.rs` 48-76, `bwu-core/src/command.rs` | none; an exit code | `run` | the three above |
| payload decryption | `bwu-core/src/crypto.rs` 811-838, 869-946, 785-799, 738-751 | none | `decrypt_payload`, `decrypt_symmetric_key`, `decrypt_field` | ciphers of external crates |
| vault item decryption | `crypto.rs` 754-783 | wrapping key, field key, the map of fields | `decrypt_vault_item` | payload decryption |
| symmetric key material | `crypto.rs` 276-331, 948-1028 | kind and bytes of a key | `SymmetricKey::new`, `from_raw_cose_key_bytes`, unpadding | payload decryption |
| encrypted string parsers | `crypto.rs` 381-421, 447-500, 840-867 | none | `EncryptedString::parse`, `RsaEncryptedString::parse` | base64, COSE decoding |
| key derivation | `crypto.rs` 130-172, 612-666 | none | `KdfConfig::validate`, `derive_master_key`, `stretch_key` | argon2, pbkdf2, hkdf |
| key hierarchy | `crypto.rs` 669-735, 801-809 | none; its caller holds account, private, organization and item keys | `decrypt_account_key`, `decrypt_private_key`, `decrypt_organization_key`, `decrypt_item_key` | payload decryption, OpenSSL |
| redaction, error texts, names | `redaction.rs`, `error.rs`, `namespace.rs` | none | formatting | all |

The API client, the local store, the agent's socket and unlock timeout, TOTP and
passkeys are described by `src/docs/` (the ADRs) but have no code.

### What is hard

* **Concurrency without locks.** Preparation is seven or more system calls per
  directory and decides on what an earlier call said: the mode compared at
  `paths.rs:468` was read before the owner was checked, and whether a directory
  is a symlink was asked before and after creating it.
  Correct means: `Ok(())` implies that each directory is a real one, of the
  process's user, mode 0700, whoever else ran meanwhile; nothing that existed
  is opened up; processes of one user never make each other fail, nor keep each
  other from finishing.
* **Kills and partial failure.** A run may stop between any two calls or fail at
  the third directory of four. Correct means: what is left never keeps a later
  run from succeeding, and the exit code never claims more than was done.
* **Arguments that shadow each other.** A flag consumes what follows it, be it
  `--help`. Correct means: the loop gives every command line its declared
  meaning and reports the first fault of several.
* **Order of checks.** Which error a payload yields, and whether content of one
  kind can be read as another, depends on the order of a dozen checks. Correct
  means: an item comes back entire, opened under exactly the keys it prescribes,
  or with the error of its first fault; an error about a content is about a
  genuine one; a string that parsed has what decryption
  takes for granted.
* **Numbers from a server.** KDF parameters are u32 that come with an account.
  Behind the ranges of `validate` stand a multiplication in 32 bits and the limits
  of argon2, on its parameters and on the password. Correct means: the ranges
  alone decide about parameters, and no refusal yields a key.
* **Calls in any order.** Nothing in the code says in which order its caller opens
  a vault, or what a caller may keep after a failure. Correct means: nothing is
  ever in hand that was not sealed under something in hand before, from the
  owner's password down; whatever is sound opens in the end however damaged the
  rest is; and an error tells the caller whether a password was wrong or a key is
  still to come.

## The modules

| module | models | built on |
|---|---|---|
| `NamespaceOwnership` | the abstract promise of directory preparation: exclusive, irrevocable ownership; success only when all that is needed is held | |
| `OwnerOnlyDirs` | preparation, one action per system call and the test of its result; kills, re-runs, faults | implements `NamespaceOwnership` |
| `OwnerOnlyDirsEnv` | the same beside tools that change modes and replace directories by links | `OwnerOnlyDirs` |
| `Arguments` | the meaning of a command line, without a loop | |
| `RootOverrides` | the loop of `extract_root_overrides` | `Arguments` |
| `Cli` | both binaries from argument vector to exit code | `OwnerOnlyDirs`, `Arguments` |
| `Payload` | opening encrypted strings: every check in its order, ideal ciphers | |
| `KeyMaterial` | how bytes become a symmetric key: legacy lengths, padded and unpadded COSE keys | `Payload` |
| `ItemMeaning` | what decrypting an item means, without a loop | `Payload` |
| `VaultItem` | the steps of `decrypt_vault_item` | `ItemMeaning` |
| `EncryptedStrings` | both parsers of encrypted strings, check by check | |
| `Kdf` | from password and parameters to the stretched master key, check by check | `Payload` |
| `Access` | the abstract promise of the key hierarchy: secrets are learned along seals only | |
| `Unlock` | a session: passwords, then every `decrypt_*` function in any order | `Kdf`, `ItemMeaning`; implements `Access` |
| `*_proofs` | theorems about the module of that name (`OwnerOnlyDirs_proofs`: also `OwnerOnlyDirsEnv`; `Unlock_proofs`: also `Kdf`) | `TLAPS` |
| `MC*` | the instances TLC checks | |

### Directory preparation

`pc[p]` names the call process `p` makes next: `lstat` (the first symlink check),
`exists`, `mkdir` (the recursive `create_dir_all`, component by component, which
is `Climb`, `MakeDir`, `AlreadyDir`, `NotADir`), `relstat` (the second check),
`mode`, `owner`, `chmod`, `verify`. A step is a call together with the branch on
its result; nothing else of the process is visible, so this is the finest
interleaving there is. `seen[p]` is the mode read at `paths.rs:443`. The list of
directories is the loop of `ensure_owner_only_dirs`; the agent's list has one.

A mode is a set of permission classes: "owner" for rwx of the owner, "group" and
"other" for any bit of theirs. That is what 0700 is compared with. An owner
without "owner" has lost some of the bits (a umask like 0177 does that to a new
directory, and the `chmod` step repairs it). Whether a process may search somebody
else's directory depends on bits this does not keep, so `Doubtful` lets such a
call succeed or fail. Calls that certainly fail (below a file, below a foreign
0700 directory) fail (`CannotReach`). A file system without modes is
`FixedMode`; calls that fail for reasons outside the model are `IoFault`. The
kernel and `std::fs::DirBuilder` are external code, modelled from how
`RealDirOps` uses them. A symlink to a directory is one entry, with the owner and
mode of what it points to, because `fs::metadata` follows it; one to nothing is a
`dangling` entry, which a path walk finds nothing behind and `mkdir` finds in its
place. At a directory to be prepared any link is refused, whatever it points to;
on the way to one, a link to a file is a file. Another process's
removal of a directory is not modelled: bwu removes nothing.

### Command lines

An argument is a flag of some kind, an absolute path, a help flag or a word; that
is all the parser and the dispatcher distinguish. `Cli` does not repeat the loop:
it takes the meaning from `Arguments`, which `RootOverrides_proofs` shows the
loop to compute. An invocation is argument vector, XDG variables and HOME; it is
parsed, dispatched and resolved in its first step, because nothing before the
first system call is visible to other processes, and then prepares its
directories call by call through `OwnerOnlyDirs`.

### Encrypted items

An encrypted string has a scheme, the secret it was sealed with, what its headers
say and a set of defects; a cipher opens it only under that secret and unaltered.
`AesFault`, `CoseFault`, `KeyFault` and `FieldFault` list the checks of the
functions in their order with the error each yields; the first decides. Bytes
are known by the ways they can be read (as text, by length as a legacy key, as a
COSE key with or without padding), which is where the code branches.

`KeyMaterial` goes down to the bytes for that last point, with the three lengths
(32, 64 and the longest padding byte) as constants. CBOR decoding is external: a
function from encodings to keys of which no encoding is a prefix of another,
since a CBOR item ends by itself and `from_slice` refuses trailing bytes.
`ReadAsInPayload` ties the two modules: what `Payload` derives from the readings
is what the code derives from the bytes.

`EncryptedStrings` takes a serialized string as the parsers cut it: what stands
before the first dot, and the pieces between bars, each base64 or not, with the
length it decodes to and whether that is a COSE message. Everything the two
functions ask is asked of these. `Payload` begins where the parsers end, and
`DecryptionMayRely` is the interface: what `decrypt_payload` no longer looks at.

### From a password to an item

In `Kdf`, `dpc` is what `derive_master_key` does next: `validate`, `multiply` (the
`checked_mul` into KiB), `params` (`argon2::Params::new`), `hash`
(`hash_password_into`, which may refuse, too). Parameters are their numbers, and
the limits of u32 and of argon2 are the real ones. Of what `hash_password_into`
checks, the salt and the output have fixed lengths here; a password of 2^32 bytes
or more (`LongPasswords`) is what is left. `derive_master_key` keeps nothing and
clears nothing: `master` and `stretched` are what its caller holds, and stay there
through later derivations and refusals until a later key replaces them. `typed`
records the credentials of the session for the properties; no action reads it. The
hash functions are ideal: a constant function with other names for other inputs,
where the salt enters trimmed and in lower case (`Normalized`).

`Unlock` is the caller the fixture tests are a special case of: it holds what the
functions returned (`master`, `stretched`, `account`, `private`, `orgs`, `opened`)
and makes any call whose keys it has, in any order, again after a failure, and
with passwords typed anew; the account key may be tried with the stretched key of
any credentials typed so far, not only of the last. Each function of the hierarchy
is one action, because it has no state of its own; the two loops of
`decrypt_vault_item` are in `VaultItem`, and `ItemMeaning`, which `VaultItem` is
proved to compute, is what `Unlock` uses for a call. RSA is ideal, too: a string
opens under the key pair and the digest it was encrypted with. `Access` knows
neither formats nor an order of calls; a session implements it under the mapping
in `Unlock`, in which a typed password is the only way in and everything else
follows a seal of the vault.

A vault records what it is made of (who sealed each string with what, and what is
wrong with it), and an owner: the credentials it was set up with. What it means
that a part is sound is said without the lists of checks, as what the owner's
clients produce: `SealedWith` is a flawless string in the scheme that goes with a
key, `SoundAccountKey`, `SoundPrivateKey`, `SoundOrgKey` and `SoundItem` add the
content each part must have, and `SoundChain` is an item with everything above it,
up to an owner whose KDF parameters and password are accepted. The properties
compare what the functions do with that. `VaultsAssumption` states what is taken
of the hashes and of a vault: different inputs hash to different secrets, and an
account key is sealed with the owner's stretched key or with nothing that typing
can give.

## The runs

| run | question | instance |
|---|---|---|
| `dirs_shared` | success means private, for every interleaving; nothing is widened; the refinement | bwu, the agent, and a bwu of root with the same HOME; two runs each; two directories, of which one parent chain is missing on one disk and the other on another; root with a faulty device, a umask that clears owner bits and, in some runs, its data on a file system without modes; the agent with no umask |
| `dirs_clean_start` | do both processes get there | bwu and agent of one user, clean disks and disks with open directories, one kill each at any point |
| `dirs_obstacles` | does every error tell the truth, and does every call bring a run nearer its end | three processes, one run each; links, dangling links, files and foreign directories at every place, parents missing |
| `dirs_tools` | what the repeated looks are worth when other tools interfere | two processes, two runs, three changes of mode or replacements by a link at any moment |
| `overrides` | loop and meaning agree | all command lines of up to five arguments from six, both sets of allowed flags |
| `cli` | exit codes and touched paths | ten invocations of bwu and six of the agent, two per process in any order, three disks |
| `vault_item` | all or nothing, right fault, right keys, and no word on content that is not genuine | two kinds of account key, with and without the organization's key, eight item keys, up to two fields of sixteen |
| `encrypted_strings` | has each input one declared result, and may decryption rely on what parsed | both parsers, types 0 to 8 and none, up to four pieces of six sorts |
| `kdf` | do the ranges and the password's length alone decide, and whose keys are in hand | parameters at, inside and outside each bound of `validate`, of u32 and of argon2; an overlong password with some of them; two derivations in a row, stretching at any moment |
| `unlock` | is what opens genuine, for the owner only and along seals only; does what is sound open; do errors mean something | fifteen vaults, thirteen of them with one part damaged, mixed up or malformed or with an owner whose parameters are refused; five credentials, two derivations, calls in any order |
| `doc_aes_only` | a statement of the doc comment that does not hold, see below | as `encrypted_strings` |
| `key_material` | is every key read as what it was made from | all byte strings up to length 8 over three bytes, lengths 32 and 64 scaled to 2 and 4, eight encodings of which four are usable keys |

**Why the bounds are enough.** A bug of preparation needs a process that looks
and one that changes the disk in between; three processes of two users have all
combinations of owner and user, and a second run per process is what a crash
leaves for. Two directories and three levels make a shared parent, a climb over
several components and a list that fails in its middle. A command line of five
arguments holds two flags of a kind with values and an argument between them. Two
fields are a repeated name. With 2 and 4 for 32 and 64, encoded keys of lengths 3
to 6 lie below, at and above the legacy length, and padding of one and of two
bytes fits in the inputs. Pieces of 0, 16, 17, 32 and 48 bytes fit each place of an
AES string, none, or a COSE message, and four pieces are one more than any type
takes. Two derivations are a wrong password and a right one in either order; one
item of the account and one of an organization exercise every key, and each
damaged vault has one fault, at each stage of the hierarchy once or more. Memory
goes to 2097151 MiB, the most whose KiB TLC can multiply, and to 4194304, the
first that overflows in u32; `validate` refuses both, and the theorem covers what
lies between. The theorems remove the bounds where they apply.

`MaxRuns`, `MaxChanges`, `MaxArgs`, `MaxFields`, `MaxLen` and `MaxDerivations` bound
exploration only. Deadlock is not checked: a process that has used up its runs, a
parsed command line or string, a key that was read, a decrypted item and a session
in which no call is left have nothing to do.

**What they show.** The order of the calls makes the stale mode of `paths.rs:468`
harmless among bwu processes, since none of them widens a mode, changes an owner
or removes a directory (`ReadsStayTrue`, `OkMeansPrivate`). Against other tools
the promise is exactly `OkUnlessLate`: only a change after the last look is
missed, and the second symlink check is needed for that. Root running bwu with
the user's HOME never takes over what exists (`OnlyNarrowing`), though a directory
root is first to create stays root's and the user's runs then fail, with an error
that says so (`NoSpuriousFailure`). `create_dir_all` goes up to what is missing and
comes down again while others create and refuse the same components; no order of
calls sends a run back (`CallsRunOut`).

In the cryptographic core the error paths behind `validate` and behind the parsers
that look reachable are not (`DecryptionMayRely`), but for a password longer than
argon2 takes (`RefusedByRangeOrLength`), and a derivation that is refused yields no
key (`KdfTypeOK`). Badly padded content, a text that is none and a repeated name are
reported of genuine strings only, whatever is damaged
(`OnlyGenuineContentIsJudged`). A damaged
private key or organization key costs the items of that organization and no
others (`SoundItemsOpen`). Whatever a tampered vault offers, what comes into hand
was sealed for its place all the way down from the owner's password
(`OnlyGenuineOpens`), and no account key comes into hand but with the stretched key
of the owner's own credentials, whatever other keys the caller has kept
(`OnlyTheOwnerGetsIn`). An error is about
the part the call was made on: `AuthenticationFailed` from a sound account key
means wrong credentials, though perhaps earlier ones whose stretched key is still in
hand, and `MissingOrganizationKey` for a sound item means a
key still to come (`FailuresHaveAReason`). `decrypt_organization_key` ignores the
MAC of types 5 and 6; the parser requires it to be there.

**A disagreement.** The doc comment of `EncryptedString::parse` (`crypto.rs`
384-385) says "Only authenticated AES-CBC-HMAC strings are accepted". The code
accepts type 7, COSE_Encrypt0, as well (`crypto.rs` 404), deliberately, since the
rest of the module decrypts them: the comment is out of date. `doc_aes_only` shows
it by a string of type 7 that parses.

**Fairness.** `EventuallyPrepared` assumes that a running process is scheduled
(weak fairness of its next call: the operating system) and that a user whose
command was killed runs it again, while kills are bounded by `MaxRuns`. No process
waits for another, so nothing stronger is needed. The run has no foreign user,
no fault and no obstacle, where failure is right. `SoundItemsOpen` assumes weak
fairness of every call of a session but the typing of a password: the functions
are synchronous and wait for nothing, and a caller that holds the keys a call
takes makes it some time. Its conclusion lapses when other credentials are typed
meanwhile. The loops elsewhere end because they consume an iterator.

**Seeded faults.** Beside the definitions stand variants marked "Seeded fault"
that a slip in the code would produce: a dropped check, swapped order, a
forgotten mode. None is part of a specification. Put in place of the definition
they vary, each makes TLC report a property of the runs violated, so no property
holds by the shape of the model alone.

## What is proved

Every theorem holds for all values of the constants under the named assumptions of
the modules (`ProcsAssumption`, `PathsAssumption`, `TargetsAssumption`,
`InitFsAssumption`, `ToolsAssumption`, `CommandLinesAssumption`,
`InvocationsAssumption`, `ItemsAssumption`, `LengthsAssumption`,
`InputsAssumption`, `CborAssumption`, `PiecesAssumption`, `KdfAssumption`,
`VaultsAssumption`), which TLC evaluates for the instances.

* **`OwnerOnlyDirs_proofs`**: `TypeCorrect`, `StaleReadsAreHarmless`,
  `OkIsTrustworthy`, `NeverWidens`, `Implements`. `OkMeansPrivate` is not
  inductive: success is reported in one step and rests on what was found out in
  the ten before. The inductive invariant `IInv` adds `ReadsStayTrue`, what each
  value of `pc` implies about the disk. The proof has two halves: no step of any
  process takes anything back from the file system (`Kept`), so what holds of a
  process is kept by the others; and each of its own steps establishes what the
  next value of `pc` implies. The same invariant gives the action property and
  the refinement, in which a step that makes a directory owner-only is a claim.
  `HoldersAreForever` draws the consequences of `NamespaceOwnership` alone: after a
  success its user holds all the run needed, and no holder is ever replaced.
  `PreparationEnds` is the part of termination that is a safety property: the
  measure `CallsLeft` falls with every call of a process, or the process goes on to
  the next directory of its list, and no step of another process raises it. In
  `create_dir_all` each missing component above counts two calls, one up and one
  down, and whoever creates it lowers the count (`FewerMissing`, `OthersShorten`).
  With a process that is scheduled at all this is the end of every run.
  `ErrorsTellTheTruth` has one more assumption, `OwnersEnter`: a directory of the
  initial file system lacks its owner's bits only if some process's umask clears
  them. What an error says is true
  when it is returned and stays true, again because nothing is taken back.
  `OkIsTrustworthyUnlessLate` is about `OwnerOnlyDirsEnv`, where things are taken
  back: there `EnvInv` says of each fact either that it holds or that the change
  which undid it is among the late ones, and a tool's change is late for exactly
  the processes whose facts it undoes (`ToolsExcuse`).
* **`RootOverrides_proofs`**: `LoopOnCourse`, `ParserCorrect`, for command lines of
  any length. `IInv` says that what was collected is the meaning of the prefix
  passed, and that the last argument passed is not a flag, so the next one is not
  a value.
* **`Cli_proofs`**: `CliPrepares`, every behaviour of the binaries is one of
  `OwnerOnlyDirs`, by which its invariant carries over; `CliTypeCorrect`,
  `ExitCodesAreTrue`, `TouchesOnlyWhatIsNamed`. The last needs that a process is
  always at work on the directories of its own invocation. `BinariesKeepPromise`
  collects what the binaries inherit: the refinement, `OnlyNarrowing`,
  `CallsRunOut`, and that no holder is replaced.
* **`VaultItem_proofs`**: `AllOrNothing`, for any number of fields; `LoopOnCourse`:
  `IInv` says that the key at hand is the one the item prescribes and that all
    fields passed were faultless and are in the map. `NothingForeignOpens` goes
  through the lists of checks: `Payload_proofs` shows what the absence of a fault
  tells about a string, starting from a lemma about the first failing check
  (`FirstDecides`), and, the other way, that what is flawless passes all of them
  (`AesOpens`, `CoseOpens`, `KeyOpens`, `FieldOpens`).
  `NoVerdictOnForeignContent` needs the errors as well: which check yields which
  (`AesErrors`, `CoseErrors`), and so what an error about content presupposes.
* **`KeyMaterial_proofs`**: `TypeCorrect`, `KeysReadAsDeclared`,
  `PaddedKeysSurvive`, `PayloadReadsAlike`. The first says that a key that was
  read has the kind, the length and the id that the ciphers rely on. Unpadding
  undoes padding and nothing else (`PaddingUndone`); as no encoding is a prefix of
  another, no bytes encode two keys (`Unambiguous`), so trying to unpad first
  costs nothing.
* **`EncryptedStrings_proofs`**: `TypeCorrect`, `ParsersCorrect`,
  `ParsedMeansDecryptable`, for any number of pieces. `IInv` says what the checks
  passed so far have established, in terms of the declared meaning.
* **`Unlock_proofs`**: `KdfTypeCorrect` and `RangesDecide`, where the arithmetic of
    the ranges against u32 and argon2 is one lemma (`RangesSuffice`); and
  `SessionsImplementAccess`, from an invariant that each slot holds what the vault
  has for it: as every string opens under the secret
  that sealed it and no other, each call maps to learning along a seal, through
  an item key that is not kept where the item has one. `NothingBeyondReach`
  reads that off for any set closed under the seals of the vault: nothing outside
  it is ever in hand.
  `EverythingInHandIsGenuine` is `OnlyGenuineOpens`, part by part, from what each
  slot holds and what the absence of a fault tells. It needs the hashes injective:
  a key that opens the account key was derived from the owner's credentials
  (`StretchedOfTyped`, `OwnerOpens`), which gives `OnlyTheOwner`, too.
  `FailuresExplained` goes the other way: a sound part under the right key passes
  every check (`SoundAccountKeyOpens`, `SoundPrivateKeyOpens`,
  `SoundOrganizationKeyOpens`, `SoundItemOpens`), so a call that failed was made on
  a part that is not sound, or without the key. It holds of every vault, not of
  undamaged ones only.

Only model-checked: the two liveness properties, `EventuallyPrepared` and
`SoundItemsOpen`, which are beyond the proof system. The safety properties they
rest on are proved: `CallsRunOut` and `NoSpuriousFailure` for the first,
`FailuresHaveAReason` for the second.
`PreparesAsSpecified` is only proved: as a property of the `cli` run it costs TLC
more than the theorem costs the reader. The parameters between the bounds in the
`kdf` run are covered by `RangesDecide` alone.

## Not modelled

The `#[cfg(not(unix))]` variant of directory creation; help and error texts, the
`main` functions, constants; redaction and zeroizing of memory (there is no state
to speak of it in); the insides of ciphers, hashes, RSA, base64 and CBOR, which are
external crates. The API client, the store, the agent's socket and timeout, TOTP
and passkeys have no code, and what has no code has no model.

## Plan

All modules planned are there: preparation (`NamespaceOwnership`, `OwnerOnlyDirs`,
`OwnerOnlyDirsEnv`), the binaries (`Arguments`, `RootOverrides`, `Cli`), the
cryptographic core (`Payload`, `KeyMaterial`, `EncryptedStrings`, `ItemMeaning`,
`VaultItem`, `Kdf`, `Access`, `Unlock`) and the proofs of their safety properties.
When the code grows: the agent's socket and unlock timeout beside `Unlock`, whose
sessions never lock; the encrypted store, for which crashes between two writes
will matter; sync, which replaces a vault while a session has it open.
