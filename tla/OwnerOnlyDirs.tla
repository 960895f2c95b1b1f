---------------------------- MODULE OwnerOnlyDirs ----------------------------
(***************************************************************************)
(* Preparation of the bwu namespace directories                            *)
(* (crates/bwu-core/src/paths.rs, ensure_owner_only_dir_with_ops).         *)
(*                                                                         *)
(* Several processes, of one user or of several (sudo bwu), prepare their  *)
(* directories at the same time on one file system.  A step of a process   *)
(* is one system call together with the test made of its result; the file  *)
(* system may change between any two of them.  A process may be killed     *)
(* between two calls and be started again.                                 *)
(*                                                                         *)
(* A mode is the set of the permission classes it grants: 0o700 is         *)
(* {"owner"}, 0o755 is all three, and a mode that lacks an owner bit, such *)
(* as 0o500, does not contain "owner".                                     *)
(***************************************************************************)
EXTENDS Integers, Sequences, FiniteSets

CONSTANTS
  Procs,         (* processes of bwu and bwu-agent                         *)
  Users,         (* user ids                                               *)
  NoUser,        (* owner field of a path where nothing exists             *)
  Root,          (* the user no permission check stops                     *)
  Euid,          (* Euid[p]: effective user of process p                   *)
  Umask,         (* Umask[p]: permission classes the umask of p clears     *)
  Nodes,         (* path components the processes may touch                *)
  Chain,         (* Chain[n]: components of path n, outermost first        *)
  TargetLists,   (* TargetLists[p]: directory lists a run of p may prepare *)
  FixedMode,     (* nodes on a file system that ignores modes              *)
  FaultyProcs,   (* processes whose system calls may fail for other causes *)
  InitFs,        (* file systems the first process may find                *)
  MaxRuns        (* bound on the number of runs of one process             *)

VARIABLES
  fs,            (* fs[n]: what is at path n                               *)
  pc,            (* pc[p]: the system call p makes next                    *)
  targets,       (* targets[p]: directories the current run prepares       *)
  tgt,           (* tgt[p]: position of the current one in targets[p]      *)
  depth,         (* depth[p]: component create_dir_all is at               *)
  seen,          (* seen[p]: the mode p has read last                      *)
  outcome,       (* outcome[p]: result of the last finished run            *)
  runs           (* runs[p]: number of runs started                        *)

vars == <<fs, pc, targets, tgt, depth, seen, outcome, runs>>

PermBits  == {"owner", "group", "other"}
OwnerOnly == {"owner"}                       \* OWNER_ONLY_DIR_MODE

(* A "link" leads to a directory and has its owner and mode, a "dangling"  *)
(* link to nothing.  On the way to something else, a link to a file is     *)
(* what a file is.                                                         *)
Entry == [kind : {"absent", "dir", "link", "dangling", "file"},
          owner : Users \cup {NoUser}, mode : SUBSET PermBits]

Symlinks == {"link", "dangling"}             \* what lstat calls a symlink
Nothing  == {"absent", "dangling"}           \* ENOENT for what follows links

(* The path of n is reached through its chain, and whatever exists has     *)
(* directories, or links to directories, above it.                         *)
WellFormed(f) ==
  \A n \in Nodes : f[n].kind # "absent" =>
    \A i \in 1 .. Len(Chain[n]) - 1 : f[Chain[n][i]].kind \in {"dir", "link"}

ASSUME ProcsAssumption ==
  /\ Euid \in [Procs -> Users]
  /\ Umask \in [Procs -> SUBSET PermBits]
  /\ NoUser \notin Users
  /\ MaxRuns \in Nat
ASSUME PathsAssumption ==
  /\ Chain \in [Nodes -> Seq(Nodes)]
  /\ \A n \in Nodes : Len(Chain[n]) > 0 /\ Chain[n][Len(Chain[n])] = n
  /\ \A n \in Nodes : \A i \in 1 .. Len(Chain[n]) :
       Chain[Chain[n][i]] = SubSeq(Chain[n], 1, i)
ASSUME TargetsAssumption ==
  \A p \in Procs : \A ts \in TargetLists[p] : ts \in Seq(Nodes) /\ Len(ts) > 0
ASSUME InitFsAssumption ==
  \A f \in InitFs : f \in [Nodes -> Entry] /\ WellFormed(f)

-----------------------------------------------------------------------------

Syscalls == {"lstat", "exists", "mkdir", "relstat", "mode", "owner", "chmod", "verify"}
Errors   == {"io", "symlink", "owner", "mode"}

Running(p) == pc[p] \in Syscalls

Target(p)    == targets[p][tgt[p]]
Component(p) == Chain[Target(p)][depth[p]]

(* n is a real directory of u with mode 0o700. *)
PrivateDir(n, u) ==
  /\ fs[n].kind = "dir"
  /\ fs[n].owner = u
  /\ fs[n].mode = OwnerOnly

(* What exists above n. *)
Above(n) == {m \in {Chain[n][i] : i \in 1 .. Len(Chain[n]) - 1} : fs[m].kind \notin Nothing}

(* The path a system call of p is about. *)
Path(p) == IF pc[p] = "mkdir" THEN Component(p) ELSE Target(p)

(* Every call of p about n fails: ENOTDIR below a file, EACCES below an    *)
(* owner-only directory of somebody else.                                  *)
Unreachable(p, n) ==
  \E m \in Above(n) :
    \/ fs[m].kind = "file"
    \/ Euid[p] # Root /\ fs[m].owner # Euid[p] /\ fs[m].mode \subseteq OwnerOnly

(* A call of p about n may fail with EACCES: the classes of a mode do not  *)
(* say whether p may search, or create in, a directory above n that is     *)
(* somebody else's or lacks an owner bit.                                  *)
Doubtful(p, n) ==
  Euid[p] # Root /\ \E m \in Above(n) : fs[m].owner # Euid[p] \/ "owner" \notin fs[m].mode

(* Seeded fault: the mode of DirBuilder is forgotten, mkdir gets 0o777. *)
NewDirDefaultMode(p, n) ==
  [kind  |-> "dir",
   owner |-> Euid[p],
   mode  |-> IF n \in FixedMode THEN PermBits ELSE PermBits \ Umask[p]]

(* What mkdir(path, 0o700) leaves on disk: the umask applies, unless the   *)
(* file system has one mode for everything.                                *)
NewDir(p, n) ==
  [kind  |-> "dir",
   owner |-> Euid[p],
   mode  |-> IF n \in FixedMode THEN PermBits ELSE OwnerOnly \ Umask[p]]

Goto(p, to) == pc' = [pc EXCEPT ![p] = to]

Fail(p, why) ==
  /\ Goto(p, "done")
  /\ outcome' = [outcome EXCEPT ![p] = why]
  /\ UNCHANGED <<fs, targets, tgt, depth, seen, runs>>

(* The current directory is fine: go on with the next one of the list, or  *)
(* report success after the last.                                          *)
NextTarget(p) ==
  /\ \/ /\ tgt[p] < Len(targets[p])
        /\ tgt' = [tgt EXCEPT ![p] = @ + 1]
        /\ Goto(p, "lstat")
        /\ UNCHANGED outcome
     \/ /\ tgt[p] = Len(targets[p])
        /\ Goto(p, "done")
        /\ outcome' = [outcome EXCEPT ![p] = "ok"]
        /\ UNCHANGED tgt
  /\ UNCHANGED <<targets, depth, runs>>

-----------------------------------------------------------------------------

Init ==
  /\ fs      \in InitFs
  /\ pc      = [p \in Procs |-> "idle"]
  /\ targets = [p \in Procs |-> << >>]
  /\ tgt     = [p \in Procs |-> 1]
  /\ depth   = [p \in Procs |-> 1]
  /\ seen    = [p \in Procs |-> {}]
  /\ outcome = [p \in Procs |-> "none"]
  /\ runs    = [p \in Procs |-> 0]

(* The binary is run: the paths are resolved before anything is created.   *)
Start(p, ts) ==
  /\ ~Running(p)
  /\ runs[p] < MaxRuns
  /\ Goto(p, "lstat")
  /\ targets' = [targets EXCEPT ![p] = ts]
  /\ tgt'     = [tgt EXCEPT ![p] = 1]
  /\ depth'   = [depth EXCEPT ![p] = 1]
  /\ seen'    = [seen EXCEPT ![p] = {}]
  /\ outcome' = [outcome EXCEPT ![p] = "none"]
  /\ runs'    = [runs EXCEPT ![p] = @ + 1]
  /\ UNCHANGED fs

(* Seeded fault: only the first of the two checks for a symlink is made. *)
RejectSymlinkOnce(p, from, to) ==
  /\ pc[p] = from
  /\ ~Unreachable(p, Path(p))
  /\ \/ from = "lstat" /\ fs[Target(p)].kind \in Symlinks /\ Fail(p, "symlink")
     \/ /\ from = "relstat" \/ fs[Target(p)].kind \notin Symlinks
        /\ Goto(p, to)
        /\ UNCHANGED <<fs, targets, tgt, depth, seen, outcome, runs>>

(* reject_symlinked_namespace_dir, called before and after the creation.   *)
RejectSymlink(p, from, to) ==
  /\ pc[p] = from
  /\ ~Unreachable(p, Path(p))
  /\ \/ fs[Target(p)].kind \in Symlinks /\ Fail(p, "symlink")
     \/ /\ fs[Target(p)].kind \notin Symlinks
        /\ Goto(p, to)
        /\ UNCHANGED <<fs, targets, tgt, depth, seen, outcome, runs>>

(* The next call of p cannot reach its path; the error is returned. *)
CannotReach(p) ==
  /\ Running(p)
  /\ Unreachable(p, Path(p))
  /\ Fail(p, "io")

(* path_exists: its answer only words an error message. *)
PathExists(p) ==
  /\ pc[p] = "exists" /\ ~Unreachable(p, Path(p))
  /\ Goto(p, "mkdir")
  /\ depth' = [depth EXCEPT ![p] = Len(Chain[Target(p)])]
  /\ UNCHANGED <<fs, targets, tgt, seen, outcome, runs>>

(* A component of the path is there: create_dir_all returns to the mkdir   *)
(* of the component below it, or is finished.                              *)
Descend(p) ==
  /\ \/ /\ depth[p] < Len(Chain[Target(p)])
        /\ depth' = [depth EXCEPT ![p] = @ + 1]
        /\ UNCHANGED pc
     \/ /\ depth[p] = Len(Chain[Target(p)])
        /\ Goto(p, "relstat")
        /\ UNCHANGED depth
  /\ UNCHANGED <<targets, tgt, seen, outcome, runs>>

ParentMissing(p) ==
  depth[p] > 1 /\ fs[Chain[Target(p)][depth[p] - 1]].kind \in Nothing

(* Seeded fault: the climb skips a component. *)
ClimbTwice(p) ==
  /\ pc[p] = "mkdir" /\ ~Unreachable(p, Path(p))
  /\ ParentMissing(p)
  /\ depth' = [depth EXCEPT ![p] = @ - 2]
  /\ UNCHANGED <<fs, pc, targets, tgt, seen, outcome, runs>>

(* Seeded fault: the parent is tried before the directory, missing or not. *)
ClimbAnyway(p) ==
  /\ pc[p] = "mkdir" /\ ~Unreachable(p, Path(p))
  /\ depth[p] > 1
  /\ depth' = [depth EXCEPT ![p] = @ - 1]
  /\ UNCHANGED <<fs, pc, targets, tgt, seen, outcome, runs>>

(* mkdir fails with ENOENT: create_dir_all turns to the parent first. *)
Climb(p) ==
  /\ pc[p] = "mkdir" /\ ~Unreachable(p, Path(p))
  /\ ParentMissing(p)
  /\ depth' = [depth EXCEPT ![p] = @ - 1]
  /\ UNCHANGED <<fs, pc, targets, tgt, seen, outcome, runs>>

MakeDir(p) ==
  /\ pc[p] = "mkdir" /\ ~Unreachable(p, Path(p))
  /\ ~ParentMissing(p)
  /\ fs[Component(p)].kind = "absent"
  /\ fs' = [fs EXCEPT ![Component(p)] = NewDir(p, Component(p))]
  /\ Descend(p)

(* Seeded fault: a directory that somebody created meanwhile is an error. *)
AlreadyDirFails(p) ==
  /\ pc[p] = "mkdir" /\ ~Unreachable(p, Path(p))
  /\ fs[Component(p)].kind \in {"dir", "link"}
  /\ Fail(p, "io")

(* mkdir fails with EEXIST on something that is_dir: not an error, another *)
(* process may have created it a moment ago.                               *)
AlreadyDir(p) ==
  /\ pc[p] = "mkdir" /\ ~Unreachable(p, Path(p))
  /\ fs[Component(p)].kind \in {"dir", "link"}
  /\ Descend(p)
  /\ UNCHANGED fs

(* EEXIST on a file, or on a link to nothing, is returned. *)
NotADir(p) ==
  /\ pc[p] = "mkdir" /\ ~Unreachable(p, Path(p))
  /\ fs[Component(p)].kind \in {"file", "dangling"}
  /\ Fail(p, "io")

(* permissions_mode, which follows a link. *)
ReadMode(p) ==
  /\ pc[p] = "mode" /\ ~Unreachable(p, Path(p))
  /\ seen' = [seen EXCEPT ![p] = fs[Target(p)].mode]
  /\ Goto(p, "owner")
  /\ UNCHANGED <<fs, targets, tgt, depth, outcome, runs>>

(* Seeded fault: an open directory of the user's own is an error. *)
RefuseOpenDir(p) ==
  /\ pc[p] = "owner" /\ ~Unreachable(p, Path(p))
  /\ \/ fs[Target(p)].owner # Euid[p] /\ Fail(p, "owner")
     \/ /\ fs[Target(p)].owner = Euid[p]
        /\ seen[p] = OwnerOnly
        /\ NextTarget(p)
        /\ UNCHANGED <<fs, seen>>
     \/ seen[p] # OwnerOnly /\ Fail(p, "mode")

(* Seeded fault: a private directory of somebody else is accepted. *)
CheckModeOnly(p) ==
  /\ pc[p] = "owner" /\ ~Unreachable(p, Path(p))
  /\ \/ /\ seen[p] = OwnerOnly
        /\ NextTarget(p)
        /\ UNCHANGED <<fs, seen>>
     \/ seen[p] # OwnerOnly /\ fs[Target(p)].owner # Euid[p] /\ Fail(p, "owner")
     \/ /\ seen[p] # OwnerOnly /\ fs[Target(p)].owner = Euid[p]
        /\ Goto(p, "chmod")
        /\ UNCHANGED <<fs, targets, tgt, depth, seen, outcome, runs>>

(* Seeded fault: the mode is compared, and corrected, before the owner. *)
CheckModeFirst(p) ==
  /\ pc[p] = "owner" /\ ~Unreachable(p, Path(p))
  /\ \/ seen[p] = OwnerOnly /\ fs[Target(p)].owner # Euid[p] /\ Fail(p, "owner")
     \/ /\ seen[p] = OwnerOnly /\ fs[Target(p)].owner = Euid[p]
        /\ NextTarget(p)
        /\ UNCHANGED <<fs, seen>>
     \/ /\ seen[p] # OwnerOnly
        /\ Goto(p, "chmod")
        /\ UNCHANGED <<fs, targets, tgt, depth, seen, outcome, runs>>

(* owner_id against effective_owner_id, then the mode read one call ago. *)
CheckOwner(p) ==
  /\ pc[p] = "owner" /\ ~Unreachable(p, Path(p))
  /\ \/ fs[Target(p)].owner # Euid[p] /\ Fail(p, "owner")
     \/ /\ fs[Target(p)].owner = Euid[p]
        /\ seen[p] = OwnerOnly
        /\ NextTarget(p)
        /\ UNCHANGED <<fs, seen>>
     \/ /\ fs[Target(p)].owner = Euid[p]
        /\ seen[p] # OwnerOnly
        /\ Goto(p, "chmod")
        /\ UNCHANGED <<fs, targets, tgt, depth, seen, outcome, runs>>

(* set_permissions_mode returns without an error; a file system with one   *)
(* mode for everything ignores it.                                         *)
Chmod(p) ==
  /\ pc[p] = "chmod" /\ ~Unreachable(p, Path(p))
  /\ fs' = IF Target(p) \in FixedMode THEN fs
           ELSE [fs EXCEPT ![Target(p)].mode = OwnerOnly]
  /\ Goto(p, "verify")
  /\ UNCHANGED <<targets, tgt, depth, seen, outcome, runs>>

(* Seeded fault: a chmod that returned no error is believed. *)
BelieveChmod(p) ==
  /\ pc[p] = "verify" /\ ~Unreachable(p, Path(p))
  /\ NextTarget(p)
  /\ UNCHANGED <<fs, seen>>

(* The mode is read again: a chmod that did not take is an error. *)
VerifyMode(p) ==
  /\ pc[p] = "verify" /\ ~Unreachable(p, Path(p))
  /\ \/ /\ fs[Target(p)].mode = OwnerOnly
        /\ NextTarget(p)
        /\ UNCHANGED <<fs, seen>>
     \/ fs[Target(p)].mode # OwnerOnly /\ Fail(p, "mode")

(* Any of the calls may fail for a cause the model does not see (EIO, a    *)
(* read-only file system), or for a permission it does not resolve; every  *)
(* error is returned at once.                                              *)
IoFault(p) ==
  /\ Running(p)
  /\ p \in FaultyProcs \/ Doubtful(p, Path(p))
  /\ Fail(p, "io")

(* The process is killed between two calls; another run can follow. *)
Crash(p) ==
  /\ Running(p)
  /\ runs[p] < MaxRuns
  /\ Goto(p, "idle")
  /\ UNCHANGED <<fs, targets, tgt, depth, seen, outcome, runs>>

Step(p) ==
  \/ RejectSymlink(p, "lstat", "exists")
  \/ CannotReach(p)
  \/ PathExists(p)
  \/ Climb(p)
  \/ MakeDir(p)
  \/ AlreadyDir(p)
  \/ NotADir(p)
  \/ RejectSymlink(p, "relstat", "mode")
  \/ ReadMode(p)
  \/ CheckOwner(p)
  \/ Chmod(p)
  \/ VerifyMode(p)

Next ==
  \E p \in Procs :
    \/ \E ts \in TargetLists[p] : Start(p, ts)
    \/ Step(p)
    \/ IoFault(p)
    \/ Crash(p)

Spec == Init /\ [][Next]_vars

(* A running process is scheduled again and again, and a user whose        *)
(* command was killed runs it again.                                       *)
Fairness ==
  \A p \in Procs :
    /\ WF_vars(Step(p))
    /\ WF_vars(pc[p] = "idle" /\ \E ts \in TargetLists[p] : Start(p, ts))

FairSpec == Spec /\ Fairness
-----------------------------------------------------------------------------
(* Safety *)

TypeOK ==
  /\ fs \in [Nodes -> Entry]
  /\ pc \in [Procs -> Syscalls \cup {"idle", "done"}]
  /\ targets \in [Procs -> Seq(Nodes)]
  /\ tgt \in [Procs -> Nat \ {0}]
  /\ depth \in [Procs -> Nat \ {0}]
  /\ seen \in [Procs -> SUBSET PermBits]
  /\ outcome \in [Procs -> Errors \cup {"ok", "none"}]
  /\ runs \in [Procs -> 0 .. MaxRuns]

Succeeded(p) == pc[p] = "done" /\ outcome[p] = "ok"

(* Whatever other processes did between the calls, a run that returned     *)
(* Ok(()) left every directory of its list a real directory of its own     *)
(* user with mode 0o700, although the mode compared at the end was read    *)
(* before the owner, and the earlier directories are never looked at       *)
(* again (ensure_owner_only_dirs, ensure_owner_only_dir_with_ops).         *)
OkIsPrivate(p) ==
  Succeeded(p) => \A i \in 1 .. Len(targets[p]) : PrivateDir(targets[p][i], Euid[p])

OkMeansPrivate == \A p \in Procs : OkIsPrivate(p)

(* An error says something true of the disk that is still so when the user *)
(* looks: a symlink error names a link, an owner error a directory of      *)
(* somebody else, a mode error a directory whose mode cannot be set, and   *)
(* an I/O error without a faulty device a path that is not a directory or  *)
(* lies below one of another user (or below one that a umask clearing      *)
(* owner bits spoilt).  So runs of one user that race to create the same   *)
(* parents never make each other fail.                                     *)
SaysTrue(p, why) ==
  /\ why = "symlink" => fs[Target(p)].kind \in Symlinks
  /\ why = "owner" => fs[Target(p)].kind = "dir" /\ fs[Target(p)].owner # Euid[p]
  /\ why = "mode" => Target(p) \in FixedMode
  /\ why = "io" =>
       \/ p \in FaultyProcs
       \/ \E q \in Procs : "owner" \in Umask[q]
       \/ \E i \in 1 .. Len(Chain[Target(p)]) :
            LET e == fs[Chain[Target(p)][i]] IN
            e.kind \in {"file", "dangling"} \/ (Euid[p] # Root /\ e.kind # "absent" /\ e.owner # Euid[p])

ErrorIsTrue(p) == pc[p] = "done" => SaysTrue(p, outcome[p])

NoSpuriousFailure == \A p \in Procs : ErrorIsTrue(p)

(* A new directory never grants anything to the group or to others, not    *)
(* even between its creation and its chmod, and what existed before is     *)
(* only ever narrowed to 0o700, by a process of its owner: root running    *)
(* bwu neither follows a link nor touches another user's directory.        *)
OnlyNarrowing ==
  [][\A n \in Nodes : fs'[n] # fs[n] =>
       \/ /\ fs[n].kind = "absent"
          /\ fs'[n].kind = "dir"
          /\ n \in FixedMode \/ fs'[n].mode \subseteq OwnerOnly
       \/ /\ fs[n].kind = "dir"
          /\ fs'[n] = [fs[n] EXCEPT !.mode = OwnerOnly]
          /\ \E p \in Procs : Euid[p] = fs[n].owner /\ Running(p)]_vars

(* The prefix of its list a running process has been through is private,   *)
(* and what it has read of the current directory is still worth something: *)
(* no step of any process widens a mode, changes an owner or removes a     *)
(* directory.  This is why the stale mode in CheckOwner does no harm.      *)
ReadsTrue(p) ==
  Running(p) =>
    /\ tgt[p] \in 1 .. Len(targets[p])
    /\ \A i \in 1 .. tgt[p] - 1 : PrivateDir(targets[p][i], Euid[p])
    /\ pc[p] = "mkdir" => depth[p] \in 1 .. Len(Chain[Target(p)])
    /\ pc[p] = "relstat" => fs[Target(p)].kind \in {"dir", "link"}
    /\ pc[p] \in {"mode", "owner", "chmod", "verify"} => fs[Target(p)].kind = "dir"
    /\ pc[p] = "owner" /\ seen[p] = OwnerOnly => fs[Target(p)].mode = OwnerOnly
    /\ pc[p] \in {"chmod", "verify"} => fs[Target(p)].owner = Euid[p]

ReadsStayTrue == \A p \in Procs : ReadsTrue(p)

(* The inductive invariant. *)
IInv == TypeOK /\ ReadsStayTrue /\ OkMeansPrivate

-----------------------------------------------------------------------------
(* Progress *)

(* The components above the one create_dir_all is at that do not exist. *)
MissingAbove(p) ==
  {j \in 1 .. depth[p] - 1 : fs[Chain[Target(p)][j]].kind \in Nothing}

(* The most calls p can still make about its current directory: a missing  *)
(* component costs one mkdir on the way up and one on the way down.        *)
CallsLeft(p) ==
  LET long == Len(Chain[Target(p)]) IN
  CASE pc[p] = "lstat"   -> 6 + 2 * long
    [] pc[p] = "exists"  -> 5 + 2 * long
    [] pc[p] = "mkdir"   -> 6 + long - depth[p] + 2 * Cardinality(MissingAbove(p))
    [] pc[p] = "relstat" -> 5
    [] pc[p] = "mode"    -> 4
    [] pc[p] = "owner"   -> 3
    [] pc[p] = "chmod"   -> 2
    [] pc[p] = "verify"  -> 1

Moves(p) == <<pc[p], targets[p], tgt[p], depth[p]>>' # <<pc[p], targets[p], tgt[p], depth[p]>>

(* Every step is a step of some process, and takes a running process       *)
(* closer to its end: to the next directory of its list, or to fewer calls *)
(* left for the current one, a number that no step of another process      *)
(* raises.  So a run makes at most 6 + 2 * n calls for a directory with n  *)
(* components, and create_dir_all cannot be kept going up and down by      *)
(* others that create the same parents.                                    *)
CallsRunOut ==
  [][/\ \E p \in Procs : Moves(p)
     /\ \A p \in Procs : Running(p) /\ Running(p)' =>
          \/ Moves(p) /\ tgt'[p] = tgt[p] + 1
          \/ Moves(p) /\ tgt'[p] = tgt[p] /\ CallsLeft(p)' < CallsLeft(p)
          \/ ~Moves(p) /\ CallsLeft(p)' <= CallsLeft(p)]_vars

-----------------------------------------------------------------------------
(* Liveness *)

(* On a file system without faults, links or foreign directories in the    *)
(* way, a user whose bwu and agent are started together, and killed at any *)
(* point but run again, ends up with all directories prepared.             *)
EventuallyPrepared == \A p \in Procs : <>[]Succeeded(p)

-----------------------------------------------------------------------------
(* Refinement *)

HolderOf(n) == IF fs[n].kind = "dir" /\ fs[n].mode = OwnerOnly THEN fs[n].owner ELSE NoUser

NeedsOf(p) == {targets[p][i] : i \in 1 .. Len(targets[p])}

StatusOf(p) ==
  IF Running(p) THEN "running"
  ELSE IF pc[p] = "idle" THEN "idle"
  ELSE IF outcome[p] = "ok" THEN "ok" ELSE "failed"

absHolder == [n \in Nodes |-> HolderOf(n)]
absNeeds  == [p \in Procs |-> NeedsOf(p)]
absStatus == [p \in Procs |-> StatusOf(p)]

Ownership == INSTANCE NamespaceOwnership WITH
  holder <- absHolder, needs <- absNeeds, status <- absStatus

(* The system calls implement the exclusive, irrevocable ownership of      *)
(* directories that NamespaceOwnership describes in one step per claim.    *)
Promise == Ownership!Spec
=============================================================================
