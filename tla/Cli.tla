--------------------------------- MODULE Cli ---------------------------------
(***************************************************************************)
(* The binaries bwu and bwu-agent from argument vector to exit code        *)
(* (crates/bwu-cli/src/lib.rs and crates/bwu-agent/src/lib.rs, run): parse *)
(* the root overrides, answer help, recognise the planned command, resolve *)
(* all paths, prepare the directories call by call as in OwnerOnlyDirs,    *)
(* and report that the command is not implemented.                         *)
(***************************************************************************)
EXTENDS OwnerOnlyDirs, Arguments

CONSTANTS
  Binary,        (* Binary[p]: "bwu" or "bwu-agent"                        *)
  Commands,      (* Commands[b]: words that name a planned command of b    *)
  Invocations,   (* Invocations[p]: [argv, xdg, home] p may be run with    *)
  HomeChild,     (* HomeChild[h, k]: default root of kind k under home h   *)
  NamespaceDir,  (* NamespaceDir[r]: the bwu directory under root r        *)
  NoInvocation   (* before the first invocation                            *)

VARIABLES
  inv,           (* inv[p]: the invocation p was last run with             *)
  exit,          (* exit[p]: its exit code, NoExit while there is none     *)
  calls          (* calls[p]: number of invocations, at most MaxRuns       *)

cliVars == <<vars, inv, exit, calls>>

NoExit == -1
Ok == 0
NotImplementedExit == 2
UsageExit == 64
PathErrorExit == 74

(* Kinds of directory a binary prepares, in order; also the overrides it   *)
(* allows.                                                                 *)
KindsOf(b) == IF b = "bwu" THEN <<"config", "cache", "data", "runtime">> ELSE <<"runtime">>
AllowedOf(b) == {KindsOf(b)[i] : i \in 1 .. Len(KindsOf(b))}

-----------------------------------------------------------------------------
(* What an invocation i asks of a binary b *)

Rest(a) == KeptBefore(a, Len(a) + 1)

Override(a, k) ==
  CHOOSE v \in {a[j] : j \in 1 .. Len(a)} \cup {NoOverride} : IsOverride(a, k, Len(a) + 1, v)

WantsHelp(a) == Rest(a) = {} \/ \E j \in Rest(a) : a[j].is = "help"

(* The first argument left is one of the planned words. *)
Planned(b, a) ==
  \E j \in Rest(a) : /\ \A l \in Rest(a) : j <= l
                     /\ a[j].is = "word" /\ a[j].of \in Commands[b]

Missing == "missing"

(* Override, then an absolute XDG variable, then a directory of an         *)
(* absolute HOME.                                                          *)
RootOf(i, k) ==
  LET o == Override(i.argv, k) IN
  IF o # NoOverride THEN o.of
  ELSE IF IsAbsolute(i.xdg[k]) THEN i.xdg[k].of
  ELSE IF IsAbsolute(i.home) THEN HomeChild[i.home.of, k]
  ELSE Missing

Resolvable(b, i) == \A k \in AllowedOf(b) : RootOf(i, k) # Missing

(* Seeded fault: the agent prepares whatever bwu would. *)
DirsOfBwu(b, i) ==
  LET known == SelectSeq(KindsOf("bwu"), LAMBDA k : RootOf(i, k) # Missing)
  IN  [j \in 1 .. Len(known) |-> NamespaceDir[RootOf(i, known[j])]]

Dirs(b, i) ==
  [j \in 1 .. Len(KindsOf(b)) |-> NamespaceDir[RootOf(i, KindsOf(b)[j])]]

Prepares(b, i) ==
  /\ Accepted(i.argv, AllowedOf(b))
  /\ ~ WantsHelp(i.argv)
  /\ Planned(b, i.argv)
  /\ Resolvable(b, i)

ASSUME InvocationsAssumption ==
  \A p \in Procs : \A i \in Invocations[p] :
    /\ i # NoInvocation
    /\ Prepares(Binary[p], i) => Dirs(Binary[p], i) \in TargetLists[p]

-----------------------------------------------------------------------------

CliInit ==
  /\ Init
  /\ inv   = [p \in Procs |-> NoInvocation]
  /\ exit  = [p \in Procs |-> NoExit]
  /\ calls = [p \in Procs |-> 0]

Called(p, i) ==
  /\ ~ Running(p)
  /\ calls[p] < MaxRuns
  /\ inv' = [inv EXCEPT ![p] = i]
  /\ calls' = [calls EXCEPT ![p] = @ + 1]

ExitAtOnce(p, code) == exit' = [exit EXCEPT ![p] = code] /\ UNCHANGED vars

RejectArguments(p, i) ==
  /\ Called(p, i)
  /\ ~ Accepted(i.argv, AllowedOf(Binary[p]))
  /\ ExitAtOnce(p, UsageExit)

Help(p, i) ==
  /\ Called(p, i)
  /\ Accepted(i.argv, AllowedOf(Binary[p])) /\ WantsHelp(i.argv)
  /\ ExitAtOnce(p, Ok)

UnknownCommand(p, i) ==
  /\ Called(p, i)
  /\ Accepted(i.argv, AllowedOf(Binary[p])) /\ ~ WantsHelp(i.argv)
  /\ ~ Planned(Binary[p], i.argv)
  /\ ExitAtOnce(p, UsageExit)

(* AppPaths::resolve or RuntimePaths::resolve fails. *)
CannotResolve(p, i) ==
  /\ Called(p, i)
  /\ Accepted(i.argv, AllowedOf(Binary[p])) /\ ~ WantsHelp(i.argv)
  /\ Planned(Binary[p], i.argv)
  /\ ~ Resolvable(Binary[p], i)
  /\ ExitAtOnce(p, PathErrorExit)

Prepare(p, i) ==
  /\ Called(p, i)
  /\ Prepares(Binary[p], i)
  /\ Start(p, Dirs(Binary[p], i))
  /\ exit' = [exit EXCEPT ![p] = NoExit]

(* Seeded fault: the result of ensure_owner_only_dirs is dropped. *)
WorkUnchecked(p) ==
  /\ Step(p) \/ IoFault(p)
  /\ exit' = [exit EXCEPT ![p] = IF pc'[p] # "done" THEN NoExit ELSE NotImplementedExit]
  /\ UNCHANGED <<inv, calls>>

(* Seeded fault: a failed preparation ends with the exit code of a panic. *)
WorkPanics(p) ==
  /\ Step(p) \/ IoFault(p)
  /\ exit' = [exit EXCEPT ![p] =
       IF pc'[p] # "done" THEN NoExit
       ELSE IF outcome'[p] = "ok" THEN NotImplementedExit ELSE 101]
  /\ UNCHANGED <<inv, calls>>

(* A call of the preparation; the last one decides the exit code. *)
Work(p) ==
  /\ Step(p) \/ IoFault(p)
  /\ exit' = [exit EXCEPT ![p] =
       IF pc'[p] # "done" THEN NoExit
       ELSE IF outcome'[p] = "ok" THEN NotImplementedExit ELSE PathErrorExit]
  /\ UNCHANGED <<inv, calls>>

Kill(p) == Crash(p) /\ UNCHANGED <<inv, exit, calls>>

CliNext ==
  \E p \in Procs :
    \/ \E i \in Invocations[p] :
         \/ RejectArguments(p, i)
         \/ Help(p, i)
         \/ UnknownCommand(p, i)
         \/ CannotResolve(p, i)
         \/ Prepare(p, i)
    \/ Work(p)
    \/ Kill(p)

CliSpec == CliInit /\ [][CliNext]_cliVars

-----------------------------------------------------------------------------

CliTypeOK ==
  /\ TypeOK
  /\ \A p \in Procs : inv[p] \in Invocations[p] \cup {NoInvocation}
  /\ exit \in [Procs -> {NoExit, Ok, NotImplementedExit, UsageExit, PathErrorExit}]
  /\ calls \in [Procs -> 0 .. MaxRuns]

(* Exit code 2, "not implemented", is reached only with every directory    *)
(* the invocation resolves to private, whichever source each root came     *)
(* from and whatever other runs did meanwhile; 74 only if a root had no    *)
(* source or the preparation gave up; 0 only if help was asked for in     *)
(* acceptable arguments; 64 only if the arguments are not acceptable or    *)
(* name no planned command.                                                *)
ExitCodeTellsTheTruth ==
  \A p \in Procs :
    LET b == Binary[p] IN
    /\ exit[p] = NotImplementedExit =>
         \A k \in AllowedOf(b) :
           RootOf(inv[p], k) # Missing /\ PrivateDir(NamespaceDir[RootOf(inv[p], k)], Euid[p])
    /\ exit[p] = PathErrorExit =>
         \/ \E k \in AllowedOf(b) : RootOf(inv[p], k) = Missing
         \/ pc[p] = "done" /\ outcome[p] \in Errors
    /\ exit[p] = Ok => Accepted(inv[p].argv, AllowedOf(b)) /\ WantsHelp(inv[p].argv)
    /\ exit[p] = UsageExit =>
         \/ ~ Accepted(inv[p].argv, AllowedOf(b))
         \/ ~ WantsHelp(inv[p].argv) /\ ~ Planned(b, inv[p].argv)

(* Something appears or changes on disk only on the way to a directory     *)
(* that a running invocation resolved: bad arguments, help, an unknown     *)
(* command or one root that cannot be resolved leave the disk alone, and   *)
(* the agent touches nothing but its runtime directory.                    *)
OnlyNamedPaths ==
  [][\A n \in Nodes : fs'[n] # fs[n] =>
       \E p \in Procs :
         /\ Running(p) /\ Prepares(Binary[p], inv[p])
         /\ \E k \in AllowedOf(Binary[p]) :
              LET c == Chain[NamespaceDir[RootOf(inv[p], k)]] IN
              \E d \in 1 .. Len(c) : c[d] = n]_cliVars

(* Preparing directories from the command line is a behaviour of           *)
(* OwnerOnlyDirs, so what holds there holds here.                          *)
PreparesAsSpecified == Spec
=============================================================================
