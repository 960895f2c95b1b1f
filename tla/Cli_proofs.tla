------------------------------ MODULE Cli_proofs ------------------------------
(***************************************************************************)
(* The command line drives the preparation as OwnerOnlyDirs says, for any  *)
(* invocations, so its theorems hold of the binaries.                      *)
(***************************************************************************)
EXTENDS Cli, OwnerOnlyDirs_proofs

LEMMA CliStepPrepares == CliNext => [Next]_vars
<1> SUFFICES ASSUME CliNext PROVE Next \/ UNCHANGED vars
  OBVIOUS
<1>1. ASSUME NEW p \in Procs, NEW i \in Invocations[p], Prepare(p, i)
      PROVE  Next
  <2>1. Dirs(Binary[p], i) \in TargetLists[p] /\ Start(p, Dirs(Binary[p], i))
    BY <1>1, InvocationsAssumption DEF Prepare
  <2> QED BY <2>1 DEF Next
<1>2. ASSUME NEW p \in Procs, Work(p)
      PROVE  Next
  BY <1>2 DEF Work, Next
<1>3. ASSUME NEW p \in Procs, Kill(p)
      PROVE  Next
  BY <1>3 DEF Kill, Next
<1> QED BY <1>1, <1>2, <1>3
        DEF CliNext, RejectArguments, Help, UnknownCommand, CannotResolve, ExitAtOnce

(* Every behaviour of the binaries is one of OwnerOnlyDirs: parsing, help, *)
(* unknown commands and failed resolution are stutters on the disk.        *)
THEOREM CliPrepares == CliSpec => PreparesAsSpecified
<1>1. CliInit => Init
  BY DEF CliInit
<1>2. [CliNext]_cliVars => [Next]_vars
  BY CliStepPrepares DEF cliVars
<1> QED BY <1>1, <1>2, PTL DEF CliSpec, PreparesAsSpecified, Spec

-----------------------------------------------------------------------------

(* The command lines that are answered at once. *)
DeservesHelp(b, a) == Accepted(a, AllowedOf(b)) /\ WantsHelp(a)

DeservesUsage(b, a) ==
  ~ Accepted(a, AllowedOf(b)) \/ (~ WantsHelp(a) /\ ~ Planned(b, a))

(* What a process that runs, or has exited, can say of its invocation.     *)
Accounted(p) ==
  /\ Running(p) => exit[p] = NoExit
  /\ Running(p) \/ exit[p] = NotImplementedExit =>
       Prepares(Binary[p], inv[p]) /\ targets[p] = Dirs(Binary[p], inv[p])
  /\ exit[p] = NotImplementedExit => Succeeded(p)
  /\ exit[p] = PathErrorExit =>
       \/ \E k \in AllowedOf(Binary[p]) : RootOf(inv[p], k) = Missing
       \/ pc[p] = "done" /\ outcome[p] \in Errors
  /\ exit[p] = Ok => DeservesHelp(Binary[p], inv[p].argv)
  /\ exit[p] = UsageExit => DeservesUsage(Binary[p], inv[p].argv)

(* The inductive invariant of the command line. *)
CliInv ==
  /\ IInv
  /\ CliTypeOK
  /\ inv \in [Procs -> (UNION {Invocations[p] : p \in Procs}) \cup {NoInvocation}]
  /\ \A p \in Procs : Accounted(p)

(* A call of the preparation keeps the list of directories, and a run that *)
(* it ends has a result.                                                   *)
LEMMA WorkResult ==
  ASSUME IInv, NEW p \in Procs, Step(p) \/ IoFault(p)
  PROVE  /\ Running(p) /\ Safe(p) /\ targets' = targets
         /\ pc'[p] = "done" => outcome'[p] \in Errors \cup {"ok"}
         /\ pc'[p] # "done" => Running(p)'
<1>1. TypeOK
  BY DEF IInv
<1>2. Running(p)
  BY DEF Step, IoFault, RejectSymlink, CannotReach, PathExists, Climb, MakeDir, AlreadyDir,
         NotADir, ReadMode, CheckOwner, Chmod, VerifyMode, Running, Syscalls
<1>3. Safe(p)
  BY StepSafe, FailSafe DEF IoFault, Errors
<1>4. targets' = targets
  BY DEF Step, IoFault, RejectSymlink, CannotReach, PathExists, Climb, MakeDir, AlreadyDir,
         NotADir, ReadMode, CheckOwner, Chmod, VerifyMode, Fail, Descend, NextTarget
<1>5. /\ pc'[p] = "done" => outcome'[p] \in Errors \cup {"ok"}
      /\ pc'[p] # "done" => pc'[p] \in Syscalls
  BY <1>1, <1>2 DEF TypeOK, Running, Syscalls, Errors, Goto,
         Step, IoFault, RejectSymlink, CannotReach, PathExists, Climb, MakeDir, AlreadyDir,
         NotADir, ReadMode, CheckOwner, Chmod, VerifyMode, Fail, Descend, NextTarget
<1> QED BY <1>2, <1>3, <1>4, <1>5 DEF Running

(* The types of what Cli adds to OwnerOnlyDirs. *)
Types ==
  /\ exit \in [Procs -> {NoExit, Ok, NotImplementedExit, UsageExit, PathErrorExit}]
  /\ calls \in [Procs -> 0 .. MaxRuns]
  /\ inv \in [Procs -> (UNION {Invocations[p] : p \in Procs}) \cup {NoInvocation}]
  /\ \A p \in Procs : inv[p] \in Invocations[p] \cup {NoInvocation}

(* CliInv in the parts a step is checked for. *)
LEMMA CliInvParts ==
  ASSUME IInv', Types', \A p \in Procs : Accounted(p)'
  PROVE  CliInv'
BY DEF CliInv, CliTypeOK, Types, IInv

(* An invocation keeps them, whatever it exits with. *)
LEMMA CalledTypes ==
  ASSUME CliInv, NEW p \in Procs, NEW i \in Invocations[p], Called(p, i),
         NEW code \in {NoExit, Ok, NotImplementedExit, UsageExit, PathErrorExit},
         exit' = [exit EXCEPT ![p] = code]
  PROVE  /\ Types'
         /\ exit'[p] = code /\ inv'[p] = i
         /\ \A q \in Procs \ {p} : exit'[q] = exit[q] /\ inv'[q] = inv[q]
<1> HIDE DEF NoExit, Ok, NotImplementedExit, UsageExit, PathErrorExit
<1>1. Types
  BY DEF CliInv, CliTypeOK, Types
<1>2. calls' \in [Procs -> 0 .. MaxRuns]
  <2>1. calls[p] \in 0 .. MaxRuns /\ calls[p] < MaxRuns /\ MaxRuns \in Nat
    BY <1>1, ProcsAssumption DEF Types, Called
  <2>2. calls[p] + 1 \in 0 .. MaxRuns
    BY <2>1
  <2> QED BY <1>1, <2>2 DEF Types, Called
<1>3. inv' = [inv EXCEPT ![p] = i]
  BY DEF Called
<1>4. exit' \in [Procs -> {NoExit, Ok, NotImplementedExit, UsageExit, PathErrorExit}]
  BY <1>1 DEF Types
<1>5. /\ inv' \in [Procs -> (UNION {Invocations[q] : q \in Procs}) \cup {NoInvocation}]
      /\ \A q \in Procs : inv'[q] \in Invocations[q] \cup {NoInvocation}
  BY <1>1, <1>3 DEF Types
<1> QED BY <1>1, <1>2, <1>3, <1>4, <1>5 DEF Types

(* A step of p that is not about q leaves q accounted for. *)
LEMMA OthersAccounted ==
  ASSUME CliInv, NEW p \in Procs, NEW q \in Procs \ {p}, Untouched(q),
         exit'[q] = exit[q], inv'[q] = inv[q]
  PROVE  Accounted(q)'
BY DEF CliInv, Accounted, Untouched, Running, Succeeded

(* An invocation that exits at once does so for the reason its code gives. *)
LEMMA AtOnce ==
  ASSUME CliInv, NEW p \in Procs, NEW i \in Invocations[p], Called(p, i),
         NEW code \in {Ok, UsageExit, PathErrorExit}, ExitAtOnce(p, code),
         code = Ok => DeservesHelp(Binary[p], i.argv),
         code = UsageExit => DeservesUsage(Binary[p], i.argv),
         code = PathErrorExit => \E k \in AllowedOf(Binary[p]) : RootOf(i, k) = Missing
  PROVE  CliInv'
<1>1. IInv'
  BY NextIInv DEF ExitAtOnce, CliInv
<1>2. /\ Types' /\ exit'[p] = code /\ inv'[p] = i
      /\ \A q \in Procs \ {p} : exit'[q] = exit[q] /\ inv'[q] = inv[q]
  BY CalledTypes DEF ExitAtOnce
<1> USE DEF NoExit, Ok, NotImplementedExit, UsageExit, PathErrorExit
<1>3. \A q \in Procs : Untouched(q)
  BY DEF ExitAtOnce, vars, Untouched
<1>4. ~ Running(p)'
  BY DEF Called, ExitAtOnce, vars, Running
<1>5. Accounted(p)'
  BY <1>2, <1>4 DEF Accounted
<1>6. \A q \in Procs : Accounted(q)'
  BY <1>2, <1>3, <1>5, OthersAccounted
<1> QED BY <1>1, <1>2, <1>6, CliInvParts

(* Starting to prepare records the directories of the invocation. *)
LEMMA PrepareAccounted ==
  ASSUME CliInv, NEW p \in Procs, NEW i \in Invocations[p], Prepare(p, i)
  PROVE  CliInv'
<1>1. /\ Start(p, Dirs(Binary[p], i)) /\ Dirs(Binary[p], i) \in TargetLists[p]
      /\ Prepares(Binary[p], i)
  BY InvocationsAssumption DEF Prepare
<1>2. IInv /\ TypeOK
  BY DEF CliInv, IInv
<1>3. Safe(p) /\ IInv'
  BY <1>1, <1>2, StartSafe, SafeIsEnough
<1>4. /\ Types' /\ exit'[p] = NoExit /\ inv'[p] = i
      /\ \A q \in Procs \ {p} : exit'[q] = exit[q] /\ inv'[q] = inv[q]
  BY CalledTypes DEF Prepare
<1>5. targets'[p] = Dirs(Binary[p], i)
  BY <1>1, <1>2 DEF Start, TypeOK
<1>6. Accounted(p)'
  BY <1>1, <1>4, <1>5
     DEF Accounted, NoExit, Ok, NotImplementedExit, UsageExit, PathErrorExit
<1>7. \A q \in Procs : Accounted(q)'
  BY <1>3, <1>4, <1>6, OthersAccounted DEF Safe
<1> QED BY <1>3, <1>4, <1>7, CliInvParts

LEMMA WorkAccounted ==
  ASSUME CliInv, NEW p \in Procs, Work(p)
  PROVE  CliInv'
<1> USE DEF NoExit, Ok, NotImplementedExit, UsageExit, PathErrorExit
<1>1. IInv /\ (Step(p) \/ IoFault(p))
  BY DEF CliInv, Work
<1>2. /\ Running(p) /\ Safe(p) /\ targets' = targets
      /\ pc'[p] = "done" => outcome'[p] \in Errors \cup {"ok"}
      /\ pc'[p] # "done" => Running(p)'
  BY <1>1, WorkResult
<1>3. IInv'
  BY <1>1, <1>2, SafeIsEnough
<1>4. /\ Types'
      /\ exit'[p] = IF pc'[p] # "done" THEN NoExit
                    ELSE IF outcome'[p] = "ok" THEN NotImplementedExit ELSE PathErrorExit
      /\ inv' = inv /\ \A q \in Procs \ {p} : exit'[q] = exit[q]
  BY DEF CliInv, CliTypeOK, Types, Work
<1>5. Prepares(Binary[p], inv[p]) /\ targets[p] = Dirs(Binary[p], inv[p])
  BY <1>2 DEF CliInv, Accounted
<1>6. CASE pc'[p] # "done"
  <2>1. Accounted(p)'
    BY <1>2, <1>4, <1>5, <1>6 DEF Accounted, Succeeded
  <2> QED BY <1>2, <1>3, <1>4, <2>1, OthersAccounted, CliInvParts DEF Safe
<1>7. CASE pc'[p] = "done"
  <2>1. ~ Running(p)'
    BY <1>7 DEF Running, Syscalls
  <2>2. Accounted(p)'
    BY <1>2, <1>4, <1>5, <1>7, <2>1 DEF Accounted, Succeeded
  <2> QED BY <1>2, <1>3, <1>4, <2>2, OthersAccounted, CliInvParts DEF Safe
<1> QED BY <1>6, <1>7

LEMMA KillAccounted ==
  ASSUME CliInv, NEW p \in Procs, Kill(p)
  PROVE  CliInv'
<1> USE DEF NoExit, Ok, NotImplementedExit, UsageExit, PathErrorExit
<1>1. IInv /\ Crash(p) /\ inv' = inv /\ exit' = exit /\ Types'
  BY DEF CliInv, CliTypeOK, Types, Kill
<1>2. Safe(p) /\ IInv'
  BY <1>1, CrashSafe, SafeIsEnough
<1>3. exit[p] = NoExit
  BY <1>1 DEF CliInv, Accounted, Crash
<1>4. ~ Running(p)'
  BY <1>1 DEF IInv, TypeOK, Crash, Goto, Running, Syscalls
<1>5. Accounted(p)'
  BY <1>1, <1>3, <1>4 DEF Accounted
<1> QED BY <1>1, <1>2, <1>5, OthersAccounted, CliInvParts DEF Safe

LEMMA NextCliInv == CliInv /\ [CliNext]_cliVars => CliInv'
<1> SUFFICES ASSUME CliInv, [CliNext]_cliVars PROVE CliInv'
  OBVIOUS
<1>1. ASSUME NEW p \in Procs, NEW i \in Invocations[p],
             RejectArguments(p, i) \/ UnknownCommand(p, i)
      PROVE  CliInv'
  <2>1. Called(p, i) /\ ExitAtOnce(p, UsageExit) /\ DeservesUsage(Binary[p], i.argv)
    BY <1>1 DEF RejectArguments, UnknownCommand, DeservesUsage
  <2> QED BY <2>1, AtOnce DEF Ok, UsageExit, PathErrorExit
<1>2. ASSUME NEW p \in Procs, NEW i \in Invocations[p], Help(p, i)
      PROVE  CliInv'
  <2>1. Called(p, i) /\ ExitAtOnce(p, Ok) /\ DeservesHelp(Binary[p], i.argv)
    BY <1>2 DEF Help, DeservesHelp
  <2> QED BY <2>1, AtOnce DEF Ok, UsageExit, PathErrorExit
<1>3. ASSUME NEW p \in Procs, NEW i \in Invocations[p], CannotResolve(p, i)
      PROVE  CliInv'
  BY <1>3, AtOnce DEF CannotResolve, Resolvable,
                      NoExit, Ok, NotImplementedExit, UsageExit, PathErrorExit
<1>5. CASE CliNext
  BY <1>1, <1>2, <1>3, <1>5, PrepareAccounted, WorkAccounted, KillAccounted DEF CliNext
<1>4. CASE UNCHANGED cliVars
  <2>1. IInv'
    BY <1>4, NextIInv DEF cliVars, CliInv
  <2>2. Types' /\ \A p \in Procs : Accounted(p)'
    BY <1>4 DEF cliVars, vars, CliInv, CliTypeOK, Types, Accounted, Running, Succeeded
  <2> QED BY <2>1, <2>2, CliInvParts
<1> QED BY <1>4, <1>5

LEMMA InitCliInv == CliInit => CliInv
<1> SUFFICES ASSUME CliInit PROVE CliInv
  OBVIOUS
<1> USE DEF CliInit, NoExit, Ok, NotImplementedExit, UsageExit, PathErrorExit
<1>1. IInv
  BY InitIInv
<1>2. \A p \in Procs : ~ Running(p)
  BY DEF Init, Running, Syscalls
<1>3. ASSUME NEW p \in Procs PROVE Accounted(p)
  <2>1. exit[p] = -1 /\ ~ Running(p)
    BY <1>2
  <2> QED BY <2>1 DEF Accounted
<1>4. inv \in [Procs -> (UNION {Invocations[p] : p \in Procs}) \cup {NoInvocation}]
  OBVIOUS
<1>5. CliTypeOK
  BY <1>1, ProcsAssumption DEF CliTypeOK, IInv
<1> QED BY <1>1, <1>3, <1>4, <1>5 DEF CliInv

(* What the command line adds keeps its types, whatever is invoked. *)
THEOREM CliTypeCorrect == CliSpec => []CliTypeOK
<1>1. CliInv => CliTypeOK
  BY DEF CliInv
<1> QED BY <1>1, InitCliInv, NextCliInv, PTL DEF CliSpec

(* The exit codes tell the truth, for any binaries, invocations, disks and *)
(* interleavings: "not implemented" means that every directory the         *)
(* invocation asks for is private.                                         *)
THEOREM ExitCodesAreTrue == CliSpec => []ExitCodeTellsTheTruth
<1>1. CliInv => ExitCodeTellsTheTruth
  <2> SUFFICES ASSUME CliInv, NEW p \in Procs, exit[p] = NotImplementedExit,
                      NEW k \in AllowedOf(Binary[p])
               PROVE  RootOf(inv[p], k) # Missing
                      /\ PrivateDir(NamespaceDir[RootOf(inv[p], k)], Euid[p])
    BY DEF CliInv, Accounted, ExitCodeTellsTheTruth, DeservesHelp, DeservesUsage
  <2>1. Prepares(Binary[p], inv[p]) /\ targets[p] = Dirs(Binary[p], inv[p]) /\ Succeeded(p)
    BY DEF CliInv, Accounted
  <2>2. RootOf(inv[p], k) # Missing
    BY <2>1 DEF Prepares, Resolvable
  <2>3. PICK j \in 1 .. Len(KindsOf(Binary[p])) : k = KindsOf(Binary[p])[j]
    BY DEF AllowedOf
  <2>4. Len(Dirs(Binary[p], inv[p])) = Len(KindsOf(Binary[p]))
        /\ Dirs(Binary[p], inv[p])[j] = NamespaceDir[RootOf(inv[p], k)]
    BY <2>3 DEF Dirs, KindsOf
  <2>5. PrivateDir(targets[p][j], Euid[p])
    BY <2>1, <2>3, <2>4 DEF CliInv, IInv, OkMeansPrivate, OkIsPrivate
  <2> QED BY <2>1, <2>2, <2>4, <2>5
<1> QED BY <1>1, InitCliInv, NextCliInv, PTL DEF CliSpec

-----------------------------------------------------------------------------
(* What the binaries touch *)

(* n is on the way to a directory that a running invocation resolved. *)
Named(n) ==
  \E p \in Procs :
    /\ Running(p) /\ Prepares(Binary[p], inv[p])
    /\ \E k \in AllowedOf(Binary[p]) :
         LET c == Chain[NamespaceDir[RootOf(inv[p], k)]] IN
         \E d \in 1 .. Len(c) : c[d] = n

(* The components of its current directory are named by a running process. *)
LEMMA TargetIsNamed ==
  ASSUME CliInv, NEW p \in Procs, Running(p),
         NEW d \in 1 .. Len(Chain[Target(p)])
  PROVE  Named(Chain[Target(p)][d])
<1>1. Prepares(Binary[p], inv[p]) /\ targets[p] = Dirs(Binary[p], inv[p])
  BY DEF CliInv, Accounted
<1>2. tgt[p] \in 1 .. Len(targets[p])
  BY DEF CliInv, IInv, ReadsStayTrue, ReadsTrue
<1>3. tgt[p] \in 1 .. Len(KindsOf(Binary[p]))
  BY <1>1, <1>2 DEF Dirs, KindsOf
<1>4. PICK k \in AllowedOf(Binary[p]) : k = KindsOf(Binary[p])[tgt[p]]
  BY <1>3 DEF AllowedOf
<1>5. Target(p) = NamespaceDir[RootOf(inv[p], k)]
  BY <1>1, <1>3, <1>4 DEF Target, Dirs
<1> QED BY <1>1, <1>5 DEF Named

LEMMA ChangesAreNamed ==
  ASSUME CliInv, CliNext, NEW n \in Nodes, fs'[n] # fs[n]
  PROVE  Named(n)
<1>1. PICK p \in Procs : Work(p)
  BY DEF CliNext, RejectArguments, Help, UnknownCommand, CannotResolve, Prepare, Kill,
         ExitAtOnce, vars, Start, Crash
<1>2. MakeDir(p) \/ Chmod(p)
  BY <1>1 DEF Work, Step, IoFault, Fail, RejectSymlink, CannotReach, PathExists, Climb,
              AlreadyDir, NotADir, ReadMode, CheckOwner, VerifyMode
<1>3. Running(p) /\ TypeOK /\ ReadsTrue(p)
  BY <1>2 DEF MakeDir, Chmod, Running, Syscalls, CliInv, IInv, ReadsStayTrue
<1>4. Target(p) \in Nodes
  BY <1>3, TargetIsNode
<1>5. CASE MakeDir(p)
  <2>1. n = Component(p)
    BY <1>3, <1>5 DEF MakeDir, TypeOK
  <2>2. depth[p] \in 1 .. Len(Chain[Target(p)])
    BY <1>3, <1>5 DEF MakeDir, ReadsTrue
  <2> QED BY <1>3, <2>1, <2>2, TargetIsNamed DEF Component
<1>6. CASE Chmod(p)
  <2>1. n = Target(p)
    BY <1>3, <1>6 DEF Chmod, TypeOK
  <2>2. Chain[n] \in Seq(Nodes) /\ Len(Chain[n]) > 0 /\ Chain[n][Len(Chain[n])] = n
    BY PathsAssumption
  <2>3. Len(Chain[n]) \in 1 .. Len(Chain[n])
    BY <2>2
  <2> QED BY <1>3, <2>1, <2>2, <2>3, TargetIsNamed
<1> QED BY <1>2, <1>5, <1>6

(* For any invocations and interleavings, what changes on disk lies on the *)
(* way to a directory that a running invocation asked for.                 *)
THEOREM TouchesOnlyWhatIsNamed == CliSpec => OnlyNamedPaths
<1>1. CliInv /\ [CliNext]_cliVars => [\A n \in Nodes : fs'[n] # fs[n] => Named(n)]_cliVars
  BY ChangesAreNamed
<1> QED BY <1>1, InitCliInv, NextCliInv, PTL DEF CliSpec, OnlyNamedPaths, Named

(* The theorems about the preparation are theorems about the binaries:     *)
(* whatever their arguments, bwu and bwu-agent take directories in one     *)
(* step per claim and for good, open nothing up and run out of calls.      *)
THEOREM BinariesKeepPromise ==
  CliSpec => Promise /\ OnlyNarrowing /\ CallsRunOut /\ Ownership!HeldForGood
BY CliPrepares, Implements, NeverWidens, PreparationEnds, HoldersAreForever, PTL
   DEF PreparesAsSpecified
=============================================================================
