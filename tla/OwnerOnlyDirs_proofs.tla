------------------------ MODULE OwnerOnlyDirs_proofs ------------------------
(***************************************************************************)
(* Theorems about OwnerOnlyDirs, for any number of processes and users and *)
(* any paths: the type invariant, that Ok(()) means private directories    *)
(* whatever the interleaving, that modes are only ever narrowed, that      *)
(* errors are true, that the system calls implement NamespaceOwnership;    *)
(* and what is left of Ok(()) beside other tools (OwnerOnlyDirsEnv).       *)
(*                                                                         *)
(* The argument: no step takes anything back from the file system (Kept),  *)
(* so what a process has found out about its directories stays true while  *)
(* the others run (Stable); what remains is each step of the process       *)
(* itself (Safe).  For the refinement, a step that makes a directory       *)
(* owner-only is a claim of it, and the step that reports success a        *)
(* success; all others stutter, begin or give up.                          *)
(***************************************************************************)
EXTENDS OwnerOnlyDirsEnv, FiniteSetTheorems, TLAPS

(* What any step may do to something that exists. *)
Kept ==
  \A n \in Nodes : fs[n].kind # "absent" =>
    /\ fs'[n].kind  = fs[n].kind
    /\ fs'[n].owner = fs[n].owner
    /\ fs'[n].mode \in {fs[n].mode, OwnerOnly}

(* The step leaves process q where it is. *)
Untouched(q) ==
  /\ pc'[q] = pc[q] /\ targets'[q] = targets[q] /\ tgt'[q] = tgt[q]
  /\ depth'[q] = depth[q] /\ seen'[q] = seen[q] /\ outcome'[q] = outcome[q]

(* Where a running process is, which no other process or tool can change. *)
OnTrack(p) ==
  Running(p) =>
    /\ tgt[p] \in 1 .. Len(targets[p])
    /\ pc[p] = "mkdir" => depth[p] \in 1 .. Len(Chain[Target(p)])

(* What a step of p has to guarantee for the inductive invariant. *)
Safe(p) ==
  /\ TypeOK'
  /\ Kept
  /\ \A q \in Procs \ {p} : Untouched(q)
  /\ ReadsTrue(p)'
  /\ OkIsPrivate(p)'

-----------------------------------------------------------------------------

(* A running process is at one of the nodes, and so is create_dir_all. *)
LEMMA TrackIsOnNodes ==
  ASSUME TypeOK, NEW p \in Procs, Running(p), OnTrack(p)
  PROVE  /\ Target(p) \in Nodes
         /\ Len(Chain[Target(p)]) \in Nat \ {0}
         /\ targets[p] \in Seq(Nodes) /\ Len(targets[p]) \in Nat /\ tgt[p] \in Nat
         /\ pc[p] = "mkdir" => Component(p) \in Nodes
<1>1. targets[p] \in Seq(Nodes) /\ tgt[p] \in Nat /\ tgt[p] \in 1 .. Len(targets[p])
  BY DEF TypeOK, OnTrack
<1>2. Target(p) \in Nodes
  BY <1>1 DEF Target
<1>3. Chain[Target(p)] \in Seq(Nodes) /\ Len(Chain[Target(p)]) > 0
  BY <1>2, PathsAssumption
<1>4. Len(Chain[Target(p)]) \in Nat \ {0}
  BY <1>3
<1>5. pc[p] = "mkdir" => Component(p) \in Nodes
  BY <1>3 DEF OnTrack, Component
<1> QED BY <1>1, <1>2, <1>4, <1>5

LEMMA TargetIsNode ==
  ASSUME TypeOK, NEW p \in Procs, Running(p), ReadsTrue(p)
  PROVE  Target(p) \in Nodes
BY TrackIsOnNodes DEF ReadsTrue, OnTrack

(* The last component of a path is the directory itself. *)
LEMMA ComponentIsNode ==
  ASSUME TypeOK, NEW p \in Procs, pc[p] = "mkdir", ReadsTrue(p)
  PROVE  /\ Component(p) \in Nodes
         /\ Len(Chain[Target(p)]) \in Nat \ {0}
         /\ depth[p] = Len(Chain[Target(p)]) => Component(p) = Target(p)
<1>1. OnTrack(p) /\ Running(p)
  BY DEF ReadsTrue, OnTrack, Running, Syscalls
<1>2. Target(p) \in Nodes /\ Component(p) \in Nodes /\ Len(Chain[Target(p)]) \in Nat \ {0}
  BY <1>1, TrackIsOnNodes
<1>3. Chain[Target(p)][Len(Chain[Target(p)])] = Target(p)
  BY <1>2, PathsAssumption
<1> QED BY <1>2, <1>3 DEF Component

(* What q knows of the file system survives any step that is not its own. *)
LEMMA Stable ==
  ASSUME IInv, Kept, NEW q \in Procs, Untouched(q)
  PROVE  ReadsTrue(q)' /\ OkIsPrivate(q)'
<1>1. TypeOK /\ ReadsTrue(q) /\ OkIsPrivate(q)
  BY DEF IInv, ReadsStayTrue, OkMeansPrivate
<1>2. ASSUME NEW n \in Nodes, PrivateDir(n, Euid[q])
      PROVE  PrivateDir(n, Euid[q])'
  BY <1>2 DEF Kept, PrivateDir, OwnerOnly
<1>3. targets[q] \in Seq(Nodes)
  BY <1>1 DEF TypeOK
<1>4. OkIsPrivate(q)'
  BY <1>1, <1>2, <1>3 DEF OkIsPrivate, Succeeded, Untouched
<1>5. ReadsTrue(q)'
  <2> SUFFICES ASSUME Running(q)
               PROVE  ReadsTrue(q)'
    BY DEF ReadsTrue, Running, Untouched
  <2>1. Target(q) \in Nodes
    BY <1>1, TargetIsNode
  <2>2. Target(q)' = Target(q)
    BY DEF Target, Untouched
  <2>3. \A i \in 1 .. tgt[q] - 1 : targets[q][i] \in Nodes /\ PrivateDir(targets[q][i], Euid[q])
    BY <1>1, <1>3 DEF ReadsTrue, TypeOK
  <2>4. \A i \in 1 .. tgt'[q] - 1 : PrivateDir(targets[q][i], Euid[q])'
    BY <1>2, <2>3 DEF Untouched
  <2> QED BY <1>1, <2>1, <2>2, <2>4 DEF ReadsTrue, Untouched, Kept, Running, PrivateDir, OwnerOnly
<1> QED BY <1>4, <1>5

(* A step that is safe for the process that takes it is safe. *)
LEMMA SafeIsEnough ==
  ASSUME IInv, NEW p \in Procs, Safe(p)
  PROVE  IInv'
BY Stable DEF Safe, IInv, ReadsStayTrue, OkMeansPrivate
-----------------------------------------------------------------------------
(* The ends of a step that several actions share. *)

(* A step that leaves the file system alone keeps what exists. *)
LEMMA SameFsKept == fs' = fs => Kept
BY DEF Kept

LEMMA FailSafe ==
  ASSUME IInv, NEW p \in Procs, NEW why \in Errors, Fail(p, why)
  PROVE  Safe(p)
<1> USE DEF Fail, Goto
<1>1. TypeOK'
  BY DEF IInv, TypeOK
<1>2. ~Running(p)' /\ ~Succeeded(p)'
  BY DEF IInv, TypeOK, Running, Syscalls, Succeeded, Errors
<1>3. \A q \in Procs \ {p} : Untouched(q)
  BY DEF IInv, TypeOK, Untouched
<1> QED BY <1>1, <1>2, <1>3, SameFsKept DEF Safe, ReadsTrue, OkIsPrivate

(* Going on to another call with the same directory. *)
LEMMA GotoSafe ==
  ASSUME IInv, NEW p \in Procs, Running(p),
         NEW to \in Syscalls, Goto(p, to),
         fs' \in [Nodes -> Entry], Kept,
         seen' \in [Procs -> SUBSET PermBits], depth' \in [Procs -> Nat \ {0}],
         \A q \in Procs \ {p} : seen'[q] = seen[q] /\ depth'[q] = depth[q],
         UNCHANGED <<targets, tgt, outcome, runs>>,
         to = "mkdir" => depth'[p] \in 1 .. Len(Chain[Target(p)]),
         to = "relstat" => fs'[Target(p)].kind \in {"dir", "link"},
         to \in {"mode", "owner", "chmod", "verify"} => fs'[Target(p)].kind = "dir",
         to = "owner" /\ seen'[p] = OwnerOnly => fs'[Target(p)].mode = OwnerOnly,
         to \in {"chmod", "verify"} => fs'[Target(p)].owner = Euid[p]
  PROVE  Safe(p)
<1> USE DEF Goto
<1>1. TypeOK /\ ReadsTrue(p)
  BY DEF IInv, ReadsStayTrue
<1>2. TypeOK'
  BY <1>1 DEF TypeOK
<1>3. pc'[p] = to /\ Target(p)' = Target(p)
  BY <1>1 DEF TypeOK, Target
<1>4. \A i \in 1 .. tgt[p] - 1 : PrivateDir(targets[p][i], Euid[p])'
  <2>1. targets[p] \in Seq(Nodes) /\ tgt[p] \in 1 .. Len(targets[p])
    BY <1>1 DEF TypeOK, ReadsTrue
  <2>2. \A i \in 1 .. tgt[p] - 1 : targets[p][i] \in Nodes /\ PrivateDir(targets[p][i], Euid[p])
    BY <1>1, <2>1 DEF ReadsTrue
  <2> QED BY <2>2 DEF PrivateDir, Kept, OwnerOnly
<1>5. ReadsTrue(p)'
  BY <1>1, <1>3, <1>4 DEF ReadsTrue
<1>6. OkIsPrivate(p)'
  BY <1>3 DEF OkIsPrivate, Succeeded, Syscalls
<1>7. \A q \in Procs \ {p} : Untouched(q)
  BY <1>1 DEF TypeOK, Untouched
<1> QED BY <1>2, <1>5, <1>6, <1>7 DEF Safe

LEMMA NextTargetSafe ==
  ASSUME IInv, NEW p \in Procs, Running(p), PrivateDir(Target(p), Euid[p]),
         NextTarget(p), UNCHANGED <<fs, seen>>
  PROVE  Safe(p)
<1> USE DEF NextTarget, Goto
<1>1. TypeOK /\ ReadsTrue(p)
  BY DEF IInv, ReadsStayTrue
<1>2. tgt[p] \in Nat /\ Len(targets[p]) \in Nat /\ tgt[p] \in 1 .. Len(targets[p])
  <2>1. targets[p] \in Seq(Nodes) /\ tgt[p] \in Nat
    BY <1>1 DEF TypeOK
  <2>2. tgt[p] \in 1 .. Len(targets[p])
    BY <1>1 DEF ReadsTrue
  <2> QED BY <2>1, <2>2
<1>3. TypeOK'
  <2>1. tgt' \in [Procs -> Nat \ {0}]
    <3>1. tgt \in [Procs -> Nat \ {0}] /\ tgt[p] + 1 \in Nat \ {0}
      BY <1>1, <1>2 DEF TypeOK
    <3>2. tgt' = tgt \/ tgt' = [tgt EXCEPT ![p] = @ + 1]
      OBVIOUS
    <3> QED BY <3>1, <3>2
  <2>2. pc' \in [Procs -> Syscalls \cup {"idle", "done"}]
    BY <1>1 DEF TypeOK, Syscalls
  <2>3. outcome' \in [Procs -> Errors \cup {"ok", "none"}]
    BY <1>1 DEF TypeOK
  <2> QED BY <1>1, <2>1, <2>2, <2>3 DEF TypeOK
<1>4. \A i \in 1 .. tgt[p] : PrivateDir(targets[p][i], Euid[p])'
  BY <1>1, <1>2 DEF ReadsTrue, PrivateDir, Target
<1>5. \A q \in Procs \ {p} : Untouched(q)
  BY <1>1 DEF TypeOK, Untouched
<1>6. ReadsTrue(p)' /\ OkIsPrivate(p)'
  <2>1. CASE tgt[p] < Len(targets[p])
    <3>1. tgt'[p] = tgt[p] + 1 /\ pc'[p] = "lstat" /\ targets' = targets
      BY <1>1, <1>2, <2>1 DEF TypeOK
    <3> QED BY <1>2, <1>4, <2>1, <3>1 DEF ReadsTrue, OkIsPrivate, Succeeded
  <2>2. CASE tgt[p] = Len(targets[p])
    <3>1. pc'[p] = "done" /\ targets' = targets
      BY <1>1, <1>2, <2>2 DEF TypeOK
    <3> QED BY <1>2, <1>4, <2>2, <3>1 DEF ReadsTrue, Running, Syscalls, OkIsPrivate
  <2> QED BY <1>2, <2>1, <2>2
<1> QED BY <1>3, <1>5, <1>6, SameFsKept DEF Safe

(* create_dir_all found or made one component. *)
LEMMA DescendSafe ==
  ASSUME IInv, NEW p \in Procs, pc[p] = "mkdir", Descend(p),
         fs' \in [Nodes -> Entry], Kept, fs'[Component(p)].kind \in {"dir", "link"}
  PROVE  Safe(p)
<1>1. TypeOK /\ ReadsTrue(p) /\ Running(p)
  BY DEF IInv, ReadsStayTrue, Running, Syscalls
<1>2. depth[p] \in 1 .. Len(Chain[Target(p)]) /\ Len(Chain[Target(p)]) \in Nat
  BY <1>1, ComponentIsNode DEF ReadsTrue
<1>3. CASE depth[p] < Len(Chain[Target(p)]) /\ depth' = [depth EXCEPT ![p] = @ + 1] /\ UNCHANGED pc
  <2>1. Goto(p, "mkdir")
    BY <1>1, <1>3 DEF TypeOK, Goto
  <2>2. depth'[p] \in 1 .. Len(Chain[Target(p)]) /\ depth' \in [Procs -> Nat \ {0}]
        /\ \A q \in Procs \ {p} : depth'[q] = depth[q]
    BY <1>1, <1>2, <1>3 DEF TypeOK
  <2> QED BY <1>1, <2>1, <2>2, GotoSafe DEF Descend, Syscalls, TypeOK
<1>4. CASE depth[p] = Len(Chain[Target(p)]) /\ Goto(p, "relstat") /\ UNCHANGED depth
  <2>1. Component(p) = Target(p)
    BY <1>1, <1>4, ComponentIsNode
  <2> QED BY <1>1, <1>4, <2>1, GotoSafe DEF Descend, Syscalls, TypeOK
<1> QED BY <1>3, <1>4 DEF Descend

-----------------------------------------------------------------------------
(* The steps of one process. *)

(* A run starts with a list of at least one directory. *)
LEMMA StartSafe ==
  ASSUME IInv, NEW p \in Procs, NEW ts \in TargetLists[p], Start(p, ts)
  PROVE  Safe(p)
<1> USE DEF Start, Goto
<1>1. TypeOK
  BY DEF IInv
<1>2. ts \in Seq(Nodes) /\ Len(ts) > 0 /\ Len(ts) \in Nat
  BY TargetsAssumption
<1>3. TypeOK'
  BY <1>1, <1>2, ProcsAssumption DEF TypeOK, Syscalls
<1>4. pc'[p] = "lstat" /\ tgt'[p] = 1 /\ targets'[p] = ts
  BY <1>1 DEF TypeOK
<1>5. ReadsTrue(p)' /\ OkIsPrivate(p)'
  BY <1>2, <1>4 DEF ReadsTrue, OkIsPrivate, Succeeded
<1>6. \A q \in Procs \ {p} : Untouched(q)
  BY <1>1 DEF TypeOK, Untouched
<1> QED BY <1>3, <1>5, <1>6, SameFsKept DEF Safe

(* Something new appears where nothing was, or a mode becomes 0o700. *)
LEMMA MakeDirKept ==
  ASSUME TypeOK, NEW p \in Procs, OnTrack(p), MakeDir(p)
  PROVE  /\ fs' \in [Nodes -> Entry] /\ Kept
         /\ fs'[Component(p)].kind = "dir" /\ Component(p) \in Nodes
<1>1. TypeOK /\ Component(p) \in Nodes
  BY TrackIsOnNodes DEF Running, Syscalls, MakeDir
<1>2. NewDir(p, Component(p)) \in Entry
  BY ProcsAssumption DEF NewDir, Entry, OwnerOnly, PermBits
<1>3. NewDir(p, Component(p)).kind = "dir"
  BY DEF NewDir
<1> QED BY <1>1, <1>2, <1>3 DEF MakeDir, TypeOK, Kept

LEMMA ChmodKept ==
  ASSUME TypeOK, NEW p \in Procs, OnTrack(p), Chmod(p)
  PROVE  /\ fs' \in [Nodes -> Entry] /\ Kept /\ Target(p) \in Nodes
         /\ fs'[Target(p)].kind = fs[Target(p)].kind
         /\ fs'[Target(p)].owner = fs[Target(p)].owner
<1>1. TypeOK /\ Target(p) \in Nodes
  BY TrackIsOnNodes DEF Chmod, Running, Syscalls
<1>2. fs \in [Nodes -> Entry]
  BY <1>1 DEF TypeOK
<1>3. fs' = fs \/ fs' = [fs EXCEPT ![Target(p)].mode = OwnerOnly]
  BY DEF Chmod
<1>4. [fs[Target(p)] EXCEPT !.mode = OwnerOnly] \in Entry
  BY <1>1, <1>2 DEF Entry, OwnerOnly, PermBits
<1>5. fs' \in [Nodes -> Entry]
  BY <1>1, <1>2, <1>3, <1>4
<1>6. \A n \in Nodes : /\ fs'[n].kind  = fs[n].kind
                       /\ fs'[n].owner = fs[n].owner
                       /\ fs'[n].mode \in {fs[n].mode, OwnerOnly}
  BY <1>1, <1>2, <1>3 DEF Entry
<1> QED BY <1>1, <1>5, <1>6 DEF Kept

LEMMA StepSafe ==
  ASSUME IInv, NEW p \in Procs, Step(p)
  PROVE  Safe(p)
<1>1. TypeOK /\ ReadsTrue(p) /\ OnTrack(p)
  BY DEF IInv, ReadsStayTrue, ReadsTrue, OnTrack
<1> USE DEF Running, Syscalls
<1>2. \A why \in {"io", "symlink", "owner", "mode"} : Fail(p, why) => Safe(p)
  BY FailSafe DEF Errors
<1>3. CASE RejectSymlink(p, "lstat", "exists")
  BY <1>1, <1>2, <1>3, GotoSafe, SameFsKept DEF RejectSymlink, TypeOK
<1>4. CASE CannotReach(p)
  BY <1>2, <1>4 DEF CannotReach
<1>5. CASE PathExists(p)
  <2>1. Target(p) \in Nodes
    BY <1>1, <1>5, TargetIsNode DEF PathExists
  <2>2. Len(Chain[Target(p)]) \in Nat \ {0}
    BY <2>1, PathsAssumption
  <2>3. depth' \in [Procs -> Nat \ {0}] /\ depth'[p] = Len(Chain[Target(p)])
        /\ \A q \in Procs \ {p} : depth'[q] = depth[q]
    BY <1>1, <1>5, <2>2 DEF PathExists, TypeOK
  <2>4. depth'[p] \in 1 .. Len(Chain[Target(p)])
    BY <2>2, <2>3
  <2> QED BY <1>1, <1>5, <2>3, <2>4, GotoSafe, SameFsKept DEF PathExists, TypeOK
<1>6. CASE Climb(p)
  <2>1. depth[p] \in 1 .. Len(Chain[Target(p)]) /\ depth[p] > 1
        /\ Len(Chain[Target(p)]) \in Nat
    BY <1>1, <1>6, ComponentIsNode DEF Climb, ParentMissing, ReadsTrue
  <2>2. depth' \in [Procs -> Nat \ {0}] /\ depth'[p] \in 1 .. Len(Chain[Target(p)])
        /\ \A q \in Procs \ {p} : depth'[q] = depth[q]
    BY <1>1, <1>6, <2>1 DEF Climb, TypeOK
  <2>3. Goto(p, "mkdir")
    BY <1>1, <1>6 DEF Climb, TypeOK, Goto
  <2> QED BY <1>1, <1>6, <2>2, <2>3, GotoSafe, SameFsKept DEF Climb, TypeOK
<1>7. CASE MakeDir(p)
  BY <1>1, <1>7, MakeDirKept, DescendSafe DEF MakeDir
<1>8. CASE AlreadyDir(p)
  BY <1>1, <1>8, DescendSafe, SameFsKept DEF AlreadyDir, TypeOK
<1>9. CASE NotADir(p)
  BY <1>2, <1>9 DEF NotADir
<1>10. CASE RejectSymlink(p, "relstat", "mode")
  BY <1>1, <1>2, <1>10, GotoSafe, SameFsKept DEF RejectSymlink, TypeOK, ReadsTrue, Symlinks
<1>11. CASE ReadMode(p)
  <2>1. Target(p) \in Nodes
    BY <1>1, <1>11, TargetIsNode DEF ReadMode
  <2>2. fs[Target(p)].mode \in SUBSET PermBits
    BY <1>1, <2>1 DEF TypeOK, Entry
  <2>3. seen' \in [Procs -> SUBSET PermBits] /\ seen'[p] = fs[Target(p)].mode
        /\ \A q \in Procs \ {p} : seen'[q] = seen[q]
    BY <1>1, <1>11, <2>2 DEF ReadMode, TypeOK
  <2> QED BY <1>1, <1>11, <2>3, GotoSafe, SameFsKept DEF ReadMode, TypeOK, ReadsTrue
<1>12. CASE CheckOwner(p)
  <2>1. CASE Fail(p, "owner")
    BY <1>2, <2>1
  <2>2. CASE fs[Target(p)].owner = Euid[p] /\ seen[p] = OwnerOnly /\ NextTarget(p) /\ UNCHANGED <<fs, seen>>
    BY <1>1, <1>12, <2>2, NextTargetSafe DEF CheckOwner, ReadsTrue, PrivateDir
  <2>3. CASE fs[Target(p)].owner = Euid[p] /\ Goto(p, "chmod")
             /\ UNCHANGED <<fs, targets, tgt, depth, seen, outcome, runs>>
    BY <1>1, <1>12, <2>3, GotoSafe, SameFsKept DEF CheckOwner, TypeOK, ReadsTrue
  <2> QED BY <1>12, <2>1, <2>2, <2>3 DEF CheckOwner
<1>13. CASE Chmod(p)
  BY <1>1, <1>13, ChmodKept, GotoSafe DEF Chmod, TypeOK, ReadsTrue
<1>14. CASE VerifyMode(p)
  BY <1>1, <1>2, <1>14, NextTargetSafe DEF VerifyMode, ReadsTrue, PrivateDir
<1> QED BY <1>3, <1>4, <1>5, <1>6, <1>7, <1>8, <1>9, <1>10, <1>11, <1>12, <1>13, <1>14 DEF Step

(* Killing a process, or a call of it that fails, is safe. *)
LEMMA CrashSafe ==
  ASSUME IInv, NEW p \in Procs, Crash(p)
  PROVE  Safe(p)
<1> USE DEF Crash, Goto
<1>1. TypeOK
  BY DEF IInv
<1>2. TypeOK'
  BY <1>1 DEF TypeOK
<1>3. pc'[p] = "idle" /\ \A q \in Procs \ {p} : Untouched(q)
  BY <1>1 DEF TypeOK, Untouched
<1> QED BY <1>2, <1>3, SameFsKept
        DEF Safe, ReadsTrue, OkIsPrivate, Running, Syscalls, Succeeded

LEMMA NextSafe ==
  ASSUME IInv, Next
  PROVE  \E p \in Procs : Safe(p)
<1>1. ASSUME NEW p \in Procs, IoFault(p)
      PROVE  Safe(p)
  BY <1>1, FailSafe DEF IoFault, Errors
<1> QED BY <1>1, StartSafe, StepSafe, CrashSafe DEF Next

-----------------------------------------------------------------------------
(* The inductive invariant *)

LEMMA InitIInv == Init => IInv
<1> SUFFICES ASSUME Init PROVE IInv
  OBVIOUS
<1> USE DEF Init
<1>1. fs \in [Nodes -> Entry]
  BY InitFsAssumption
<1>2. TypeOK
  BY <1>1, ProcsAssumption DEF TypeOK
<1>3. \A p \in Procs : ~Running(p) /\ ~Succeeded(p)
  BY DEF Running, Syscalls, Succeeded
<1> QED BY <1>2, <1>3 DEF IInv, ReadsStayTrue, ReadsTrue, OkMeansPrivate, OkIsPrivate

LEMMA NextIInv == IInv /\ [Next]_vars => IInv'
<1> SUFFICES ASSUME IInv, [Next]_vars PROVE IInv'
  OBVIOUS
<1>1. CASE Next
  BY <1>1, NextSafe, SafeIsEnough
<1>2. CASE UNCHANGED vars
  BY <1>2 DEF vars, IInv, TypeOK, ReadsStayTrue, ReadsTrue, OkMeansPrivate, OkIsPrivate,
              Running, Succeeded, PrivateDir, Target
<1> QED BY <1>1, <1>2

(* IInv holds of every reachable state. *)
THEOREM Invariance == Spec => []IInv
BY InitIInv, NextIInv, PTL DEF Spec

(* The variables keep their types, for all values of the constants. *)
THEOREM TypeCorrect == Spec => []TypeOK
<1>1. IInv => TypeOK
  BY DEF IInv
<1> QED BY <1>1, Invariance, PTL

(* Whatever the processes and the interleaving, a process that has read    *)
(* 0o700 may still rely on it when it has compared the owners, and keeps   *)
(* what it prepared before.                                                *)
THEOREM StaleReadsAreHarmless == Spec => []ReadsStayTrue
<1>1. IInv => ReadsStayTrue
  BY DEF IInv
<1> QED BY <1>1, Invariance, PTL

(* Ok(()) means owner-only directories of one's own, for any number of     *)
(* concurrent processes and users, any paths and any crashes.              *)
THEOREM OkIsTrustworthy == Spec => []OkMeansPrivate
<1>1. IInv => OkMeansPrivate
  BY DEF IInv
<1> QED BY <1>1, Invariance, PTL

-----------------------------------------------------------------------------
(* Progress: the calls left for a directory run out. *)

LEMMA FewerMissing ==
  ASSUME NEW d \in Nat \ {0}, NEW T \in SUBSET (1 .. d - 1), NEW S \in SUBSET T
  PROVE  /\ Cardinality(S) \in Nat /\ Cardinality(T) \in Nat
         /\ Cardinality(S) <= Cardinality(T) /\ Cardinality(T) <= d - 1
         /\ \A x \in T \ S : Cardinality(S) + 1 <= Cardinality(T)
<1>1. IsFiniteSet(1 .. d - 1) /\ Cardinality(1 .. d - 1) = d - 1
  BY FS_Interval
<1>2. IsFiniteSet(T) /\ Cardinality(T) <= d - 1
  BY <1>1, FS_Subset
<1>3. IsFiniteSet(S) /\ Cardinality(S) <= Cardinality(T)
  BY <1>2, FS_Subset
<1>4. Cardinality(S) \in Nat /\ Cardinality(T) \in Nat
  BY <1>2, <1>3, FS_CardinalityType
<1>5. ASSUME NEW x \in T \ S PROVE Cardinality(S) + 1 <= Cardinality(T)
  <2>1. IsFiniteSet(T \ {x}) /\ Cardinality(T \ {x}) = Cardinality(T) - 1
    BY <1>2, FS_RemoveElement
  <2>2. S \subseteq T \ {x}
    OBVIOUS
  <2>3. Cardinality(S) <= Cardinality(T \ {x})
    BY <2>1, <2>2, FS_Subset
  <2> QED BY <1>4, <2>1, <2>3
<1> QED BY <1>2, <1>3, <1>4, <1>5

(* Where create_dir_all is, and what is missing above. *)
LEMMA MissingIsAbove ==
  ASSUME IInv, NEW p \in Procs, pc[p] = "mkdir"
  PROVE  /\ depth[p] \in Nat \ {0} /\ depth[p] <= Len(Chain[Target(p)])
         /\ Len(Chain[Target(p)]) \in Nat
         /\ MissingAbove(p) \in SUBSET (1 .. depth[p] - 1)
         /\ \A j \in 1 .. Len(Chain[Target(p)]) : Chain[Target(p)][j] \in Nodes
<1>1. TypeOK /\ ReadsTrue(p) /\ Running(p)
  BY DEF IInv, ReadsStayTrue, Running, Syscalls
<1>2. Target(p) \in Nodes /\ depth[p] \in 1 .. Len(Chain[Target(p)])
  BY <1>1, TargetIsNode DEF ReadsTrue
<1>3. Chain[Target(p)] \in Seq(Nodes)
  BY <1>2, PathsAssumption
<1> QED BY <1>2, <1>3 DEF MissingAbove

(* What exists stays, so other processes only ever shorten the way. *)
LEMMA OthersShorten ==
  ASSUME IInv, Kept, NEW q \in Procs, Untouched(q), Running(q)
  PROVE  ~Moves(q) /\ CallsLeft(q)' <= CallsLeft(q)
<1>1. ~Moves(q)
  BY DEF Moves, Untouched
<1>2. Target(q)' = Target(q) /\ pc'[q] = pc[q] /\ depth'[q] = depth[q]
  BY DEF Untouched, Target
<1>3. CASE pc[q] # "mkdir"
  <2>1. Len(Chain[Target(q)]) \in Nat
    BY TrackIsOnNodes DEF IInv, ReadsStayTrue, ReadsTrue, OnTrack
  <2> QED BY <1>1, <1>2, <1>3, <2>1 DEF CallsLeft, Running, Syscalls
<1>4. CASE pc[q] = "mkdir"
  <2>1. /\ depth[q] \in Nat \ {0} /\ depth[q] <= Len(Chain[Target(q)])
        /\ Len(Chain[Target(q)]) \in Nat
        /\ MissingAbove(q) \in SUBSET (1 .. depth[q] - 1)
        /\ \A j \in 1 .. Len(Chain[Target(q)]) : Chain[Target(q)][j] \in Nodes
    BY <1>4, MissingIsAbove
  <2>2. MissingAbove(q)' \in SUBSET MissingAbove(q)
    BY <1>2, <2>1 DEF MissingAbove, Kept, Nothing
  <2>3. /\ Cardinality(MissingAbove(q)') <= Cardinality(MissingAbove(q))
        /\ Cardinality(MissingAbove(q)') \in Nat /\ Cardinality(MissingAbove(q)) \in Nat
    BY <2>1, <2>2, FewerMissing
  <2>4. /\ CallsLeft(q) = 6 + Len(Chain[Target(q)]) - depth[q] + 2 * Cardinality(MissingAbove(q))
        /\ CallsLeft(q)' = 6 + Len(Chain[Target(q)]) - depth[q] + 2 * Cardinality(MissingAbove(q)')
    BY <1>2, <1>4 DEF CallsLeft
  <2> QED BY <1>1, <2>1, <2>3, <2>4
<1> QED BY <1>3, <1>4

(* p goes on to the next directory, or has fewer calls left for this one. *)
Ahead(p) ==
  /\ Moves(p)
  /\ Running(p)' => \/ tgt'[p] = tgt[p] + 1
                    \/ tgt'[p] = tgt[p] /\ CallsLeft(p)' < CallsLeft(p)

LEMMA FailAhead ==
  ASSUME IInv, NEW p \in Procs, Running(p), NEW why, Fail(p, why)
  PROVE  Ahead(p)
BY DEF Fail, Goto, IInv, TypeOK, Ahead, Moves, Running, Syscalls

LEMMA NextTargetAhead ==
  ASSUME IInv, NEW p \in Procs, Running(p), NextTarget(p)
  PROVE  Ahead(p)
<1>1. pc \in [Procs -> Syscalls \cup {"idle", "done"}] /\ tgt \in [Procs -> Nat \ {0}]
  BY DEF IInv, TypeOK
<1>2. CASE tgt' = [tgt EXCEPT ![p] = @ + 1]
  BY <1>1, <1>2 DEF Ahead, Moves
<1>3. CASE Goto(p, "done")
  BY <1>1, <1>3 DEF Goto, Ahead, Moves, Running, Syscalls
<1> QED BY <1>2, <1>3 DEF NextTarget

(* The calls that are not about components above the directory. *)
LEMMA GotoAhead ==
  ASSUME IInv, NEW p \in Procs, Running(p), NEW to \in Syscalls, Goto(p, to),
         UNCHANGED <<targets, tgt>>,
         <<pc[p], to>> \in {<<"lstat", "exists">>, <<"relstat", "mode">>, <<"mode", "owner">>,
                            <<"owner", "chmod">>, <<"chmod", "verify">>}
  PROVE  Ahead(p)
<1>1. Len(Chain[Target(p)]) \in Nat
  BY TrackIsOnNodes DEF IInv, ReadsStayTrue, ReadsTrue, OnTrack
<1>2. pc'[p] = to /\ pc[p] # to /\ tgt'[p] = tgt[p] /\ Target(p)' = Target(p)
  BY DEF Goto, IInv, TypeOK, Target
<1>3. CallsLeft(p)' < CallsLeft(p)
  BY <1>1, <1>2 DEF CallsLeft
<1> QED BY <1>2, <1>3 DEF Ahead, Moves

LEMMA PathExistsAhead ==
  ASSUME IInv, NEW p \in Procs, PathExists(p)
  PROVE  Ahead(p)
<1> DEFINE long == Len(Chain[Target(p)])
<1>1. /\ pc[p] = "exists" /\ pc'[p] = "mkdir" /\ tgt'[p] = tgt[p]
      /\ Target(p)' = Target(p) /\ depth'[p] = long
  BY DEF PathExists, Goto, IInv, TypeOK, Target
<1>2. long \in Nat \ {0}
  BY <1>1, TrackIsOnNodes DEF IInv, ReadsStayTrue, ReadsTrue, OnTrack, Running, Syscalls
<1>3. MissingAbove(p)' \in SUBSET (1 .. long - 1)
  BY <1>1 DEF MissingAbove
<1>4. Cardinality(MissingAbove(p)') \in Nat /\ Cardinality(MissingAbove(p)') <= long - 1
  <2> HIDE DEF long
  <2> QED BY <1>2, <1>3, FewerMissing
<1>5. CallsLeft(p) = 5 + 2 * long
  BY <1>1 DEF CallsLeft
<1>6. CallsLeft(p)' = 6 + long - long + 2 * Cardinality(MissingAbove(p)')
  BY <1>1 DEF CallsLeft
<1>7. CallsLeft(p)' < CallsLeft(p)
  <2> HIDE DEF long
  <2> QED BY <1>2, <1>4, <1>5, <1>6
<1> QED BY <1>1, <1>7 DEF Ahead, Moves

(* On the way up the component above was missing: one less is now above. *)
LEMMA ClimbAhead ==
  ASSUME IInv, NEW p \in Procs, Climb(p)
  PROVE  Ahead(p)
<1> DEFINE long == Len(Chain[Target(p)])
           d == depth[p]
           S == MissingAbove(p)'
           T == MissingAbove(p)
<1>1. /\ pc[p] = "mkdir" /\ pc'[p] = "mkdir" /\ tgt'[p] = tgt[p] /\ fs' = fs
      /\ Target(p)' = Target(p) /\ depth'[p] = d - 1 /\ d > 1
      /\ fs[Chain[Target(p)][d - 1]].kind \in Nothing
  BY DEF Climb, ParentMissing, IInv, TypeOK, Target
<1>2. d \in Nat \ {0} /\ d <= long /\ long \in Nat /\ T \in SUBSET (1 .. d - 1)
  BY <1>1, MissingIsAbove
<1>3. S = {j \in 1 .. d - 1 - 1 : fs[Chain[Target(p)][j]].kind \in Nothing}
  BY <1>1 DEF MissingAbove
<1>4. S \in SUBSET T /\ d - 1 \in T \ S
  BY <1>1, <1>2, <1>3 DEF MissingAbove
<1>5. CallsLeft(p) = 6 + long - d + 2 * Cardinality(T)
  BY <1>1 DEF CallsLeft
<1>6. CallsLeft(p)' = 6 + long - (d - 1) + 2 * Cardinality(S)
  BY <1>1 DEF CallsLeft
<1>7. d - 1 # d
  BY <1>2
<1>8. CallsLeft(p)' < CallsLeft(p)
  <2> HIDE DEF long, d, S, T
  <2>1. Cardinality(S) \in Nat /\ Cardinality(T) \in Nat /\ Cardinality(S) + 1 <= Cardinality(T)
    BY <1>2, <1>4, FewerMissing
  <2> QED BY <1>2, <1>5, <1>6, <2>1
<1> QED BY <1>1, <1>7, <1>8 DEF Ahead, Moves

(* On the way down the component is there: nothing more is missing above. *)
LEMMA DescendAhead ==
  ASSUME IInv, NEW p \in Procs, pc[p] = "mkdir", Descend(p), Kept,
         fs'[Component(p)].kind \notin Nothing
  PROVE  Ahead(p)
<1> DEFINE long == Len(Chain[Target(p)])
           d == depth[p]
           S == MissingAbove(p)'
           T == MissingAbove(p)
<1>1. /\ d \in Nat \ {0} /\ d <= long /\ long \in Nat /\ T \in SUBSET (1 .. d - 1)
      /\ \A j \in 1 .. long : Chain[Target(p)][j] \in Nodes
  BY MissingIsAbove
<1>2. tgt'[p] = tgt[p] /\ Target(p)' = Target(p)
  BY DEF Descend, Target
<1>3. CallsLeft(p) = 6 + long - d + 2 * Cardinality(T) /\ Cardinality(T) \in Nat
  BY <1>1, FewerMissing DEF CallsLeft
<1>4. CASE d < long /\ depth'[p] = d + 1 /\ pc'[p] = "mkdir"
  <2>1. S = {j \in 1 .. d : fs'[Chain[Target(p)][j]].kind \in Nothing}
    <3>1. depth'[p] - 1 = d
      BY <1>1, <1>4
    <3>2. S = {j \in 1 .. depth'[p] - 1 : fs'[Chain[Target(p)'][j]].kind \in Nothing}
      BY DEF MissingAbove
    <3> QED BY <1>2, <3>1, <3>2
  <2>2. ASSUME NEW j \in S PROVE j \in T
    <3>1. j \in 1 .. d /\ fs'[Chain[Target(p)][j]].kind \in Nothing
      BY <1>1, <2>1
    <3>2. j # d
      BY <3>1 DEF Component
    <3>3. Chain[Target(p)][j] \in Nodes
      BY <1>1, <3>1
    <3>4. fs[Chain[Target(p)][j]].kind \in Nothing
      BY <3>1, <3>3 DEF Kept, Nothing
    <3> QED BY <1>1, <3>1, <3>2, <3>4 DEF MissingAbove
  <2>3. CallsLeft(p)' = 6 + long - (d + 1) + 2 * Cardinality(S)
    BY <1>2, <1>4 DEF CallsLeft
  <2>4. d + 1 # d
    BY <1>1
  <2>5. CallsLeft(p)' < CallsLeft(p)
    <3> HIDE DEF long, d, S, T
    <3>1. S \in SUBSET T
      BY <2>2
    <3>2. Cardinality(S) \in Nat /\ Cardinality(S) <= Cardinality(T)
      BY <1>1, <3>1, FewerMissing
    <3> QED BY <1>1, <1>3, <2>3, <3>2
  <2> QED BY <1>2, <1>4, <2>4, <2>5 DEF Ahead, Moves
<1>5. CASE d = long /\ pc'[p] = "relstat"
  <2>1. CallsLeft(p)' = 5
    BY <1>5 DEF CallsLeft
  <2>2. CallsLeft(p)' < CallsLeft(p)
    <3> HIDE DEF long, d, T
    <3> QED BY <1>1, <1>3, <1>5, <2>1
  <2> QED BY <1>2, <1>5, <2>2 DEF Ahead, Moves
<1>6. pc \in [Procs -> Syscalls \cup {"idle", "done"}] /\ depth \in [Procs -> Nat \ {0}]
  BY DEF IInv, TypeOK
<1> QED BY <1>4, <1>5, <1>6 DEF Descend, Goto

LEMMA StepAhead ==
  ASSUME IInv, NEW p \in Procs, Step(p)
  PROVE  Ahead(p)
<1>1. TypeOK /\ ReadsTrue(p) /\ OnTrack(p)
  BY DEF IInv, ReadsStayTrue, ReadsTrue, OnTrack
<1> USE DEF Running, Syscalls
<1>3. CASE RejectSymlink(p, "lstat", "exists")
  BY <1>3, FailAhead, GotoAhead DEF RejectSymlink
<1>4. CASE CannotReach(p)
  BY <1>4, FailAhead DEF CannotReach
<1>5. CASE PathExists(p)
  BY <1>5, PathExistsAhead
<1>6. CASE Climb(p)
  BY <1>6, ClimbAhead
<1>7. CASE MakeDir(p)
  BY <1>1, <1>7, MakeDirKept, DescendAhead DEF MakeDir, NewDir, Nothing
<1>8. CASE AlreadyDir(p)
  BY <1>8, SameFsKept, DescendAhead DEF AlreadyDir, Nothing
<1>9. CASE NotADir(p)
  BY <1>9, FailAhead DEF NotADir
<1>10. CASE RejectSymlink(p, "relstat", "mode")
  BY <1>10, FailAhead, GotoAhead DEF RejectSymlink
<1>11. CASE ReadMode(p)
  BY <1>11, GotoAhead DEF ReadMode
<1>12. CASE CheckOwner(p)
  BY <1>12, FailAhead, NextTargetAhead, GotoAhead DEF CheckOwner
<1>13. CASE Chmod(p)
  BY <1>13, GotoAhead DEF Chmod
<1>14. CASE VerifyMode(p)
  BY <1>14, FailAhead, NextTargetAhead DEF VerifyMode
<1> QED BY <1>3, <1>4, <1>5, <1>6, <1>7, <1>8, <1>9, <1>10, <1>11, <1>12, <1>13, <1>14 DEF Step

(* Every step is one process's, and brings it ahead or ends its run. *)
LEMMA NextAhead ==
  ASSUME IInv, Next
  PROVE  \E p \in Procs :
           /\ Moves(p) /\ (Running(p) => Ahead(p))
           /\ Kept /\ \A q \in Procs \ {p} : Untouched(q)
<1>1. ASSUME NEW p \in Procs, NEW ts \in TargetLists[p], Start(p, ts)
      PROVE  Safe(p) /\ Moves(p) /\ (Running(p) => Ahead(p))
  <2>1. Safe(p)
    BY <1>1, StartSafe
  <2>2. ~Running(p) /\ pc'[p] = "lstat"
    BY <1>1 DEF Start, Goto, IInv, TypeOK
  <2> QED BY <2>1, <2>2 DEF Moves, Running, Syscalls
<1>2. ASSUME NEW p \in Procs, Step(p)
      PROVE  Safe(p) /\ Moves(p) /\ (Running(p) => Ahead(p))
  BY <1>2, StepSafe, StepAhead DEF Ahead
<1>3. ASSUME NEW p \in Procs, IoFault(p)
      PROVE  Safe(p) /\ Moves(p) /\ (Running(p) => Ahead(p))
  BY <1>3, FailSafe, FailAhead DEF IoFault, Errors, Ahead
<1>4. ASSUME NEW p \in Procs, Crash(p)
      PROVE  Safe(p) /\ Moves(p) /\ (Running(p) => Ahead(p))
  <2>1. Safe(p)
    BY <1>4, CrashSafe
  <2>2. Running(p) /\ pc'[p] = "idle"
    BY <1>4 DEF Crash, Goto, IInv, TypeOK
  <2> QED BY <2>1, <2>2 DEF Moves, Ahead, Running, Syscalls
<1> QED BY <1>1, <1>2, <1>3, <1>4 DEF Next, Safe

(* Whatever others do at the same time, every call brings a run closer to  *)
(* its end: with any number of processes that create the same parents, a   *)
(* preparation takes a number of calls that its paths alone bound.         *)
THEOREM PreparationEnds == Spec => CallsRunOut
<1> DEFINE Out == /\ \E p \in Procs : Moves(p)
                  /\ \A p \in Procs : Running(p) /\ Running(p)' =>
                       \/ Moves(p) /\ tgt'[p] = tgt[p] + 1
                       \/ Moves(p) /\ tgt'[p] = tgt[p] /\ CallsLeft(p)' < CallsLeft(p)
                       \/ ~Moves(p) /\ CallsLeft(p)' <= CallsLeft(p)
<1>1. IInv /\ [Next]_vars => [Out]_vars
  <2> SUFFICES ASSUME IInv, Next PROVE Out
    OBVIOUS
  <2>1. PICK p \in Procs : /\ Moves(p) /\ (Running(p) => Ahead(p))
                           /\ Kept /\ \A q \in Procs \ {p} : Untouched(q)
    BY NextAhead
  <2>2. ASSUME NEW q \in Procs \ {p}, Running(q)
        PROVE  ~Moves(q) /\ CallsLeft(q)' <= CallsLeft(q)
    BY <2>1, <2>2, OthersShorten
  <2> QED BY <2>1, <2>2 DEF Ahead
<1> QED BY <1>1, Invariance, PTL DEF Spec, CallsRunOut

-----------------------------------------------------------------------------
(* What a step may do to the disk *)

(* The body of OnlyNarrowing. *)
Narrows ==
  \A n \in Nodes : fs'[n] # fs[n] =>
    \/ /\ fs[n].kind = "absent"
       /\ fs'[n].kind = "dir"
       /\ n \in FixedMode \/ fs'[n].mode \subseteq OwnerOnly
    \/ /\ fs[n].kind = "dir"
       /\ fs'[n] = [fs[n] EXCEPT !.mode = OwnerOnly]
       /\ \E p \in Procs : Euid[p] = fs[n].owner /\ Running(p)

LEMMA StepNarrows == IInv /\ [Next]_vars => [Narrows]_vars
<1> SUFFICES ASSUME IInv, Next PROVE Narrows
  BY DEF vars, Narrows
<1>1. fs \in [Nodes -> Entry]
  BY DEF IInv, TypeOK
<1>2. PICK p \in Procs : \/ \E ts \in TargetLists[p] : Start(p, ts)
                         \/ Step(p) \/ IoFault(p) \/ Crash(p)
  BY DEF Next
<1>3. MakeDir(p) \/ Chmod(p) \/ fs' = fs
  BY <1>2 DEF Start, Step, IoFault, Crash, Fail, RejectSymlink, CannotReach, PathExists, Climb,
              AlreadyDir, NotADir, ReadMode, CheckOwner, VerifyMode
<1>4. CASE MakeDir(p)
  <2>1. fs' = [fs EXCEPT ![Component(p)] = NewDir(p, Component(p))]
        /\ fs[Component(p)].kind = "absent"
    BY <1>4 DEF MakeDir
  <2>2. NewDir(p, Component(p)).kind = "dir"
        /\ (Component(p) \in FixedMode \/ NewDir(p, Component(p)).mode \subseteq OwnerOnly)
    BY DEF NewDir
  <2> QED BY <1>1, <2>1, <2>2 DEF Narrows
<1>5. CASE Chmod(p)
  <2>1. Running(p) /\ fs[Target(p)].kind = "dir" /\ fs[Target(p)].owner = Euid[p]
    BY <1>5 DEF Chmod, IInv, ReadsStayTrue, ReadsTrue, Running, Syscalls
  <2>2. fs' = fs \/ fs' = [fs EXCEPT ![Target(p)].mode = OwnerOnly]
    BY <1>5 DEF Chmod
  <2> QED BY <1>1, <2>1, <2>2 DEF Narrows
<1>6. CASE fs' = fs
  BY <1>6 DEF Narrows
<1> QED BY <1>3, <1>4, <1>5, <1>6

(* No run of any user widens a mode, follows a link or changes another     *)
(* user's directory, in any interleaving.                                  *)
THEOREM NeverWidens == Spec => OnlyNarrowing
BY Invariance, StepNarrows, PTL DEF Spec, OnlyNarrowing, Narrows

-----------------------------------------------------------------------------
(* What an error says *)

(* Everything that exists lets its owner in, unless a umask forbids even   *)
(* that.  It is assumed of the first file system: one that has a directory *)
(* with an owner bit missing makes runs of its owner fail.                 *)
OwnersEnter ==
  \A n \in Nodes : fs[n].kind # "absent" =>
    "owner" \in fs[n].mode \/ \E q \in Procs : "owner" \in Umask[q]

(* What the errors to come rest on: after chmod a mode that is not 0o700   *)
(* cannot be set, and a run that failed was at one of the nodes.           *)
Grounded(p) ==
  /\ pc[p] = "verify" => Target(p) \in FixedMode \/ fs[Target(p)].mode = OwnerOnly
  /\ pc[p] = "done" /\ outcome[p] \in Errors => Target(p) \in Nodes

NInv == OwnersEnter /\ \A p \in Procs : ErrorIsTrue(p) /\ Grounded(p)

(* The components above a node are nodes of the same path. *)
LEMMA AboveIsOnPath ==
  ASSUME NEW t \in Nodes, NEW d \in 1 .. Len(Chain[t]), NEW m \in Above(Chain[t][d])
  PROVE  \E i \in 1 .. Len(Chain[t]) : Chain[t][i] = m /\ fs[m].kind \notin Nothing
<1> DEFINE c == Chain[t]
<1>1. c \in Seq(Nodes)
  BY PathsAssumption
<1>2. Chain[c[d]] = SubSeq(c, 1, d)
  BY PathsAssumption
<1> HIDE DEF c
<1>3. d \in 1 .. Len(c) /\ Len(c) \in Nat /\ m \in Above(c[d])
  BY <1>1 DEF c
<1>4. Len(SubSeq(c, 1, d)) = d /\ \A i \in 1 .. d : SubSeq(c, 1, d)[i] = c[i]
  BY <1>1, <1>3
<1>5. PICK i \in 1 .. d - 1 : m = Chain[c[d]][i] /\ fs[m].kind \notin Nothing
  BY <1>2, <1>3, <1>4 DEF Above
<1>6. i \in 1 .. Len(c) /\ c[i] = m
  BY <1>2, <1>3, <1>4, <1>5
<1> QED BY <1>5, <1>6 DEF c

(* The path a call is about is one of the components of its directory. *)
LEMMA PathIsOnPath ==
  ASSUME IInv, NEW p \in Procs, Running(p)
  PROVE  /\ Target(p) \in Nodes
         /\ \E d \in 1 .. Len(Chain[Target(p)]) : Path(p) = Chain[Target(p)][d]
<1>1. Target(p) \in Nodes
  BY TargetIsNode DEF IInv, ReadsStayTrue
<1>2. Chain[Target(p)] \in Seq(Nodes) /\ Len(Chain[Target(p)]) > 0
      /\ Chain[Target(p)][Len(Chain[Target(p)])] = Target(p)
  BY <1>1, PathsAssumption
<1>3. CASE pc[p] = "mkdir"
  BY <1>1, <1>3 DEF IInv, ReadsStayTrue, ReadsTrue, Path, Component
<1>4. CASE pc[p] # "mkdir"
  BY <1>1, <1>2, <1>4 DEF Path
<1> QED BY <1>1, <1>3, <1>4

(* An I/O error of a path that cannot be reached, or may be closed to p,   *)
(* blames a file or somebody else's directory on that path.                *)
LEMMA IoIsTrue ==
  ASSUME IInv, OwnersEnter, NEW p \in Procs, Running(p),
         Unreachable(p, Path(p)) \/ Doubtful(p, Path(p))
  PROVE  SaysTrue(p, "io")
<1>1. Target(p) \in Nodes
  BY PathIsOnPath
<1>2. PICK d \in 1 .. Len(Chain[Target(p)]) : Path(p) = Chain[Target(p)][d]
  BY PathIsOnPath
<1>3. \A m \in Above(Path(p)) :
        \E i \in 1 .. Len(Chain[Target(p)]) : Chain[Target(p)][i] = m /\ fs[m].kind \notin Nothing
  <2> DEFINE t == Target(p)
  <2>1. t \in Nodes /\ d \in 1 .. Len(Chain[t]) /\ Above(Path(p)) = Above(Chain[t][d])
    BY <1>1, <1>2
  <2> HIDE DEF t
  <2>2. \A m \in Above(Chain[t][d]) :
          \E i \in 1 .. Len(Chain[t]) : Chain[t][i] = m /\ fs[m].kind \notin Nothing
    BY <2>1, AboveIsOnPath
  <2> QED BY <2>1, <2>2 DEF t
<1>4. \A m \in Above(Path(p)) : m \in Nodes
  <2>1. Chain[Target(p)] \in Seq(Nodes)
    BY <1>1, PathsAssumption
  <2>2. \A i \in 1 .. Len(Chain[Target(p)]) : Chain[Target(p)][i] \in Nodes
    BY <2>1
  <2> QED BY <1>3, <2>2
<1>5. PICK m \in Above(Path(p)) :
        \/ fs[m].kind = "file"
        \/ Euid[p] # Root /\ (fs[m].owner # Euid[p] \/ "owner" \notin fs[m].mode)
  BY DEF Unreachable, Doubtful
<1>6. fs[m].kind = "file" \/ (Euid[p] # Root /\ fs[m].owner # Euid[p])
      \/ \E q \in Procs : "owner" \in Umask[q]
  BY <1>3, <1>4, <1>5 DEF OwnersEnter, Nothing
<1> QED BY <1>3, <1>6 DEF SaysTrue, Nothing

(* The error of a process stays true whatever the others do. *)
LEMMA ErrorStaysTrue ==
  ASSUME IInv, Kept, NEW q \in Procs, Untouched(q), ErrorIsTrue(q), Grounded(q)
  PROVE  ErrorIsTrue(q)' /\ Grounded(q)'
<1>1. Target(q)' = Target(q)
  BY DEF Untouched, Target
<1>2. pc[q] = "verify" => Target(q) \in Nodes /\ fs[Target(q)].kind # "absent"
  <2>1. ASSUME pc[q] = "verify"
        PROVE  Running(q) /\ ReadsTrue(q) /\ TypeOK
    BY <2>1 DEF IInv, ReadsStayTrue, Running, Syscalls
  <2> QED BY <2>1, TargetIsNode DEF ReadsTrue
<1>3. Grounded(q)'
  BY <1>1, <1>2 DEF Grounded, Untouched, Kept
<1>4. ASSUME pc[q] = "done", outcome[q] \in Errors
      PROVE  SaysTrue(q, outcome[q])'
  <2>1. Target(q) \in Nodes /\ Chain[Target(q)] \in Seq(Nodes)
    BY <1>4, PathsAssumption DEF Grounded
  <2>2. \A i \in 1 .. Len(Chain[Target(q)]) : Chain[Target(q)][i] \in Nodes
    BY <2>1
  <2>3. SaysTrue(q, outcome[q]) /\ outcome'[q] = outcome[q]
    BY <1>4 DEF ErrorIsTrue, Untouched
  <2> QED BY <1>1, <2>1, <2>2, <2>3 DEF SaysTrue, Kept, Symlinks
<1>5. outcome'[q] = outcome[q] /\ pc'[q] = pc[q]
  BY DEF Untouched
<1>6. outcome[q] \notin Errors => SaysTrue(q, outcome[q])'
  BY <1>5 DEF SaysTrue, Errors
<1> QED BY <1>3, <1>4, <1>5, <1>6 DEF ErrorIsTrue

(* A run that fails for a true reason leaves a true error. *)
LEMMA FailIsTrue ==
  ASSUME IInv, NEW p \in Procs, Running(p), NEW why \in Errors, Fail(p, why), SaysTrue(p, why)
  PROVE  ErrorIsTrue(p)' /\ Grounded(p)'
<1>1. pc'[p] = "done" /\ outcome'[p] = why /\ fs' = fs
  BY DEF Fail, Goto, IInv, TypeOK
<1>2. Target(p)' = Target(p) /\ Target(p) \in Nodes
  BY PathIsOnPath DEF Fail, Target
<1> QED BY <1>1, <1>2 DEF ErrorIsTrue, SaysTrue, Grounded

(* A step that neither fails nor has just set a mode owes nothing. *)
LEMMA NoErrorYet ==
  ASSUME NEW p \in Procs, pc'[p] # "verify", pc'[p] # "done" \/ outcome'[p] = "ok"
  PROVE  ErrorIsTrue(p)' /\ Grounded(p)'
BY DEF ErrorIsTrue, SaysTrue, Grounded, Errors

LEMMA StepSaysTrue ==
  ASSUME IInv, NInv, NEW p \in Procs, Step(p)
  PROVE  ErrorIsTrue(p)' /\ Grounded(p)'
<1>1. TypeOK /\ ReadsTrue(p) /\ OwnersEnter /\ Grounded(p)
  BY DEF IInv, ReadsStayTrue, NInv
<1>2. Running(p)
  BY DEF Step, RejectSymlink, CannotReach, PathExists, Climb, MakeDir, AlreadyDir, NotADir,
         ReadMode, CheckOwner, Chmod, VerifyMode, Running, Syscalls
<1>3. \A why \in Errors : Fail(p, why) /\ SaysTrue(p, why) => ErrorIsTrue(p)' /\ Grounded(p)'
  BY <1>2, FailIsTrue
<1>4. ASSUME NEW to \in Syscalls \ {"verify"}, Goto(p, to)
      PROVE  ErrorIsTrue(p)' /\ Grounded(p)'
  BY <1>1, <1>4, NoErrorYet DEF Goto, TypeOK, Syscalls
<1>5. ASSUME NextTarget(p)
      PROVE  ErrorIsTrue(p)' /\ Grounded(p)'
  BY <1>1, <1>5, NoErrorYet DEF NextTarget, Goto, TypeOK
<1>6. ASSUME Descend(p), pc[p] = "mkdir"
      PROVE  ErrorIsTrue(p)' /\ Grounded(p)'
  BY <1>1, <1>6, NoErrorYet DEF Descend, Goto, TypeOK
<1>7. CASE RejectSymlink(p, "lstat", "exists") \/ RejectSymlink(p, "relstat", "mode")
  <2>1. fs[Target(p)].kind \in Symlinks => SaysTrue(p, "symlink")
    BY DEF SaysTrue
  <2> QED BY <1>3, <1>4, <1>7, <2>1 DEF RejectSymlink, Syscalls, Errors
<1>8. CASE CannotReach(p)
  BY <1>1, <1>2, <1>3, <1>8, IoIsTrue DEF CannotReach, Errors
<1>9. CASE PathExists(p) \/ ReadMode(p)
  BY <1>4, <1>9 DEF PathExists, ReadMode, Syscalls
<1>10. CASE Climb(p)
  BY <1>10, NoErrorYet DEF Climb
<1>11. CASE MakeDir(p) \/ AlreadyDir(p)
  BY <1>6, <1>11 DEF MakeDir, AlreadyDir
<1>12. CASE NotADir(p)
  <2>1. depth[p] \in 1 .. Len(Chain[Target(p)]) /\ fs[Chain[Target(p)][depth[p]]].kind \in {"file", "dangling"}
    BY <1>1, <1>2, <1>12 DEF NotADir, ReadsTrue, Component
  <2>2. SaysTrue(p, "io")
    BY <2>1 DEF SaysTrue
  <2> QED BY <1>3, <1>12, <2>2 DEF NotADir, Errors
<1>13. CASE CheckOwner(p)
  <2>1. CASE fs[Target(p)].owner # Euid[p] /\ Fail(p, "owner")
    <3>1. SaysTrue(p, "owner")
      BY <1>1, <1>2, <1>13, <2>1 DEF CheckOwner, ReadsTrue, SaysTrue
    <3> QED BY <1>3, <2>1, <3>1 DEF Errors
  <2>2. CASE NextTarget(p) \/ Goto(p, "chmod")
    BY <1>4, <1>5, <2>2 DEF Syscalls
  <2> QED BY <1>13, <2>1, <2>2 DEF CheckOwner
<1>14. CASE Chmod(p)
  <2>1. pc'[p] = "verify"
    BY <1>1, <1>14 DEF Chmod, Goto, TypeOK
  <2>2. Target(p)' = Target(p) /\ Target(p) \in Nodes
    BY <1>2, <1>14, PathIsOnPath DEF Chmod, Target
  <2>3. Target(p) \in FixedMode \/ fs'[Target(p)].mode = OwnerOnly
    BY <1>1, <1>14, <2>2 DEF Chmod, TypeOK, Entry
  <2> QED BY <2>1, <2>2, <2>3 DEF ErrorIsTrue, Grounded
<1>15. CASE VerifyMode(p)
  <2>1. fs[Target(p)].mode # OwnerOnly => SaysTrue(p, "mode")
    BY <1>1, <1>15 DEF VerifyMode, Grounded, SaysTrue
  <2> QED BY <1>3, <1>5, <1>15, <2>1 DEF VerifyMode, Errors
<1> QED BY <1>7, <1>8, <1>9, <1>10, <1>11, <1>12, <1>13, <1>14, <1>15 DEF Step

(* Only mkdir and chmod write modes, and both let the owner in. *)
LEMMA OwnersKeepEntering ==
  ASSUME IInv, OwnersEnter, NEW p \in Procs,
         MakeDir(p) \/ Chmod(p) \/ fs' = fs
  PROVE  OwnersEnter'
<1>1. fs \in [Nodes -> Entry]
  BY DEF IInv, TypeOK
<1>2. CASE MakeDir(p)
  <2>1. fs' = [fs EXCEPT ![Component(p)] = NewDir(p, Component(p))]
    BY <1>2 DEF MakeDir
  <2>2. "owner" \in NewDir(p, Component(p)).mode \/ "owner" \in Umask[p]
    BY DEF NewDir, PermBits, OwnerOnly
  <2> QED BY <1>1, <2>1, <2>2 DEF OwnersEnter
<1>3. CASE Chmod(p)
  <2>1. \A n \in Nodes : fs'[n].kind = fs[n].kind /\ fs'[n].mode \in {fs[n].mode, OwnerOnly}
    <3>1. fs' = fs \/ fs' = [fs EXCEPT ![Target(p)].mode = OwnerOnly]
      BY <1>3 DEF Chmod
    <3> QED BY <1>1, <3>1 DEF Entry
  <2> QED BY <2>1 DEF OwnersEnter, OwnerOnly
<1>4. CASE fs' = fs
  BY <1>4 DEF OwnersEnter
<1> QED BY <1>2, <1>3, <1>4

LEMMA NextNInv == IInv /\ NInv /\ [Next]_vars => NInv'
<1> SUFFICES ASSUME IInv, NInv, [Next]_vars PROVE NInv'
  OBVIOUS
<1>1. TypeOK
  BY DEF IInv
<1>2. CASE UNCHANGED vars
  BY <1>2 DEF vars, NInv, OwnersEnter, ErrorIsTrue, SaysTrue, Grounded, Target
<1>3. CASE Next
  <2>1. PICK p \in Procs : \/ \E ts \in TargetLists[p] : Start(p, ts)
                           \/ Step(p) \/ IoFault(p) \/ Crash(p)
    BY <1>3 DEF Next
  <2>2. Safe(p)
    BY <2>1, FailSafe, StartSafe, StepSafe, CrashSafe DEF IoFault, Errors
  <2>3. MakeDir(p) \/ Chmod(p) \/ fs' = fs
    BY <2>1 DEF Start, Step, IoFault, Crash, Fail, RejectSymlink, CannotReach, PathExists,
                Climb, AlreadyDir, NotADir, ReadMode, CheckOwner, VerifyMode
  <2>4. OwnersEnter'
    BY <2>3, OwnersKeepEntering DEF NInv
  <2>5. ErrorIsTrue(p)' /\ Grounded(p)'
    <3>1. CASE \E ts \in TargetLists[p] : Start(p, ts)
      BY <1>1, <3>1, NoErrorYet DEF Start, Goto, TypeOK
    <3>2. CASE IoFault(p)
      <4>1. Running(p) /\ OwnersEnter
        BY <3>2 DEF IoFault, NInv
      <4>2. SaysTrue(p, "io")
        BY <3>2, <4>1, IoIsTrue DEF IoFault, SaysTrue
      <4> QED BY <3>2, <4>1, <4>2, FailIsTrue DEF IoFault, Errors
    <3>3. CASE Crash(p)
      BY <1>1, <3>3, NoErrorYet DEF Crash, Goto, TypeOK
    <3> QED BY <2>1, <3>1, <3>2, <3>3, StepSaysTrue
  <2>6. \A q \in Procs \ {p} : ErrorIsTrue(q)' /\ Grounded(q)'
    BY <2>2, ErrorStaysTrue DEF Safe, NInv
  <2> QED BY <2>4, <2>5, <2>6 DEF NInv
<1> QED BY <1>2, <1>3

(* On a file system whose owners can enter their directories, an error     *)
(* says what the user then finds on disk, however many runs race: runs of  *)
(* one user never make each other fail.                                    *)
THEOREM ErrorsTellTheTruth == OwnersEnter /\ Spec => []NoSpuriousFailure
<1>1. Init /\ OwnersEnter => NInv
  BY DEF Init, NInv, ErrorIsTrue, Grounded
<1>2. NInv => NoSpuriousFailure
  BY DEF NInv, NoSpuriousFailure
<1> QED BY <1>1, <1>2, NextNInv, Invariance, PTL DEF Spec

-----------------------------------------------------------------------------
(* Beside other tools *)

(* The tools changed n after the last look of p at it. *)
Excused(p, n) == <<p, n>> \in late

(* ReadsTrue and OkIsPrivate, but for the late changes. *)
ReadsTrueUnlessLate(p) ==
  Running(p) =>
    /\ \A i \in 1 .. tgt[p] - 1 :
         PrivateDir(targets[p][i], Euid[p]) \/ Excused(p, targets[p][i])
    /\ pc[p] = "relstat" => fs[Target(p)].kind \in {"dir", "link"}
    /\ pc[p] \in {"mode", "owner", "chmod", "verify"} =>
         fs[Target(p)].kind = "dir" \/ Excused(p, Target(p))
    /\ pc[p] = "owner" /\ seen[p] = OwnerOnly =>
         fs[Target(p)].mode = OwnerOnly \/ Excused(p, Target(p))
    /\ pc[p] \in {"chmod", "verify"} =>
         fs[Target(p)].owner = Euid[p] \/ Excused(p, Target(p))

OkIsPrivateUnlessLate(p) ==
  Succeeded(p) =>
    \A i \in 1 .. Len(targets[p]) :
      PrivateDir(targets[p][i], Euid[p]) \/ Excused(p, targets[p][i])

EnvInv ==
  /\ TypeOK
  /\ \A p \in Procs : OnTrack(p) /\ ReadsTrueUnlessLate(p) /\ OkIsPrivateUnlessLate(p)

(* A step of p leaves the others where they are and takes nothing back. *)
LEMMA StepKeeps ==
  ASSUME TypeOK, NEW p \in Procs, OnTrack(p), Step(p) \/ IoFault(p) \/ Crash(p)
  PROVE  /\ TypeOK' /\ Kept /\ OnTrack(p)'
         /\ \A q \in Procs \ {p} : Untouched(q)
         /\ UNCHANGED <<targets, runs>>
<1>1. Running(p)
  BY DEF Step, RejectSymlink, CannotReach, PathExists, Climb, MakeDir, AlreadyDir, NotADir,
         ReadMode, CheckOwner, Chmod, VerifyMode, IoFault, Crash, Running, Syscalls
<1>2. /\ Target(p) \in Nodes /\ Len(Chain[Target(p)]) \in Nat \ {0}
      /\ targets[p] \in Seq(Nodes) /\ Len(targets[p]) \in Nat /\ tgt[p] \in Nat
      /\ tgt[p] \in 1 .. Len(targets[p])
  BY <1>1, TrackIsOnNodes DEF OnTrack
<1> DEFINE Acts == Step(p) \/ IoFault(p) \/ Crash(p)
<1> USE DEF Fail, Goto
<1>3. fs' \in [Nodes -> Entry] /\ Kept
  <2>1. MakeDir(p) \/ Chmod(p) \/ fs' = fs
    BY DEF Step, IoFault, Crash, RejectSymlink, CannotReach, PathExists, Climb, AlreadyDir,
           NotADir, ReadMode, CheckOwner, VerifyMode
  <2> QED BY <1>1, <2>1, MakeDirKept, ChmodKept, SameFsKept DEF TypeOK
<1>4. UNCHANGED <<targets, runs>>
  BY DEF Step, IoFault, Crash, RejectSymlink, CannotReach, PathExists, Climb, MakeDir,
         AlreadyDir, NotADir, ReadMode, CheckOwner, Chmod, VerifyMode, NextTarget, Descend
<1>5. pc' = pc \/ \E to \in Syscalls \cup {"idle", "done"} : pc' = [pc EXCEPT ![p] = to]
  BY DEF Step, IoFault, Crash, RejectSymlink, CannotReach, PathExists, Climb, MakeDir,
         AlreadyDir, NotADir, ReadMode, CheckOwner, Chmod, VerifyMode, NextTarget, Descend,
         Syscalls
<1>6. \/ tgt' = tgt
      \/ tgt[p] < Len(targets[p]) /\ tgt' = [tgt EXCEPT ![p] = @ + 1] /\ depth' = depth
         /\ pc' = [pc EXCEPT ![p] = "lstat"]
  BY DEF Step, IoFault, Crash, RejectSymlink, CannotReach, PathExists, Climb, MakeDir,
         AlreadyDir, NotADir, ReadMode, CheckOwner, Chmod, VerifyMode, NextTarget, Descend
<1>7. pc \in [Procs -> Syscalls \cup {"idle", "done"}] /\ depth[p] \in Nat
  BY DEF TypeOK
<1>8. \/ depth' = depth /\ pc'[p] # "mkdir"
      \/ depth' = [depth EXCEPT ![p] = Len(Chain[Target(p)])] /\ tgt' = tgt
      \/ pc[p] = "mkdir" /\ depth[p] > 1 /\ depth' = [depth EXCEPT ![p] = @ - 1] /\ tgt' = tgt
      \/ /\ pc[p] = "mkdir" /\ depth[p] < Len(Chain[Target(p)])
         /\ depth' = [depth EXCEPT ![p] = @ + 1] /\ tgt' = tgt
  BY <1>7 DEF Step, IoFault, Crash, RejectSymlink, CannotReach, PathExists, Climb,
         ParentMissing, MakeDir, AlreadyDir, NotADir, ReadMode, CheckOwner, Chmod, VerifyMode,
         NextTarget, Descend
<1>9. /\ seen' \in [Procs -> SUBSET PermBits]
      /\ \A q \in Procs \ {p} : seen'[q] = seen[q]
  <2>1. seen' = seen \/ seen' = [seen EXCEPT ![p] = fs[Target(p)].mode]
    BY DEF Step, IoFault, Crash, RejectSymlink, CannotReach, PathExists, Climb, MakeDir,
           AlreadyDir, NotADir, ReadMode, CheckOwner, Chmod, VerifyMode, NextTarget, Descend
  <2>2. fs[Target(p)].mode \in SUBSET PermBits
    BY <1>2 DEF TypeOK, Entry
  <2> QED BY <2>1, <2>2 DEF TypeOK
<1>10. /\ outcome' \in [Procs -> Errors \cup {"ok", "none"}]
       /\ \A q \in Procs \ {p} : outcome'[q] = outcome[q]
  <2>1. outcome' = outcome
        \/ \E r \in Errors \cup {"ok"} : outcome' = [outcome EXCEPT ![p] = r]
    BY DEF Step, IoFault, Crash, RejectSymlink, CannotReach, PathExists, Climb, MakeDir,
           AlreadyDir, NotADir, ReadMode, CheckOwner, Chmod, VerifyMode, NextTarget, Descend,
           Errors
  <2> QED BY <2>1 DEF TypeOK
<1>11. /\ pc' \in [Procs -> Syscalls \cup {"idle", "done"}]
       /\ \A q \in Procs \ {p} : pc'[q] = pc[q]
  BY <1>5, <1>7
<1>12. /\ tgt' \in [Procs -> Nat \ {0}] /\ tgt'[p] \in 1 .. Len(targets[p])
       /\ \A q \in Procs \ {p} : tgt'[q] = tgt[q]
  <2>1. tgt \in [Procs -> Nat \ {0}] /\ tgt[p] + 1 \in Nat \ {0}
    BY <1>2 DEF TypeOK
  <2> QED BY <1>2, <1>6, <2>1
<1>13. /\ depth' \in [Procs -> Nat \ {0}]
       /\ \A q \in Procs \ {p} : depth'[q] = depth[q]
  <2>1. depth \in [Procs -> Nat \ {0}] /\ depth[p] + 1 \in Nat \ {0}
        /\ (depth[p] > 1 => depth[p] - 1 \in Nat \ {0})
    BY DEF TypeOK
  <2> QED BY <1>2, <1>8, <2>1
<1>14. pc'[p] = "mkdir" => depth'[p] \in 1 .. Len(Chain[Target(p)]) /\ tgt' = tgt
  <2>1. depth \in [Procs -> Nat \ {0}]
    BY DEF TypeOK
  <2>2. pc[p] = "mkdir" => depth[p] \in 1 .. Len(Chain[Target(p)])
    BY <1>1 DEF OnTrack
  <2> QED BY <1>2, <1>7, <1>8, <2>1, <2>2
<1>15. OnTrack(p)'
  BY <1>4, <1>12, <1>14 DEF OnTrack, Target
<1> QED BY <1>3, <1>4, <1>9, <1>10, <1>11, <1>12, <1>13, <1>15 DEF TypeOK, Untouched

(* What q has found out survives the steps of others, or is excused. *)
LEMMA StableUnlessLate ==
  ASSUME EnvInv, Kept, NEW q \in Procs, Untouched(q),
         \A n \in Nodes : Excused(q, n) => Excused(q, n)'
  PROVE  OnTrack(q)' /\ ReadsTrueUnlessLate(q)' /\ OkIsPrivateUnlessLate(q)'
<1>1. TypeOK /\ OnTrack(q) /\ ReadsTrueUnlessLate(q) /\ OkIsPrivateUnlessLate(q)
  BY DEF EnvInv
<1>2. Target(q)' = Target(q)
  BY DEF Untouched, Target
<1>3. targets[q] \in Seq(Nodes) /\ Len(targets[q]) \in Nat
      /\ \A i \in 1 .. Len(targets[q]) : targets[q][i] \in Nodes
  <2>1. targets[q] \in Seq(Nodes)
    BY <1>1 DEF TypeOK
  <2> QED BY <2>1
<1>4. \A n \in Nodes : PrivateDir(n, Euid[q]) \/ Excused(q, n)
                       => PrivateDir(n, Euid[q])' \/ Excused(q, n)'
  BY DEF Kept, PrivateDir, OwnerOnly
<1>5. OnTrack(q)'
  BY <1>1, <1>2 DEF OnTrack, Running, Untouched
<1>6. OkIsPrivateUnlessLate(q)'
  BY <1>1, <1>3, <1>4 DEF OkIsPrivateUnlessLate, Succeeded, Untouched
<1>7. CASE Running(q)
  <2>1. Target(q) \in Nodes /\ tgt[q] \in 1 .. Len(targets[q])
    BY <1>1, <1>7, TrackIsOnNodes DEF OnTrack
  <2>2. \A i \in 1 .. tgt'[q] - 1 :
          PrivateDir(targets[q][i], Euid[q])' \/ Excused(q, targets[q][i])'
    BY <1>1, <1>3, <1>4, <1>7, <2>1 DEF ReadsTrueUnlessLate, Untouched
  <2>3. ReadsTrueUnlessLate(q)'
    BY <1>1, <1>2, <1>7, <2>1, <2>2
       DEF ReadsTrueUnlessLate, Untouched, Kept, Running, OwnerOnly
  <2> QED BY <1>5, <1>6, <2>3
<1>8. CASE ~ Running(q)
  BY <1>5, <1>6, <1>8 DEF ReadsTrueUnlessLate, Running, Untouched
<1> QED BY <1>7, <1>8

(* The steps of p: an excuse is never needed that was not there before. *)
LEMMA OwnStepUnlessLate ==
  ASSUME EnvInv, NEW p \in Procs, Step(p) \/ IoFault(p) \/ Crash(p), late' = late
  PROVE  ReadsTrueUnlessLate(p)' /\ OkIsPrivateUnlessLate(p)'
<1>1. TypeOK /\ OnTrack(p) /\ ReadsTrueUnlessLate(p)
  BY DEF EnvInv
<1>2. TypeOK' /\ Kept /\ UNCHANGED <<targets, runs>>
  BY <1>1, StepKeeps
<1>3. Running(p)
  BY DEF Step, RejectSymlink, CannotReach, PathExists, Climb, MakeDir, AlreadyDir, NotADir,
         ReadMode, CheckOwner, Chmod, VerifyMode, IoFault, Crash, Running, Syscalls
<1>4. /\ Target(p) \in Nodes /\ targets[p] \in Seq(Nodes) /\ Len(targets[p]) \in Nat
      /\ tgt[p] \in 1 .. Len(targets[p]) /\ Len(Chain[Target(p)]) \in Nat
      /\ pc[p] = "mkdir" => Component(p) \in Nodes
  BY <1>1, <1>3, TrackIsOnNodes DEF OnTrack
<1>5. \A n : Excused(p, n)' <=> Excused(p, n)
  BY DEF Excused
<1>6. \A i \in 1 .. tgt[p] - 1 :
        PrivateDir(targets[p][i], Euid[p])' \/ Excused(p, targets[p][i])'
  <2>1. \A i \in 1 .. tgt[p] - 1 : targets[p][i] \in Nodes
                                   /\ (PrivateDir(targets[p][i], Euid[p]) \/ Excused(p, targets[p][i]))
    BY <1>1, <1>3, <1>4 DEF ReadsTrueUnlessLate
  <2> QED BY <1>2, <1>5, <2>1 DEF PrivateDir, Kept, OwnerOnly
<1>7. ASSUME NEW why \in Errors \cup {"idle"},
             (why \in Errors /\ Fail(p, why)) \/ Crash(p)
      PROVE  ReadsTrueUnlessLate(p)' /\ OkIsPrivateUnlessLate(p)'
  <2>1. ~ Running(p)' /\ ~ Succeeded(p)'
    BY <1>1, <1>7 DEF Fail, Crash, Goto, TypeOK, Running, Syscalls, Succeeded, Errors
  <2> QED BY <2>1 DEF ReadsTrueUnlessLate, OkIsPrivateUnlessLate
<1>8. ASSUME NEW to \in Syscalls, pc'[p] = to, tgt' = tgt,
             to = "relstat" => fs'[Target(p)].kind \in {"dir", "link"},
             to \in {"mode", "owner", "chmod", "verify"} =>
               fs'[Target(p)].kind = "dir" \/ Excused(p, Target(p)),
             to = "owner" /\ seen'[p] = OwnerOnly =>
               fs'[Target(p)].mode = OwnerOnly \/ Excused(p, Target(p)),
             to \in {"chmod", "verify"} =>
               fs'[Target(p)].owner = Euid[p] \/ Excused(p, Target(p))
      PROVE  ReadsTrueUnlessLate(p)' /\ OkIsPrivateUnlessLate(p)'
  <2>1. Target(p)' = Target(p)
    BY <1>2, <1>8 DEF Target
  <2>2. ~ Succeeded(p)'
    BY <1>8 DEF Succeeded, Syscalls
  <2> QED BY <1>2, <1>5, <1>6, <1>8, <2>1, <2>2 DEF ReadsTrueUnlessLate, OkIsPrivateUnlessLate
<1>9. ASSUME NextTarget(p), UNCHANGED <<fs, seen>>,
             PrivateDir(Target(p), Euid[p]) \/ Excused(p, Target(p))
      PROVE  ReadsTrueUnlessLate(p)' /\ OkIsPrivateUnlessLate(p)'
  <2>1. \A i \in 1 .. tgt[p] :
          PrivateDir(targets[p][i], Euid[p])' \/ Excused(p, targets[p][i])'
    <3> DEFINE at == targets[p][tgt[p]]
               Good(n) == PrivateDir(n, Euid[p]) \/ Excused(p, n)
    <3>1. Good(at) /\ \A i \in 1 .. tgt[p] - 1 : Good(targets[p][i])
      BY <1>1, <1>3, <1>9 DEF Target, ReadsTrueUnlessLate
    <3>2. \A n \in Nodes : Good(n) => PrivateDir(n, Euid[p])' \/ Excused(p, n)'
      BY <1>5, <1>9 DEF PrivateDir
    <3>3. \A i \in 1 .. tgt[p] : targets[p][i] \in Nodes /\ Good(targets[p][i])
      <4> HIDE DEF Good
      <4> QED BY <1>4, <3>1
    <3> HIDE DEF Good, at
    <3>4. \A i \in 1 .. tgt[p] :
            PrivateDir(targets[p][i], Euid[p])' \/ Excused(p, targets[p][i])'
      BY <1>2, <3>2, <3>3
    <3> QED BY <3>4
  <2>2. CASE tgt[p] < Len(targets[p])
    <3>1. tgt'[p] = tgt[p] + 1 /\ pc'[p] = "lstat"
      BY <1>1, <1>4, <1>9, <2>2 DEF NextTarget, Goto, TypeOK
    <3> QED BY <1>2, <1>4, <2>1, <2>2, <3>1
            DEF ReadsTrueUnlessLate, OkIsPrivateUnlessLate, Succeeded
  <2>3. CASE tgt[p] = Len(targets[p])
    <3>1. pc'[p] = "done"
      BY <1>1, <1>4, <1>9, <2>3 DEF NextTarget, Goto, TypeOK
    <3> QED BY <1>2, <1>4, <2>1, <2>3, <3>1
            DEF ReadsTrueUnlessLate, Running, Syscalls, OkIsPrivateUnlessLate
  <2> QED BY <1>4, <2>2, <2>3
<1>10. ASSUME Descend(p), pc[p] = "mkdir", fs'[Component(p)].kind \in {"dir", "link"}
       PROVE  ReadsTrueUnlessLate(p)' /\ OkIsPrivateUnlessLate(p)'
  <2>1. CASE depth[p] < Len(Chain[Target(p)])
    <3>1. pc'[p] = "mkdir" /\ tgt' = tgt
      BY <1>10, <2>1 DEF Descend, Goto
    <3> QED BY <1>8, <3>1 DEF Syscalls
  <2>2. CASE depth[p] = Len(Chain[Target(p)])
    <3>1. pc'[p] = "relstat" /\ tgt' = tgt
      BY <1>1, <1>10, <2>2 DEF Descend, Goto, TypeOK
    <3>2. Component(p) = Target(p)
      BY <1>4, <2>2, PathsAssumption DEF Component
    <3> QED BY <1>8, <1>10, <3>1, <3>2 DEF Syscalls
  <2> QED BY <1>10, <2>1, <2>2 DEF Descend
<1> USE DEF Syscalls
<1>11. CASE IoFault(p) \/ Crash(p) \/ CannotReach(p) \/ NotADir(p)
  BY <1>7, <1>11 DEF IoFault, CannotReach, NotADir, Errors
<1>12. CASE RejectSymlink(p, "lstat", "exists")
  BY <1>1, <1>7, <1>8, <1>12 DEF RejectSymlink, Goto, TypeOK, Errors
<1>13. CASE PathExists(p)
  BY <1>1, <1>8, <1>13 DEF PathExists, Goto, TypeOK
<1>14. CASE Climb(p)
  BY <1>8, <1>14 DEF Climb
<1>15. CASE MakeDir(p)
  BY <1>1, <1>10, <1>15, MakeDirKept DEF MakeDir
<1>16. CASE AlreadyDir(p)
  BY <1>10, <1>16 DEF AlreadyDir
<1>17. CASE RejectSymlink(p, "relstat", "mode")
  <2>1. CASE Fail(p, "symlink")
    BY <1>7, <2>1 DEF Errors
  <2>2. CASE fs[Target(p)].kind \notin Symlinks /\ Goto(p, "mode")
             /\ UNCHANGED <<fs, targets, tgt, depth, seen, outcome, runs>>
    <3>1. fs'[Target(p)].kind = "dir" /\ pc'[p] = "mode"
      BY <1>1, <1>3, <1>17, <2>2 DEF RejectSymlink, ReadsTrueUnlessLate, Goto, TypeOK, Symlinks
    <3> QED BY <1>8, <2>2, <3>1
  <2> QED BY <1>17, <2>1, <2>2 DEF RejectSymlink
<1>18. CASE ReadMode(p)
  <2>1. pc'[p] = "owner" /\ seen'[p] = fs[Target(p)].mode /\ fs' = fs /\ tgt' = tgt
    BY <1>1, <1>18 DEF ReadMode, Goto, TypeOK
  <2>2. fs[Target(p)].kind = "dir" \/ Excused(p, Target(p))
    BY <1>1, <1>3, <1>18 DEF ReadMode, ReadsTrueUnlessLate
  <2> QED BY <1>8, <2>1, <2>2
<1>19. CASE CheckOwner(p)
  <2>1. fs[Target(p)].kind = "dir" \/ Excused(p, Target(p))
    BY <1>1, <1>3, <1>19 DEF CheckOwner, ReadsTrueUnlessLate
  <2>2. CASE Fail(p, "owner")
    BY <1>7, <2>2 DEF Errors
  <2>3. CASE fs[Target(p)].owner = Euid[p] /\ seen[p] = OwnerOnly /\ NextTarget(p)
             /\ UNCHANGED <<fs, seen>>
    BY <1>1, <1>3, <1>9, <1>19, <2>1, <2>3 DEF CheckOwner, ReadsTrueUnlessLate, PrivateDir
  <2>4. CASE fs[Target(p)].owner = Euid[p] /\ Goto(p, "chmod")
             /\ UNCHANGED <<fs, targets, tgt, depth, seen, outcome, runs>>
    BY <1>1, <1>8, <2>1, <2>4 DEF Goto, TypeOK
  <2> QED BY <1>19, <2>2, <2>3, <2>4 DEF CheckOwner
<1>20. CASE Chmod(p)
  <2>1. fs'[Target(p)].kind = fs[Target(p)].kind /\ fs'[Target(p)].owner = fs[Target(p)].owner
    BY <1>1, <1>20, ChmodKept
  <2>2. pc'[p] = "verify" /\ tgt' = tgt
    BY <1>1, <1>20 DEF Chmod, Goto, TypeOK
  <2> QED BY <1>1, <1>3, <1>8, <1>20, <2>1, <2>2 DEF Chmod, ReadsTrueUnlessLate
<1>21. CASE VerifyMode(p)
  <2>1. CASE Fail(p, "mode")
    BY <1>7, <2>1 DEF Errors
  <2>2. CASE fs[Target(p)].mode = OwnerOnly /\ NextTarget(p) /\ UNCHANGED <<fs, seen>>
    BY <1>1, <1>3, <1>9, <1>21, <2>2 DEF VerifyMode, ReadsTrueUnlessLate, PrivateDir
  <2> QED BY <1>21, <2>1, <2>2 DEF VerifyMode
<1> QED BY <1>11, <1>12, <1>13, <1>14, <1>15, <1>16, <1>17, <1>18, <1>19, <1>20, <1>21 DEF Step

(* A tool's change is late for whoever will not look again. *)
LEMMA ToolsExcuse ==
  ASSUME EnvInv, NEW n \in Nodes,
         Relink(n) \/ \E m \in ToolModes : Widen(n, m)
  PROVE  EnvInv'
<1>1. TypeOK
  BY DEF EnvInv
<1>2. UNCHANGED <<pc, targets, tgt, depth, seen, outcome, runs>>
  BY DEF Relink, Widen
<1>3. fs' \in [Nodes -> Entry] /\ \A x \in Nodes \ {n} : fs'[x] = fs[x]
  <2>1. CASE Relink(n)
    <3>1. [fs[n] EXCEPT !.kind = "link"] \in Entry
      BY <1>1 DEF TypeOK, Entry
    <3> QED BY <1>1, <2>1, <3>1 DEF Relink, TypeOK
  <2>2. ASSUME NEW m \in ToolModes, Widen(n, m)
        PROVE  fs' \in [Nodes -> Entry] /\ \A x \in Nodes \ {n} : fs'[x] = fs[x]
    <3>1. [fs[n] EXCEPT !.mode = m] \in Entry
      <4>1. fs[n] \in Entry /\ m \in SUBSET PermBits
        BY <1>1, ToolsAssumption DEF TypeOK
      <4> QED BY <4>1 DEF Entry
    <3> QED BY <1>1, <2>2, <3>1 DEF Widen, TypeOK
  <2> QED BY <2>1, <2>2
<1>4. TypeOK'
  BY <1>1, <1>2, <1>3 DEF TypeOK
<1>5. late \subseteq late'
  BY DEF Relink, Widen
<1>6. Relink(n) => /\ fs'[n].kind = "link" /\ fs'[n].owner = fs[n].owner /\ fs'[n].mode = fs[n].mode
                   /\ \A p \in Procs : KindTaken(p, n) => Excused(p, n)'
  BY <1>1 DEF Relink, TypeOK, Entry, Excused
<1>7. ~ Relink(n) => /\ fs'[n].kind = fs[n].kind /\ fs'[n].owner = fs[n].owner
                     /\ \A p \in Procs : ModeTaken(p, n) => Excused(p, n)'
  BY <1>1 DEF Widen, TypeOK, Entry, Excused
<1>8. ASSUME NEW p \in Procs
      PROVE  OnTrack(p)' /\ ReadsTrueUnlessLate(p)' /\ OkIsPrivateUnlessLate(p)'
  <2>1. OnTrack(p) /\ ReadsTrueUnlessLate(p) /\ OkIsPrivateUnlessLate(p)
    BY DEF EnvInv
  <2>2. Target(p)' = Target(p) /\ (Running(p)' <=> Running(p)) /\ (Succeeded(p)' <=> Succeeded(p))
    BY <1>2 DEF Target, Running, Succeeded
  <2>3. \A x : Excused(p, x) => Excused(p, x)'
    BY <1>5 DEF Excused
  <2>4. DoneWith(p, n) => Excused(p, n)'
    BY <1>6, <1>7 DEF KindTaken, ModeTaken
  <2>5. ASSUME NEW x \in Nodes, DoneWith(p, x), PrivateDir(x, Euid[p]) \/ Excused(p, x)
        PROVE  PrivateDir(x, Euid[p])' \/ Excused(p, x)'
    BY <1>3, <2>3, <2>4, <2>5 DEF PrivateDir
  <2>6. OnTrack(p)'
    BY <1>2, <2>1, <2>2 DEF OnTrack
  <2>7. targets[p] \in Seq(Nodes) /\ Len(targets[p]) \in Nat
        /\ \A i \in 1 .. Len(targets[p]) : targets[p][i] \in Nodes
    <3>1. targets[p] \in Seq(Nodes)
      BY <1>1 DEF TypeOK
    <3> QED BY <3>1
  <2>8. OkIsPrivateUnlessLate(p)'
    BY <1>2, <2>1, <2>2, <2>5, <2>7 DEF OkIsPrivateUnlessLate, DoneWith
  <2>9. CASE Running(p)
    <3>1. Target(p) \in Nodes /\ tgt[p] \in 1 .. Len(targets[p])
      BY <1>1, <2>1, <2>9, TrackIsOnNodes DEF OnTrack
    <3>2. \A i \in 1 .. tgt'[p] - 1 :
            PrivateDir(targets[p][i], Euid[p])' \/ Excused(p, targets[p][i])'
      BY <1>2, <2>1, <2>5, <2>7, <2>9, <3>1 DEF ReadsTrueUnlessLate, DoneWith
    <3>3. PICK t \in Nodes : Target(p) = t /\ Target(p)' = t
      BY <2>2, <3>1
    <3>4. pc[p] = "relstat" => fs'[t].kind \in {"dir", "link"}
      BY <1>3, <1>6, <1>7, <2>1, <2>9, <3>3 DEF ReadsTrueUnlessLate
    <3>5. pc[p] \in {"mode", "owner", "chmod", "verify"} =>
            fs'[t].kind = "dir" \/ Excused(p, t)'
      BY <1>3, <1>6, <1>7, <2>1, <2>3, <2>9, <3>3 DEF ReadsTrueUnlessLate, KindTaken
    <3>6. pc[p] = "owner" /\ seen[p] = OwnerOnly =>
            fs'[t].mode = OwnerOnly \/ Excused(p, t)'
      BY <1>3, <1>6, <1>7, <2>1, <2>3, <2>9, <3>3 DEF ReadsTrueUnlessLate, ModeTaken
    <3>7. pc[p] \in {"chmod", "verify"} => fs'[t].owner = Euid[p] \/ Excused(p, t)'
      BY <1>3, <1>6, <1>7, <2>1, <2>3, <2>9, <3>3 DEF ReadsTrueUnlessLate
    <3>8. ReadsTrueUnlessLate(p)'
      BY <1>2, <3>2, <3>3, <3>4, <3>5, <3>6, <3>7 DEF ReadsTrueUnlessLate
    <3> QED BY <2>6, <2>8, <3>8
  <2>10. CASE ~ Running(p)
    BY <2>2, <2>6, <2>8, <2>10 DEF ReadsTrueUnlessLate
  <2> QED BY <2>9, <2>10
<1> QED BY <1>4, <1>8 DEF EnvInv

(* A run of p begins: what was late for the last one no longer matters.    *)
LEMMA StartForgets ==
  ASSUME EnvInv, NEW p \in Procs, NEW ts \in TargetLists[p], Start(p, ts),
         late' = {d \in late : runs'[d[1]] = runs[d[1]]}
  PROVE  EnvInv'
<1> USE DEF Start, Goto
<1>1. TypeOK
  BY DEF EnvInv
<1>2. ts \in Seq(Nodes) /\ Len(ts) > 0 /\ Len(ts) \in Nat
  BY TargetsAssumption
<1>3. TypeOK'
  BY <1>1, <1>2, ProcsAssumption DEF TypeOK, Syscalls
<1>4. pc'[p] = "lstat" /\ tgt'[p] = 1 /\ targets'[p] = ts
  BY <1>1 DEF TypeOK
<1>5. OnTrack(p)' /\ ReadsTrueUnlessLate(p)' /\ OkIsPrivateUnlessLate(p)'
  BY <1>2, <1>4 DEF OnTrack, ReadsTrueUnlessLate, OkIsPrivateUnlessLate, Succeeded
<1>6. ASSUME NEW q \in Procs \ {p}
      PROVE  OnTrack(q)' /\ ReadsTrueUnlessLate(q)' /\ OkIsPrivateUnlessLate(q)'
  <2>1. Untouched(q) /\ runs'[q] = runs[q]
    BY <1>1 DEF TypeOK, Untouched
  <2>2. \A n \in Nodes : Excused(q, n) => Excused(q, n)'
    BY <2>1 DEF Excused
  <2> QED BY <2>1, <2>2, SameFsKept, StableUnlessLate
<1> QED BY <1>3, <1>5, <1>6 DEF EnvInv

LEMMA EnvInvKept ==
  ASSUME EnvInv, [NextEnv]_envVars
  PROVE  EnvInv'
<1>1. CASE UNCHANGED envVars
  BY <1>1 DEF envVars, EnvInv, TypeOK, OnTrack, ReadsTrueUnlessLate, OkIsPrivateUnlessLate,
              Running, Succeeded, Target, PrivateDir, Excused
<1>2. ASSUME NEW n \in Nodes, Relink(n) \/ \E m \in ToolModes : Widen(n, m)
      PROVE  EnvInv'
  BY <1>2, ToolsExcuse
<1>3. CASE Preparation
  <2>1. PICK p \in Procs : \/ \E ts \in TargetLists[p] : Start(p, ts)
                          \/ Step(p) \/ IoFault(p) \/ Crash(p)
    BY <1>3 DEF Preparation, Next
  <2>2. CASE \E ts \in TargetLists[p] : Start(p, ts)
    BY <1>3, <2>2, StartForgets DEF Preparation
  <2>3. CASE Step(p) \/ IoFault(p) \/ Crash(p)
    <3>1. TypeOK /\ OnTrack(p)
      BY DEF EnvInv
    <3>2. /\ TypeOK' /\ Kept /\ OnTrack(p)' /\ UNCHANGED runs
          /\ \A q \in Procs \ {p} : Untouched(q)
      BY <2>3, <3>1, StepKeeps
    <3>3. late' = late
      BY <1>3, <3>2 DEF Preparation
    <3>4. ReadsTrueUnlessLate(p)' /\ OkIsPrivateUnlessLate(p)'
      BY <2>3, <3>3, OwnStepUnlessLate
    <3>5. \A q \in Procs \ {p} :
            OnTrack(q)' /\ ReadsTrueUnlessLate(q)' /\ OkIsPrivateUnlessLate(q)'
      BY <3>2, <3>3, StableUnlessLate DEF Excused
    <3> QED BY <3>2, <3>4, <3>5 DEF EnvInv
  <2> QED BY <2>1, <2>2, <2>3
<1> QED BY <1>1, <1>2, <1>3 DEF NextEnv

LEMMA EnvInvInit == InitEnv => EnvInv
<1> SUFFICES ASSUME InitEnv PROVE EnvInv
  OBVIOUS
<1>1. TypeOK
  BY InitIInv DEF InitEnv, IInv
<1>2. \A p \in Procs : pc[p] = "idle"
  BY DEF InitEnv, Init
<1> QED BY <1>1, <1>2 DEF EnvInv, OnTrack, ReadsTrueUnlessLate, OkIsPrivateUnlessLate,
                          Running, Succeeded, Syscalls

(* Whatever the user's other tools do meanwhile, and whenever: a run of    *)
(* ensure_owner_only_dirs that returned Ok(()) left its directories        *)
(* private, but for changes after its last look at them (paths.rs 423 and  *)
(* 443 to 509).                                                            *)
THEOREM OkIsTrustworthyUnlessLate == SpecEnv => []OkUnlessLate
<1>1. EnvInv => OkUnlessLate
  BY DEF EnvInv, OkIsPrivateUnlessLate, OkUnlessLate, Excused
<1> QED BY <1>1, EnvInvInit, EnvInvKept, PTL DEF SpecEnv

-----------------------------------------------------------------------------
(* Refinement of NamespaceOwnership *)

(* A safe step of p changes the status and the needs of p only. *)
LEMMA OnlyStatusOf ==
  ASSUME IInv, NEW p \in Procs, Safe(p)
  PROVE  /\ absStatus' = [absStatus EXCEPT ![p] = StatusOf(p)']
         /\ absNeeds'  = [absNeeds EXCEPT ![p] = NeedsOf(p)']
<1>1. \A q \in Procs \ {p} : StatusOf(q)' = StatusOf(q) /\ NeedsOf(q)' = NeedsOf(q)
  BY DEF Safe, Untouched, StatusOf, NeedsOf, Running
<1> QED BY <1>1 DEF absStatus, absNeeds

(* Holders change only with the file system. *)
LEMMA SameFsSameHolders == fs' = fs => absHolder' = absHolder
BY DEF absHolder, HolderOf

(* A run ends by giving up or by holding all it needs. *)
LEMMA FailGivesUp ==
  ASSUME IInv, NEW p \in Procs, NEW why \in Errors, Running(p), Fail(p, why)
  PROVE  Ownership!Next
<1>1. Safe(p)
  BY FailSafe
<1>2. StatusOf(p) = "running" /\ StatusOf(p)' = "failed" /\ NeedsOf(p)' = NeedsOf(p)
  BY DEF IInv, TypeOK, Fail, Goto, StatusOf, NeedsOf, Running, Syscalls, Errors
<1>3. absNeeds' = absNeeds
  BY <1>1, <1>2, OnlyStatusOf DEF absNeeds
<1>4. absHolder' = absHolder
  BY SameFsSameHolders DEF Fail
<1>5. Ownership!GiveUp(p, "failed")
  BY <1>1, <1>2, <1>3, <1>4, OnlyStatusOf DEF Ownership!GiveUp, absStatus
<1> QED BY <1>5 DEF Ownership!Next

LEMMA NextTargetMaps ==
  ASSUME IInv, NEW p \in Procs, Running(p), PrivateDir(Target(p), Euid[p]),
         NextTarget(p), UNCHANGED <<fs, seen>>
  PROVE  Ownership!Next \/ UNCHANGED Ownership!absVars
<1>1. TypeOK /\ ReadsTrue(p) /\ Safe(p)
  BY NextTargetSafe DEF IInv, ReadsStayTrue
<1>2. absHolder' = absHolder
  BY SameFsSameHolders
<1>3. NeedsOf(p)' = NeedsOf(p) /\ absNeeds' = absNeeds
  <2>1. NeedsOf(p)' = NeedsOf(p)
    BY DEF NextTarget, NeedsOf
  <2> QED BY <1>1, <2>1, OnlyStatusOf DEF absNeeds
<1>4. StatusOf(p) = "running"
  BY DEF StatusOf
<1>5. CASE pc'[p] = "lstat"
  <2>1. StatusOf(p)' = "running"
    BY <1>5 DEF StatusOf, Running, Syscalls
  <2>2. absStatus' = absStatus
    BY <1>1, <1>4, <2>1, OnlyStatusOf DEF absStatus
  <2> QED BY <1>2, <1>3, <2>2 DEF Ownership!absVars
<1>6. CASE tgt[p] = Len(targets[p]) /\ pc'[p] = "done" /\ outcome'[p] = "ok"
  <2>1. StatusOf(p)' = "ok"
    BY <1>6 DEF StatusOf, Running, Syscalls
  <2>2. targets[p] \in Seq(Nodes) /\ Len(targets[p]) \in Nat /\ tgt[p] \in Nat
    BY <1>1 DEF TypeOK
  <2>3. \A i \in 1 .. Len(targets[p]) :
          targets[p][i] \in Nodes /\ PrivateDir(targets[p][i], Euid[p])
    BY <1>1, <1>6, <2>2 DEF ReadsTrue, Target
  <2>4. \A n \in absNeeds[p] : absHolder[n] = Euid[p]
    BY <2>3 DEF absNeeds, NeedsOf, absHolder, HolderOf, PrivateDir
  <2>5. Ownership!Succeed(p)
    BY <1>1, <1>2, <1>3, <1>4, <2>1, <2>4, OnlyStatusOf DEF Ownership!Succeed, absStatus
  <2> QED BY <2>5 DEF Ownership!Next
<1> QED BY <1>1, <1>5, <1>6 DEF NextTarget, Goto, TypeOK

(* A call that neither ends the run nor changes the disk is a stutter. *)
LEMMA InnerStepStutters ==
  ASSUME IInv, NEW p \in Procs, Safe(p), fs' = fs, Running(p), Running(p)',
         targets' = targets
  PROVE  UNCHANGED Ownership!absVars
<1>1. absHolder' = absHolder
  BY SameFsSameHolders
<1>2. StatusOf(p)' = StatusOf(p) /\ NeedsOf(p)' = NeedsOf(p)
  BY DEF StatusOf, NeedsOf
<1>3. absStatus' = absStatus /\ absNeeds' = absNeeds
  BY <1>2, OnlyStatusOf DEF absStatus, absNeeds
<1> QED BY <1>1, <1>3 DEF Ownership!absVars

(* A call that changes node n, which nobody held, claims it if the new     *)
(* directory is owner-only, and changes nothing abstract otherwise.        *)
LEMMA ChangeClaims ==
  ASSUME IInv, NEW p \in Procs, Safe(p), Running(p), Running(p)', targets' = targets,
         NEW n \in Nodes, HolderOf(n) = NoUser, HolderOf(n)' \in {Euid[p], NoUser},
         \A m \in Nodes \ {n} : fs'[m] = fs[m]
  PROVE  Ownership!Next \/ UNCHANGED Ownership!absVars
<1>1. absStatus' = absStatus /\ absNeeds' = absNeeds
  <2>1. StatusOf(p)' = StatusOf(p) /\ NeedsOf(p)' = NeedsOf(p)
    BY DEF StatusOf, NeedsOf
  <2> QED BY <2>1, OnlyStatusOf DEF absStatus, absNeeds
<1>2. absHolder' = [absHolder EXCEPT ![n] = HolderOf(n)']
  BY DEF absHolder, HolderOf
<1>3. absStatus[p] = "running" /\ absHolder[n] = NoUser
  BY DEF absStatus, StatusOf, absHolder
<1>4. CASE HolderOf(n)' = Euid[p]
  BY <1>1, <1>2, <1>3, <1>4 DEF Ownership!Claim, Ownership!Next
<1>5. CASE HolderOf(n)' = NoUser
  <2>1. absHolder' = absHolder
    BY <1>2, <1>3, <1>5 DEF absHolder
  <2> QED BY <1>1, <2>1 DEF Ownership!absVars
<1> QED BY <1>4, <1>5

LEMMA StepMaps ==
  ASSUME IInv, NEW p \in Procs, Step(p)
  PROVE  Ownership!Next \/ UNCHANGED Ownership!absVars
<1>1. TypeOK /\ ReadsTrue(p) /\ Safe(p) /\ OnTrack(p)
  BY StepSafe DEF IInv, ReadsStayTrue, ReadsTrue, OnTrack
<1>2. Running(p)
  BY DEF Step, RejectSymlink, CannotReach, PathExists, Climb, MakeDir, AlreadyDir, NotADir,
         ReadMode, CheckOwner, Chmod, VerifyMode, Running, Syscalls
<1>3. \A why \in {"io", "symlink", "owner", "mode"} : Fail(p, why) => Ownership!Next
  BY <1>2, FailGivesUp DEF Errors
<1>4. ASSUME NEW to \in Syscalls, Goto(p, to), UNCHANGED <<fs, targets>>
      PROVE  UNCHANGED Ownership!absVars
  BY <1>1, <1>2, <1>4, InnerStepStutters DEF Goto, TypeOK, Running
<1>5. Descend(p) => Running(p)' /\ targets' = targets
  BY <1>1, <1>2 DEF Descend, Goto, TypeOK, Running, Syscalls
<1>6. CASE RejectSymlink(p, "lstat", "exists") \/ RejectSymlink(p, "relstat", "mode")
  BY <1>3, <1>4, <1>6 DEF RejectSymlink, Syscalls
<1>7. CASE CannotReach(p) \/ NotADir(p)
  BY <1>3, <1>7 DEF CannotReach, NotADir
<1>8. CASE PathExists(p) \/ ReadMode(p)
  BY <1>4, <1>8 DEF PathExists, ReadMode, Syscalls
<1>9. CASE Climb(p)
  BY <1>1, <1>2, <1>9, InnerStepStutters DEF Climb, Running
<1>10. CASE MakeDir(p)
  <2>1. Component(p) \in Nodes
    BY <1>1, <1>10, MakeDirKept
  <2>2. fs' = [fs EXCEPT ![Component(p)] = NewDir(p, Component(p))]
        /\ fs[Component(p)].kind = "absent" /\ NewDir(p, Component(p)).owner = Euid[p]
    BY <1>10 DEF MakeDir, NewDir
  <2>3. HolderOf(Component(p)) = NoUser
    BY <2>2 DEF HolderOf
  <2>4. fs'[Component(p)].owner = Euid[p] /\ \A m \in Nodes \ {Component(p)} : fs'[m] = fs[m]
    BY <1>1, <2>1, <2>2 DEF TypeOK
  <2>5. \A n \in Nodes : fs'[n].owner = Euid[p] => HolderOf(n)' \in {Euid[p], NoUser}
    BY DEF HolderOf
  <2> QED BY <1>1, <1>2, <1>5, <1>10, <2>1, <2>3, <2>4, <2>5, ChangeClaims DEF MakeDir
<1>11. CASE AlreadyDir(p)
  BY <1>1, <1>2, <1>5, <1>11, InnerStepStutters DEF AlreadyDir
<1>12. CASE CheckOwner(p)
  <2>1. CASE Fail(p, "owner")
    BY <1>3, <2>1
  <2>2. CASE fs[Target(p)].owner = Euid[p] /\ seen[p] = OwnerOnly /\ NextTarget(p) /\ UNCHANGED <<fs, seen>>
    BY <1>1, <1>2, <1>12, <2>2, NextTargetMaps DEF CheckOwner, ReadsTrue, PrivateDir
  <2>3. CASE Goto(p, "chmod") /\ UNCHANGED <<fs, targets, tgt, depth, seen, outcome, runs>>
    BY <1>4, <2>3 DEF Syscalls
  <2> QED BY <1>12, <2>1, <2>2, <2>3 DEF CheckOwner
<1>13. CASE Chmod(p)
  <2>1. Target(p) \in Nodes /\ fs'[Target(p)].owner = fs[Target(p)].owner
    BY <1>1, <1>13, ChmodKept
  <2>2. fs[Target(p)].owner = Euid[p]
    BY <1>1, <1>2, <1>13 DEF Chmod, ReadsTrue
  <2>3. Running(p)' /\ targets' = targets
    BY <1>1, <1>13 DEF Chmod, Goto, TypeOK, Running, Syscalls
  <2>4. fs' = fs \/ fs' = [fs EXCEPT ![Target(p)].mode = OwnerOnly]
    BY <1>13 DEF Chmod
  <2>5. CASE HolderOf(Target(p)) = NoUser
    <3>1. \A n \in Nodes : fs'[n].owner = Euid[p] => HolderOf(n)' \in {Euid[p], NoUser}
      BY DEF HolderOf
    <3>2. \A m \in Nodes \ {Target(p)} : fs'[m] = fs[m]
      BY <1>1, <2>1, <2>4 DEF TypeOK
    <3> QED BY <1>1, <1>2, <2>1, <2>2, <2>3, <2>5, <3>1, <3>2, ChangeClaims
  <2>6. CASE HolderOf(Target(p)) # NoUser
    <3>1. fs[Target(p)].mode = OwnerOnly
      BY <2>6 DEF HolderOf
    <3>2. fs \in [Nodes -> Entry] /\ fs[Target(p)] \in Entry
      BY <1>1, <2>1 DEF TypeOK
    <3>3. [fs[Target(p)] EXCEPT !.mode = OwnerOnly] = fs[Target(p)]
      BY <3>1, <3>2 DEF Entry
    <3>4. fs' = fs
      BY <2>1, <2>4, <3>2, <3>3
    <3> QED BY <1>1, <1>2, <2>3, <3>4, InnerStepStutters
  <2> QED BY <2>5, <2>6
<1>14. CASE VerifyMode(p)
  BY <1>1, <1>2, <1>3, <1>14, NextTargetMaps DEF VerifyMode, ReadsTrue, PrivateDir
<1> QED BY <1>6, <1>7, <1>8, <1>9, <1>10, <1>11, <1>12, <1>13, <1>14 DEF Step

LEMMA StartMaps ==
  ASSUME IInv, NEW p \in Procs, NEW ts \in TargetLists[p], Start(p, ts)
  PROVE  Ownership!Next
<1>1. TypeOK /\ Safe(p)
  BY StartSafe DEF IInv
<1>2. StatusOf(p) # "running" /\ StatusOf(p)' = "running"
  BY <1>1 DEF Start, Goto, TypeOK, StatusOf, Running, Syscalls
<1>3. NeedsOf(p)' \in SUBSET Nodes
  BY <1>1, TargetsAssumption DEF Start, TypeOK, NeedsOf
<1>4. absHolder' = absHolder
  BY SameFsSameHolders DEF Start
<1> QED BY <1>1, <1>2, <1>3, <1>4, OnlyStatusOf
        DEF Ownership!Begin, Ownership!Next, absStatus

LEMMA CrashMaps ==
  ASSUME IInv, NEW p \in Procs, Crash(p)
  PROVE  Ownership!Next
<1>1. TypeOK /\ Safe(p)
  BY CrashSafe DEF IInv
<1>2. StatusOf(p) = "running" /\ StatusOf(p)' = "idle" /\ NeedsOf(p)' = NeedsOf(p)
  BY <1>1 DEF Crash, Goto, TypeOK, StatusOf, NeedsOf, Running, Syscalls
<1>3. absNeeds' = absNeeds
  BY <1>1, <1>2, OnlyStatusOf DEF absNeeds
<1>4. absHolder' = absHolder
  BY SameFsSameHolders DEF Crash
<1>5. Ownership!GiveUp(p, "idle")
  BY <1>1, <1>2, <1>3, <1>4, OnlyStatusOf DEF Ownership!GiveUp, absStatus
<1> QED BY <1>5 DEF Ownership!Next

LEMMA InitMaps == Init => Ownership!Init
<1> SUFFICES ASSUME Init PROVE Ownership!Init
  OBVIOUS
<1>1. fs \in [Nodes -> Entry]
  BY InitFsAssumption DEF Init
<1>2. \A n \in Nodes : HolderOf(n) \in Users \cup {NoUser}
  BY <1>1 DEF HolderOf, Entry
<1>3. \A p \in Procs : StatusOf(p) = "idle"
  BY DEF Init, StatusOf, Running, Syscalls
<1>4. \A p \in Procs : NeedsOf(p) = {}
  <2>1. \A p \in Procs : targets[p] = << >>
    BY DEF Init
  <2>2. 1 .. Len(<< >>) = {}
    OBVIOUS
  <2> QED BY <2>1, <2>2 DEF NeedsOf
<1> QED BY <1>2, <1>3, <1>4 DEF Ownership!Init, absHolder, absStatus, absNeeds

LEMMA NextMaps == IInv /\ [Next]_vars => [Ownership!Next]_(Ownership!absVars)
<1> SUFFICES ASSUME IInv, [Next]_vars
             PROVE  Ownership!Next \/ UNCHANGED Ownership!absVars
  OBVIOUS
<1>1. ASSUME NEW p \in Procs, IoFault(p)
      PROVE  Ownership!Next
  BY <1>1, FailGivesUp DEF IoFault, Errors
<1>2. CASE Next
  BY <1>1, <1>2, StartMaps, StepMaps, CrashMaps DEF Next
<1>3. CASE UNCHANGED vars
  BY <1>3 DEF vars, Ownership!absVars, absHolder, absNeeds, absStatus, HolderOf, NeedsOf,
              StatusOf, Running
<1> QED BY <1>2, <1>3

(* The sequence of system calls implements exclusive, irrevocable          *)
(* ownership in one step per claim: the detailed specification refines     *)
(* NamespaceOwnership.                                                     *)
THEOREM Implements == Spec => Promise
BY InitMaps, NextMaps, Invariance, PTL DEF Spec, Promise, Ownership!Spec

-----------------------------------------------------------------------------
(* What follows from the abstract specification alone. *)

LEMMA NextHolds ==
  Ownership!OkHolds /\ [Ownership!Next]_(Ownership!absVars) => Ownership!OkHolds'
<1> SUFFICES ASSUME Ownership!OkHolds, [Ownership!Next]_(Ownership!absVars)
             PROVE  Ownership!OkHolds'
  OBVIOUS
<1> DEFINE H == absHolder
           N == absNeeds
           S == absStatus
<1>1. DOMAIN H = Nodes /\ DOMAIN N = Procs /\ DOMAIN S = Procs
  BY DEF absHolder, absNeeds, absStatus
<1>2. \A q \in Procs : S[q] = "ok" => \A n \in N[q] : H[n] = Euid[q]
  BY DEF Ownership!OkHolds
<1>3. \A q \in Procs : Euid[q] # NoUser
  BY ProcsAssumption
<1>4. SUFFICES \A q \in Procs : S'[q] = "ok" => \A n \in N'[q] : H'[n] = Euid[q]
  BY DEF Ownership!OkHolds
<1>5. CASE UNCHANGED Ownership!absVars
  BY <1>2, <1>5 DEF Ownership!absVars
<1>6. ASSUME NEW p \in Procs, Ownership!Begin(p)
      PROVE  \A q \in Procs : S'[q] = "ok" => \A n \in N'[q] : H'[n] = Euid[q]
  <2>1. /\ S' = [S EXCEPT ![p] = "running"] /\ H' = H
        /\ \E ns \in SUBSET Nodes : N' = [N EXCEPT ![p] = ns]
    BY <1>6 DEF Ownership!Begin
  <2> HIDE DEF H, N, S
  <2> QED BY <1>1, <1>2, <2>1
<1>7. ASSUME NEW p \in Procs, NEW n \in Nodes, Ownership!Claim(p, n)
      PROVE  \A q \in Procs : S'[q] = "ok" => \A m \in N'[q] : H'[m] = Euid[q]
  <2>1. S' = S /\ N' = N /\ H[n] = NoUser /\ H' = [H EXCEPT ![n] = Euid[p]]
    BY <1>7 DEF Ownership!Claim
  <2>2. \A m : H[m] # NoUser => H'[m] = H[m]
    <3> HIDE DEF H, N, S
    <3> QED BY <1>1, <2>1
  <2> HIDE DEF H, N, S
  <2> QED BY <1>2, <1>3, <2>1, <2>2
<1>8. ASSUME NEW p \in Procs, Ownership!Succeed(p)
      PROVE  \A q \in Procs : S'[q] = "ok" => \A n \in N'[q] : H'[n] = Euid[q]
  <2>1. /\ S' = [S EXCEPT ![p] = "ok"] /\ H' = H /\ N' = N
        /\ \A n \in N[p] : H[n] = Euid[p]
    BY <1>8 DEF Ownership!Succeed
  <2> HIDE DEF H, N, S
  <2> QED BY <1>1, <1>2, <2>1
<1>9. ASSUME NEW p \in Procs, NEW s \in {"failed", "idle"}, Ownership!GiveUp(p, s)
      PROVE  \A q \in Procs : S'[q] = "ok" => \A n \in N'[q] : H'[n] = Euid[q]
  <2>1. S' = [S EXCEPT ![p] = s] /\ H' = H /\ N' = N
    BY <1>9 DEF Ownership!GiveUp
  <2> HIDE DEF H, N, S
  <2> QED BY <1>1, <1>2, <2>1
<1> QED BY <1>5, <1>6, <1>7, <1>8, <1>9 DEF Ownership!Next

LEMMA InitHolds == Ownership!Init => Ownership!OkHolds
BY DEF Ownership!Init, Ownership!OkHolds

LEMMA NextKeeps ==
  [Ownership!Next]_(Ownership!absVars) =>
    [\A n \in Nodes : absHolder[n] # NoUser => absHolder'[n] = absHolder[n]]_(Ownership!absVars)
<1> SUFFICES ASSUME Ownership!Next, NEW m \in Nodes, absHolder[m] # NoUser
             PROVE  absHolder'[m] = absHolder[m]
  OBVIOUS
<1> DEFINE H == absHolder
<1>1. DOMAIN H = Nodes
  BY DEF absHolder
<1>2. H' = H \/ \E n \in Nodes : \E u : H[n] = NoUser /\ H' = [H EXCEPT ![n] = u]
  BY DEF Ownership!Next, Ownership!Begin, Ownership!Claim, Ownership!Succeed, Ownership!GiveUp
<1>3. H[m] # NoUser
  OBVIOUS
<1> HIDE DEF H
<1>4. H'[m] = H[m]
  BY <1>1, <1>2, <1>3
<1> QED BY <1>4 DEF H

(* Whatever implements NamespaceOwnership keeps its word for good: a run   *)
(* that reported success leaves its user the holder of all the run needed, *)
(* through every later call of any process, and no holder is ever          *)
(* replaced.                                                               *)
THEOREM HoldersAreForever ==
  Promise => []Ownership!OkHolds /\ Ownership!HeldForGood
BY InitHolds, NextHolds, NextKeeps, PTL DEF Promise, Ownership!Spec, Ownership!HeldForGood
=============================================================================
