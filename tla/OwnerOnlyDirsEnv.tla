--------------------------- MODULE OwnerOnlyDirsEnv ---------------------------
(***************************************************************************)
(* OwnerOnlyDirs beside the user's other tools, which may open up one of   *)
(* the user's directories (chmod -R) or move a namespace directory         *)
(* elsewhere and leave a link in its place, between any two calls of a     *)
(* preparing process.  paths.rs looks at links twice and at the mode once  *)
(* or twice; this module says how much of the promise that saves.          *)
(***************************************************************************)
EXTENDS OwnerOnlyDirs

CONSTANTS
  MaxChanges,    (* bound on the number of changes the tools make          *)
  ToolModes      (* modes they may set                                     *)

ASSUME ToolsAssumption == MaxChanges \in Nat /\ ToolModes \subseteq SUBSET PermBits

VARIABLES
  changes,       (* number of changes made so far                          *)
  late           (* <<p, n>>: n changed after the last look of p at it     *)

envVars == <<fs, pc, targets, tgt, depth, seen, outcome, runs, changes, late>>

(* p has finished with its target n, successfully. *)
DoneWith(p, n) ==
  \/ Succeeded(p)  /\ n \in {targets[p][i] : i \in 1 .. Len(targets[p])}
  \/ Running(p)    /\ n \in {targets[p][i] : i \in 1 .. tgt[p] - 1}

(* p will not read the mode of n again: it read 0o700 and accepts it.      *)
ModeTaken(p, n) ==
  DoneWith(p, n) \/ (pc[p] = "owner" /\ Target(p) = n /\ seen[p] = OwnerOnly)

(* p will not look again whether n is a link. *)
KindTaken(p, n) ==
  DoneWith(p, n) \/ (pc[p] \in {"mode", "owner", "chmod", "verify"} /\ Target(p) = n)

InitEnv == Init /\ changes = 0 /\ late = {}

(* chmod of a directory by a tool of its owner. *)
Widen(n, m) ==
  /\ changes < MaxChanges
  /\ fs[n].kind \in {"dir", "link"} /\ fs[n].mode # m
  /\ fs' = [fs EXCEPT ![n].mode = m]
  /\ changes' = changes + 1
  /\ late' = late \cup {<<p, n>> : p \in {q \in Procs : ModeTaken(q, n)}}
  /\ UNCHANGED <<pc, targets, tgt, depth, seen, outcome, runs>>

(* A tool replaces a directory by a link to it at its new place. *)
Relink(n) ==
  /\ changes < MaxChanges
  /\ fs[n].kind = "dir"
  /\ fs' = [fs EXCEPT ![n].kind = "link"]
  /\ changes' = changes + 1
  /\ late' = late \cup {<<p, n>> : p \in {q \in Procs : KindTaken(q, n)}}
  /\ UNCHANGED <<pc, targets, tgt, depth, seen, outcome, runs>>

(* A new run of p owes nothing to what happened after the last one. *)
Preparation ==
  /\ Next
  /\ late' = {d \in late : runs'[d[1]] = runs[d[1]]}
  /\ UNCHANGED changes

NextEnv ==
  \/ Preparation
  \/ \E n \in Nodes : Relink(n) \/ \E m \in ToolModes : Widen(n, m)

SpecEnv == InitEnv /\ [][NextEnv]_envVars

-----------------------------------------------------------------------------

(* A run that returned Ok(()) left all its directories private, but for    *)
(* the changes made after its last look at them: after the mode it         *)
(* accepted was read, or after the second symlink check.  Every earlier    *)
(* change is noticed or undone by the order in which                       *)
(* ensure_owner_only_dir_with_ops makes its calls.                         *)
OkUnlessLate ==
  \A p \in Procs : Succeeded(p) =>
    \A i \in 1 .. Len(targets[p]) :
      PrivateDir(targets[p][i], Euid[p]) \/ <<p, targets[p][i]>> \in late
=============================================================================
