------------------------------ MODULE Arguments ------------------------------
(***************************************************************************)
(* Command lines of bwu and bwu-agent, and what extracting the root        *)
(* overrides from one means, said without a loop                           *)
(* (crates/bwu-core/src/paths.rs, extract_root_overrides).  RootOverrides  *)
(* is the loop; Cli uses the meaning.                                      *)
(*                                                                         *)
(* An argument is [is |-> i, of |-> x]: a root flag of kind x, an absolute *)
(* path x, a help flag, or some other word x.  Only a path is absolute.    *)
(***************************************************************************)
EXTENDS Integers, Sequences, FiniteSets

Kinds == {"config", "cache", "data", "runtime"}      \* RootKind

IsFlag(t) == t.is = "flag"                           \* RootKind::from_flag
IsAbsolute(t) == t.is = "abs"

ParseErrors == {"unsupported_flag", "missing_value", "relative_value"}

NoOverride == [is |-> "none", of |-> "none"]

(* The flag at position i of a cannot be accepted. *)
Bad(a, allowed, i) ==
  /\ i \in 1 .. Len(a)
  /\ IsFlag(a[i])
  /\ ~ (a[i].of \in allowed /\ i < Len(a) /\ IsAbsolute(a[i + 1]))

(* The reason: of several, the one the user is told. *)
ErrorAt(a, allowed, i) ==
  IF a[i].of \notin allowed THEN "unsupported_flag"
  ELSE IF i = Len(a) THEN "missing_value" ELSE "relative_value"

FirstBad(a, allowed, i) ==
  Bad(a, allowed, i) /\ \A j \in 1 .. i - 1 : ~ Bad(a, allowed, j)

Accepted(a, allowed) == \A i \in 1 .. Len(a) : ~ Bad(a, allowed, i)

(* The positions before i with a flag of kind k. *)
FlagsBefore(a, k, i) == {j \in 1 .. Len(a) : j < i /\ IsFlag(a[j]) /\ a[j].of = k}

(* The positions before i that are neither a flag nor the value of one.    *)
KeptBefore(a, i) ==
  {j \in 1 .. Len(a) : j < i /\ ~ IsFlag(a[j]) /\ ~ (j > 1 /\ IsFlag(a[j - 1]))}

(* v is the override of kind k after the arguments before i: the value of  *)
(* the last flag of that kind.                                             *)
IsOverride(a, k, i, v) ==
  \/ FlagsBefore(a, k, i) = {} /\ v = NoOverride
  \/ \E j \in FlagsBefore(a, k, i) :
       (\A l \in FlagsBefore(a, k, i) : l <= j) /\ v = a[j + 1]

(* s is what remains of the arguments before i, in their order. *)
IsRest(a, i, s) ==
  /\ Len(s) = Cardinality(KeptBefore(a, i))
  /\ \A j \in KeptBefore(a, i) : s[Cardinality(KeptBefore(a, j)) + 1] = a[j]
=============================================================================
