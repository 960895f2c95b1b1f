---------------------------- MODULE RootOverrides ----------------------------
(***************************************************************************)
(* The loop of extract_root_overrides (crates/bwu-core/src/paths.rs): it   *)
(* takes the arguments from an iterator one or two at a time and stops at  *)
(* the first flag it cannot accept.                                        *)
(***************************************************************************)
EXTENDS Arguments

CONSTANTS
  Args,          (* arguments there are                                    *)
  CommandLines,  (* argument vectors the parser may be given               *)
  AllowedSets    (* sets of flags a binary may allow                       *)

ASSUME CommandLinesAssumption ==
  /\ \A t \in Args : IsFlag(t) => t.of \in Kinds
  /\ CommandLines \subseteq Seq(Args)
  /\ AllowedSets \subseteq SUBSET Kinds

VARIABLES
  argv,          (* the argument vector                                    *)
  allowed,       (* flags the binary allows                                *)
  at,            (* position of the next argument of the iterator          *)
  sanitized,     (* arguments kept so far                                  *)
  overrides,     (* roots set so far                                       *)
  result         (* "running", "ok" or the error                           *)

vars == <<argv, allowed, at, sanitized, overrides, result>>

Init ==
  /\ argv \in CommandLines
  /\ allowed \in AllowedSets
  /\ at = 1
  /\ sanitized = << >>
  /\ overrides = [k \in Kinds |-> NoOverride]
  /\ result = "running"

Arg == argv[at]

(* An argument that is no root flag is left for the command. *)
Keep ==
  /\ result = "running" /\ at <= Len(argv) /\ ~ IsFlag(Arg)
  /\ sanitized' = Append(sanitized, Arg)
  /\ at' = at + 1
  /\ UNCHANGED <<argv, allowed, overrides, result>>

Return(r) ==
  /\ result' = r
  /\ UNCHANGED <<argv, allowed, at, sanitized, overrides>>

UnsupportedFlag ==
  /\ result = "running" /\ at <= Len(argv) /\ IsFlag(Arg)
  /\ Arg.of \notin allowed
  /\ Return("unsupported_flag")

MissingValue ==
  /\ result = "running" /\ at <= Len(argv) /\ IsFlag(Arg) /\ Arg.of \in allowed
  /\ at = Len(argv)
  /\ Return("missing_value")

(* Whatever follows a flag is its value, another flag or --help included. *)
RelativeValue ==
  /\ result = "running" /\ at <= Len(argv) /\ IsFlag(Arg) /\ Arg.of \in allowed
  /\ at < Len(argv) /\ ~ IsAbsolute(argv[at + 1])
  /\ Return("relative_value")

(* Seeded fault: the value is left to be looked at as an argument again. *)
SetAndRescan ==
  /\ result = "running" /\ at <= Len(argv) /\ IsFlag(Arg) /\ Arg.of \in allowed
  /\ at < Len(argv) /\ IsAbsolute(argv[at + 1])
  /\ overrides' = [overrides EXCEPT ![Arg.of] = argv[at + 1]]
  /\ at' = at + 1
  /\ UNCHANGED <<argv, allowed, sanitized, result>>

(* Seeded fault: the first value of a flag wins. *)
SetFirst ==
  /\ result = "running" /\ at <= Len(argv) /\ IsFlag(Arg) /\ Arg.of \in allowed
  /\ at < Len(argv) /\ IsAbsolute(argv[at + 1])
  /\ overrides' = [overrides EXCEPT ![Arg.of] = IF @ = NoOverride THEN argv[at + 1] ELSE @]
  /\ at' = at + 2
  /\ UNCHANGED <<argv, allowed, sanitized, result>>

(* RootOverrides::set; a later flag of the same kind replaces the root. *)
Set ==
  /\ result = "running" /\ at <= Len(argv) /\ IsFlag(Arg) /\ Arg.of \in allowed
  /\ at < Len(argv) /\ IsAbsolute(argv[at + 1])
  /\ overrides' = [overrides EXCEPT ![Arg.of] = argv[at + 1]]
  /\ at' = at + 2
  /\ UNCHANGED <<argv, allowed, sanitized, result>>

Finish ==
  /\ result = "running" /\ at > Len(argv)
  /\ Return("ok")

Next == Keep \/ UnsupportedFlag \/ MissingValue \/ RelativeValue \/ Set \/ Finish

Spec == Init /\ [][Next]_vars

-----------------------------------------------------------------------------

TypeOK ==
  /\ argv \in Seq(Args)
  /\ allowed \in SUBSET Kinds
  /\ at \in 1 .. Len(argv) + 1
  /\ sanitized \in Seq(Args)
  /\ overrides \in [Kinds -> Args \cup {NoOverride}]
  /\ result \in {"running", "ok"} \cup ParseErrors

(* The loop never looks at a value as if it were an argument, and what it  *)
(* has collected is what the arguments it has passed mean.                 *)
PrefixDone ==
  /\ \A j \in 1 .. at - 1 : ~ Bad(argv, allowed, j)
  /\ at > 1 => ~ IsFlag(argv[at - 1])
  /\ \A k \in Kinds : IsOverride(argv, k, at, overrides[k])
  /\ IsRest(argv, at, sanitized)

(* The parser accepts a command line exactly when every flag of it is      *)
(* allowed and followed by an absolute path; then the last value of each   *)
(* kind counts and the other arguments remain in order.  Otherwise it      *)
(* reports the first flag at fault, with the reason that comes first in    *)
(* the code, though the loop never looks back or ahead.                    *)
ParsedAsDeclared ==
  /\ result = "ok" =>
       /\ Accepted(argv, allowed)
       /\ \A k \in Kinds : IsOverride(argv, k, Len(argv) + 1, overrides[k])
       /\ IsRest(argv, Len(argv) + 1, sanitized)
  /\ result \in ParseErrors =>
       \E i \in 1 .. Len(argv) :
         FirstBad(argv, allowed, i) /\ result = ErrorAt(argv, allowed, i)

(* The inductive invariant. *)
IInv ==
  /\ TypeOK
  /\ PrefixDone
  /\ result = "ok" => at = Len(argv) + 1
  /\ result \in ParseErrors =>
       Bad(argv, allowed, at) /\ result = ErrorAt(argv, allowed, at)
=============================================================================
