-------------------------------- MODULE MCCli --------------------------------
(* bwu and bwu-agent of one user: overrides, XDG variables and HOME in the   *)
(* combinations that make the roots come from different sources.             *)
EXTENDS Cli

CONSTANTS cli, agent, alice, root, nobody

MCBinary == [p \in Procs |-> IF p = agent THEN "bwu-agent" ELSE "bwu"]
MCCommands == [b \in {"bwu", "bwu-agent"} |-> IF b = "bwu" THEN {"vault"} ELSE {"start"}]

Flag(k) == [is |-> "flag", of |-> k]
Abs(r)  == [is |-> "abs", of |-> r]
Word(w) == [is |-> "word", of |-> w]
HelpArg == [is |-> "help", of |-> "--help"]
Unset   == [is |-> "unset", of |-> "unset"]
Relative == [is |-> "rel", of |-> "rel"]

(* Under /h everything is in .config, .local/share, ..., under /r flat.    *)
MCHomeChild ==
  [hk \in {"/h"} \X Kinds |->
     CASE hk[2] = "config" -> "/h/.config" [] hk[2] = "cache" -> "/h/.cache"
       [] hk[2] = "data" -> "/h/.local/share" [] hk[2] = "runtime" -> "/h/.local/run"]

MCRoots == {"/r", "/h/.config", "/h/.cache", "/h/.local/share", "/h/.local/run"}
MCNodes ==
  MCRoots \cup {"/h/.local"} \cup
  {"/r/bwu", "/h/.config/bwu", "/h/.cache/bwu", "/h/.local/share/bwu", "/h/.local/run/bwu"}

MCNamespaceDir ==
  [r \in MCRoots |->
     CASE r = "/r" -> "/r/bwu" [] r = "/h/.config" -> "/h/.config/bwu"
       [] r = "/h/.cache" -> "/h/.cache/bwu" [] r = "/h/.local/share" -> "/h/.local/share/bwu"
       [] r = "/h/.local/run" -> "/h/.local/run/bwu"]

Local(n) == IF n \in {"/h/.local/share", "/h/.local/run"} THEN <<"/h/.local", n>> ELSE <<n>>

MCChain ==
  [n \in MCNodes |->
     IF \E r \in MCRoots : MCNamespaceDir[r] = n
     THEN Append(Local(CHOOSE r \in MCRoots : MCNamespaceDir[r] = n), n)
     ELSE Local(n)]

NoXdg == [k \in Kinds |-> Unset]
Home  == Abs("/h")

With(a, x, h) == [argv |-> a, xdg |-> x, home |-> h]

CliInvocations ==
  {With(a, NoXdg, Home) : a \in
     {<< >>, <<Word("vault")>>, <<Word("bogus")>>, <<Word("vault"), HelpArg>>,
      <<Word("vault"), Flag("data"), HelpArg>>,
      <<Flag("data"), Abs("/h/.config"), Word("vault"), Flag("data"), Abs("/r")>>,
      <<Abs("/r"), Word("vault")>>}}
  \cup
  {With(<<Flag("config"), Abs("/r"), Flag("cache"), Abs("/r"), Flag("data"), Abs("/r"),
          Word("vault")>>, x, Relative) :
     x \in {NoXdg, [NoXdg EXCEPT !["runtime"] = Abs("/r")],
            [NoXdg EXCEPT !["runtime"] = Relative]}}

AgentInvocations ==
  {With(<<Word("start")>>, x, h) :
     x \in {NoXdg, [NoXdg EXCEPT !["runtime"] = Abs("/r")]}, h \in {Home, Unset}}
  \cup {With(<<Flag("config"), Abs("/r"), HelpArg>>, NoXdg, Home),
        With(<<Word("vault")>>, NoXdg, Home)}

MCInvocations == [p \in Procs |-> IF p = agent THEN AgentInvocations ELSE CliInvocations]

MCTargetLists ==
  [p \in Procs |->
     {Dirs(MCBinary[p], i) : i \in {j \in MCInvocations[p] : Prepares(MCBinary[p], j)}}]

MCEuid  == [p \in Procs |-> alice]
MCUmask == [p \in Procs |-> {"group", "other"}]

None       == [kind |-> "absent", owner |-> nobody, mode |-> {}]
Dir(u, m)  == [kind |-> "dir", owner |-> u, mode |-> m]

(* /r exists; ~/.cache/bwu is missing, open or root's. *)
MCInitFs ==
  {[n \in MCNodes |->
      CASE n \in {"/r", "/h/.cache"} -> Dir(alice, PermBits)
        [] n = "/h/.cache/bwu" -> c
        [] OTHER -> None] :
     c \in {None, Dir(alice, PermBits), Dir(root, OwnerOnly)}}
=============================================================================
