--------------------------- MODULE MCOwnerOnlyDirs ---------------------------
(***************************************************************************)
(* Instances of OwnerOnlyDirs.  bwu prepares ~/.local/share/bwu and        *)
(* $XDG_RUNTIME_DIR/bwu, the agent only the latter; root may also keep its *)
(* data on another file system.                                            *)
(***************************************************************************)
EXTENDS OwnerOnlyDirs

CONSTANTS cli, agent, sudo,          \* processes
          alice, root, nobody,       \* users, and nobody at all
          local, share, data, run, sock, usb

MCNodes == {local, share, data, run, sock, usb}

MCChain ==
  [n \in MCNodes |->
     CASE n = local -> <<local>>
       [] n = share -> <<local, share>>
       [] n = data  -> <<local, share, data>>
       [] n = run   -> <<run>>
       [] n = sock  -> <<run, sock>>
       [] n = usb   -> <<usb>>]

MCEuid == [p \in Procs |-> IF p = sudo THEN root ELSE alice]

MCTargets ==
  [p \in Procs |->
     CASE p = agent -> {<<sock>>}
       [] p = cli   -> {<<data, sock>>}
       [] p = sudo  -> {<<data, sock>>, <<sock, usb>>}]

Open        == PermBits
None        == [kind |-> "absent", owner |-> nobody, mode |-> {}]
Dir(u, m)   == [kind |-> "dir",  owner |-> u, mode |-> m]
Link(u, m)  == [kind |-> "link", owner |-> u, mode |-> m]
Dangling(u) == [kind |-> "dangling", owner |-> u, mode |-> Open]
File(u)     == [kind |-> "file", owner |-> u, mode |-> {"owner"}]
Disk(l, s, d, r, k) ==
  [n \in MCNodes |->
     CASE n = local -> l [] n = share -> s [] n = data -> d
       [] n = run -> r [] n = sock -> k [] n = usb -> None]

NoUmask    == [p \in Procs |-> {}]
(* sudo runs under a umask such as 0o177, which clears owner bits, and the *)
(* agent, a service, under none.                                           *)
OddUmask ==
  [p \in Procs |-> CASE p = sudo -> PermBits [] p = agent -> {} [] p = cli -> {"group", "other"}]

(* The first command of a user, and directories an older tool left open.  *)
CleanDisks ==
  {Disk(None, None, None, Dir(alice, OwnerOnly), k) : k \in {None, Dir(alice, Open)}}
  \cup {Disk(Dir(alice, Open), Dir(alice, Open), d, Dir(alice, OwnerOnly), None) :
          d \in {None, Dir(alice, {"owner", "group"}), Dir(alice, OwnerOnly)}}

(* Links (some to nothing), files and other people's directories on the    *)
(* way, or nothing.                                                        *)
ObstacleDisks ==
  {Disk(Dir(alice, Open), s, None, r, k) :
     s \in {None, Link(alice, Open), File(alice)},
     r \in {Dir(alice, OwnerOnly), Dir(root, Open)},
     k \in {None, Link(root, Open), Dir(root, OwnerOnly), File(alice)}}
  \cup {Disk(Dir(alice, Open), Dir(alice, Open), d, Dir(alice, OwnerOnly), None) :
     d \in {Link(alice, OwnerOnly), Dangling(alice), Dir(root, Open)}}
  \cup {Disk(Dir(alice, Open), Dangling(alice), None, r, None) :
     r \in {Dangling(alice), Dir(alice, OwnerOnly)}}
  \cup {Disk(l, None, None, Dir(root, Open), None) : l \in {None, Dir(root, OwnerOnly)}}

(* The user's bwu and agent beside a bwu run by root with the same HOME:   *)
(* the parents of the one or of the other directory are missing, or all    *)
(* are there and the socket directory is open.                             *)
SharedDisks ==
  {Disk(None, None, None, Dir(alice, OwnerOnly), None),
   Disk(Dir(alice, Open), Dir(alice, Open), Dir(alice, Open), None, None),
   Disk(Dir(alice, Open), Dir(alice, Open), Dir(alice, Open), Dir(alice, OwnerOnly),
        Dir(alice, {"owner", "other"}))}
=============================================================================
