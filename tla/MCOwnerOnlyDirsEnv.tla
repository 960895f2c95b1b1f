-------------------------- MODULE MCOwnerOnlyDirsEnv --------------------------
(* An instance of OwnerOnlyDirsEnv: bwu and the agent of one user.           *)
EXTENDS OwnerOnlyDirsEnv

CONSTANTS cli, agent, alice, root, nobody, data, run, sock

MCNodes == {data, run, sock}
MCChain == [n \in MCNodes |-> IF n = sock THEN <<run, sock>> ELSE <<n>>]
MCEuid    == [p \in Procs |-> alice]
MCUmask   == [p \in Procs |-> {"group", "other"}]
MCTargets == [p \in Procs |-> IF p = agent THEN {<<sock>>} ELSE {<<data, sock>>}]

None      == [kind |-> "absent", owner |-> nobody, mode |-> {}]
Dir(m)    == [kind |-> "dir", owner |-> alice, mode |-> m]

(* data is new, private or open; the runtime root is the user's.           *)
Disks ==
  {[n \in MCNodes |-> CASE n = data -> d [] n = run -> Dir(OwnerOnly) [] n = sock -> None] :
     d \in {None, Dir(OwnerOnly), Dir(PermBits)}}
=============================================================================
